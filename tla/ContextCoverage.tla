--------------------------- MODULE ContextCoverage ---------------------------
(***************************************************************************)
(* What Talk2DataService answers about a question: its domain fit, the     *)
(* governed memory a principal may see, and the context coverage receipt.  *)
(* Operators over a snapshot of the store; Orchestration has the steps.    *)
(*                                                                         *)
(* A question is the set of names its text mentions, so that the textual   *)
(* matchers are intersections.  Result limits are taken to be large.       *)
(***************************************************************************)
EXTENDS Naturals, FiniteSets

CONSTANTS
    Facts,      \* the memories: identifier -> what no step here changes
    NoCurrent   \* no current Domain Pack

Memories == DOMAIN Facts

\* The matchers _match_domain_ids .. _match_vocabulary: of the names of a pack,
\* those the text contains.
Mentioned(names, q) == names \cap q

\* DomainFit and the anchors of classify_question; concepts are those of the
\* products, capabilities, processes and the vocabulary.
Anchors(pack, q) ==
    Mentioned(pack.domains \cup pack.metrics \cup pack.entities \cup pack.concepts, q)

Adjacent(pack, q) ==
    \E rule \in pack.rules :
       /\ rule.allowed
       /\ rule.category \in Mentioned(pack.categories, q)
       /\ (rule.anchors \cap Anchors(pack, q)) \cup Mentioned(rule.terms, q) # {}

Classify(pack, q) ==
    CASE Adjacent(pack, q)          -> "external_adjacent"
      [] ~Adjacent(pack, q) /\ Anchors(pack, q) # {} -> "in_domain"
      [] ~Adjacent(pack, q) /\ Anchors(pack, q) = {} ->
            IF Mentioned(pack.excluded, q) # {} THEN "excluded" ELSE "unsupported"

\* _authorization_exclusion, without the tenant, which is never reported.
\* A principal is a record of its tenant, clearance and roles.
Excluded(who, m) ==
    \/ Facts[m].level > who.clearance
    \/ Facts[m].denied \cap who.roles # {}
    \/ Facts[m].allowed # {} /\ Facts[m].allowed \cap who.roles = {}

OfTenant(who) == {m \in Memories : Facts[m].tenant = who.tenant}

CurrentStatuses == {"approved", "published", "conflicting", "superseded", "expired"}
HistoricalStatuses == CurrentStatuses \cup {"deprecated"}

\* What a query asks for; an empty set asks for nothing in particular.  The
\* filters are the domains, metrics and entities the question was matched to.
NoFilters == [domains |-> {}, metrics |-> {}, entities |-> {}]

Asks(q, filters, types, statuses, historical) ==
    [text |-> q, filters |-> filters, types |-> types, statuses |-> statuses,
     historical |-> historical]

Meets(wanted, values) == wanted = {} \/ wanted \cap values # {}

\* query_memory: authorization first, then status, time, filters and text.
Query(who, status, ask) ==
    {m \in OfTenant(who) :
        /\ ~Excluded(who, m)
        /\ status[m].is \in ask.statuses
        /\ Facts[m].started /\ (ask.historical \/ ~Facts[m].ended)
        /\ Meets(ask.filters.domains, {Facts[m].domain})
        /\ Meets(ask.filters.metrics, Facts[m].metrics)
        /\ Meets(ask.filters.entities, Facts[m].entities)
        /\ Meets(ask.types, {Facts[m].type})
        /\ Meets(ask.text, Facts[m].text)}

\* policy_exclusions: of every memory of the tenant, related or not.
PolicyExclusions(who) == \E m \in OfTenant(who) : Excluded(who, m)

\* Mutant: the hits of the graph are answered as well.
QueryAddsHits(who, status, ask, hits) == Query(who, status, ask) \cup hits

\* query_memory_with_graph: hits of the graph reorder what was authorized.
QueryWithGraph(who, status, ask, hits) == Query(who, status, ask)

\* Hits beyond what was authorized add an exclusion of their own.
Strays(who, status, ask, hits) ==
    LET authorized == Query(who, status, ask)
    IN authorized # {} /\ hits \ authorized # {}

Partitions == {"domain_pack", "current_memory", "historical_memory", "investigations",
               "metric_timeline", "entity_timeline", "external_intelligence", "graph"}

\* What a partition asks of the memory in force: an empty status list stands
\* for the current statuses.
AsksNow(q, filters, types) == Asks(q, filters, types, CurrentStatuses, FALSE)

\* The memories one requested partition contributes to the receipt.
PartitionMemories(who, partition, status, q, filters, hits) ==
    LET Now(types) == AsksNow(q, filters, types)
        Past(text, about) == Asks(text, about, {}, HistoricalStatuses, TRUE)
    IN CASE partition = "domain_pack" -> {}
         [] partition = "current_memory" -> Query(who, status, Now({}))
         [] partition = "historical_memory" -> Query(who, status, Past(q, filters))
         [] partition = "investigations" -> Query(who, status, Now({"investigation"}))
         [] partition = "external_intelligence" ->
              Query(who, status, Now({"external_intelligence"}))
         [] partition = "graph" -> QueryWithGraph(who, status, Now({}), hits)
         [] partition = "metric_timeline" ->
              UNION {Query(who, status, Past({}, [NoFilters EXCEPT !.metrics = {metric}])) :
                       metric \in filters.metrics}
         [] partition = "entity_timeline" ->
              UNION {Query(who, status, Past({}, [NoFilters EXCEPT !.entities = {entity}])) :
                       entity \in filters.entities}

\* Whether it queries at all: a timeline does for each metric or entity.
Queries(partition, filters) ==
    CASE partition = "domain_pack" -> FALSE
      [] partition = "metric_timeline" -> filters.metrics # {}
      [] partition = "entity_timeline" -> filters.entities # {}
      [] OTHER -> TRUE

\* Mutant: a required source that never reported counts as healthy.
UnreportedIsHealthy(pack, requested, health) ==
    {s \in {r.id : r \in {x \in pack.sources :
               x.required /\ x.partitions \cap requested # {}}} :
        health[s] \in {"partial", "failed", "unavailable"}}

\* The required sources of the requested partitions, and those that fail them.
RequiredSources(pack, requested) ==
    {r.id : r \in {x \in pack.sources : x.required /\ x.partitions \cap requested # {}}}

UnavailableSources(pack, requested, health) ==
    {s \in RequiredSources(pack, requested) :
        health[s] \in {"none", "partial", "failed", "unavailable"}}

\* context_coverage: the receipt for the partitions a caller requests.
Receipt(who, pack, status, health, marks, q, filters, requested, hits) ==
    LET visible == UNION {PartitionMemories(who, p, status, q, filters, hits) : p \in requested}
        asksMemory == requested \ {"domain_pack"} # {}
        excluded == \/ PolicyExclusions(who) /\ \E p \in requested : Queries(p, filters)
                    \/ "graph" \in requested /\ Strays(who, status, AsksNow(q, filters, {}), hits)
        sources == IF pack = NoCurrent THEN {}
                   ELSE UnavailableSources(pack, requested, health)
        stale == pack # NoCurrent /\ \E s \in RequiredSources(pack, requested) :
                                         health[s] = "stale"
        conflicts == {m \in visible : status[m].is = "conflicting" \/ status[m].group}
        overall ==
            IF pack = NoCurrent \/ requested = {} THEN "unavailable"
            ELSE IF excluded /\ visible = {} THEN "denied"
            ELSE IF sources # {} \/ "unavailable" \in marks THEN "partial"
            ELSE IF stale \/ "lagging" \in marks THEN "stale"
            ELSE IF conflicts # {} \/ excluded \/ (asksMemory /\ visible = {}) THEN "partial"
            ELSE "complete"
    IN [overall |-> overall, searched |-> requested, visible |-> visible,
        conflicts |-> conflicts, sources |-> sources, excluded |-> excluded]

=============================================================================
