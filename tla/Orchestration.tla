--------------------------- MODULE Orchestration ---------------------------
(***************************************************************************)
(* Talk2DataDecisionOrchestrator, a client of the service: it classifies a *)
(* question, queries memory, asks for a coverage receipt and decides       *)
(* whether the analysis may proceed.  Its three calls are three requests,  *)
(* and what they read may change between them.                             *)
(***************************************************************************)
EXTENDS ContextCoverage

CONSTANTS
    Questions,       \* sets of names
    Principals,      \* records [tenant, clearance, roles]
    Packs,           \* the Domain Packs that may be current
    Sources,         \* knowledge sources
    Healths,         \* statuses the sources report, "none" before the first
    MaxWorldChanges  \* bound on changes while a question is evaluated

VARIABLES
    pack,        \* the current Domain Pack
    status,      \* memory -> status
    health,      \* source -> last reported health
    marks,       \* the statuses among the tenant's index watermarks
    graphFails,  \* the graph raises
    session,     \* the evaluation: the question, and what each step has found
    changes

vars == <<pack, status, health, marks, graphFails, session, changes>>
world == <<pack, status, health, marks, graphFails>>

\* The conflict group of a memory outlasts the conflict.
Agreed == [is |-> "published", group |-> FALSE]
Disputed == [is |-> "conflicting", group |-> TRUE]

\* What a call of the graph may return; an exception is answered like no hits.
Hits == IF graphFails THEN {{}} ELSE SUBSET Memories

Filters(s) == [domains |-> Mentioned(s.pack.domains, s.question),
               metrics |-> Mentioned(s.pack.metrics, s.question),
               entities |-> Mentioned(s.pack.entities, s.question)]

Init ==
    /\ pack \in Packs \cup {NoCurrent}
    /\ status \in [Memories -> {Agreed, Disputed}]
    /\ health \in [Sources -> Healths]
    /\ marks \in {{}, {"current"}, {"current", "lagging"}, {"unavailable"}}
    /\ graphFails \in BOOLEAN
    /\ \E who \in Principals, question \in Questions :
          session = [pc |-> "classify", who |-> who, question |-> question,
                     fit |-> "none", pack |-> NoCurrent,
                     withheld |-> FALSE, memory |-> {},
                     asked |-> {}, receipt |-> <<>>, at |-> <<>>,
                     proceed |-> FALSE, qualified |-> FALSE]
    /\ changes = 0

\* Other requests: a new pack takes effect or the pack expires, conflicts are
\* marked and resolved, sources report, projections succeed and fail.
WorldChanges ==
    /\ changes < MaxWorldChanges
    /\ session.pc # "decided"
    /\ changes' = changes + 1
    /\ \/ pack' \in Packs \cup {NoCurrent} /\ UNCHANGED <<status, health, marks, graphFails>>
       \/ /\ \E m \in Memories :
                status' \in {[status EXCEPT ![m] = Disputed],
                            [status EXCEPT ![m].is = "superseded"]}
          /\ UNCHANGED <<pack, health, marks, graphFails>>
       \/ /\ \E s \in Sources, h \in Healths \ {"none"} :
                health' = [health EXCEPT ![s] = h]
          /\ UNCHANGED <<pack, status, marks, graphFails>>
       \/ /\ marks' \in {{"current"}, {"unavailable"}}
          /\ graphFails' = ~graphFails
          /\ UNCHANGED <<pack, status, health>>
    /\ UNCHANGED <<session>>

\* Without a current pack the service answers 404 and the evaluation ends.
ClassifyStep ==
    /\ session.pc = "classify"
    /\ LET fit == Classify(pack, session.question)
       IN session' =
            IF pack = NoCurrent THEN [session EXCEPT !.pc = "failed"]
            ELSE [session EXCEPT
                    !.pc = IF fit \in {"excluded", "unsupported"} THEN "decided" ELSE "query",
                    !.fit = fit,
                    !.pack = pack]
    /\ UNCHANGED <<world, changes>>

\* The memory the answer may rest on: approved, published or conflicting.
QueryStep ==
    /\ session.pc = "query"
    /\ LET q == session.question
           ask == Asks(q, Filters(session), {}, {"approved", "published", "conflicting"}, FALSE)
       IN \E hits \in Hits :
             session' = [session EXCEPT
                !.pc = "cover",
                !.withheld = \/ PolicyExclusions(session.who)
                             \/ Strays(session.who, status, ask, hits),
                !.memory = QueryWithGraph(session.who, status, ask, hits)]
    /\ UNCHANGED <<world, changes>>

RequestedPartitions(s) ==
    {"domain_pack", "current_memory", "graph"}
    \cup (IF Filters(s).metrics = {} THEN {} ELSE {"metric_timeline"})
    \cup (IF Filters(s).entities = {} THEN {} ELSE {"entity_timeline"})
    \cup (IF s.fit = "external_adjacent" THEN {"external_intelligence"} ELSE {})

\* Whether any of the domain fit, the receipt and the exclusions adds a
\* qualification.
Qualified(s, receipt) ==
    \/ s.fit = "external_adjacent"
    \/ receipt.overall # "complete"
    \/ receipt.conflicts # {} \/ receipt.sources # {}
    \/ s.withheld

\* The receipt, and the decision on it.
CoverStep ==
    /\ session.pc = "cover"
    /\ \E hits \in Hits :
          LET asked == RequestedPartitions(session)
              receipt == Receipt(session.who, pack, status, health, marks, session.question,
                                 Filters(session), asked, hits)
          IN session' =
               [session EXCEPT
                  !.pc = "decided", !.asked = asked, !.receipt = receipt, !.at = world,
                  !.proceed = receipt.overall \notin {"denied", "unavailable"},
                  !.qualified = Qualified(session, receipt)]
    /\ UNCHANGED <<world, changes>>

Next == WorldChanges \/ ClassifyStep \/ QueryStep \/ CoverStep

Spec == Init /\ [][Next]_vars

-----------------------------------------------------------------------------
(* Properties.                                                             *)

Covered == session.pc = "decided" /\ session.asked # {}

\* A decision to proceed without qualification is earned: when its receipt was
\* made a pack was in force, every required source of the partitions had
\* reported healthy, no index was lagging or unavailable, no memory it could
\* show was in conflict or withheld, and some memory matched.
UnqualifiedIsEarned ==
    (Covered /\ session.proceed /\ ~session.qualified) =>
        LET now == session.at
        IN /\ now[1] # NoCurrent
           /\ \A source \in now[1].sources :
                 source.required /\ source.partitions \cap session.asked # {}
                 => now[3][source.id] = "healthy"
           /\ now[4] \subseteq {"current"}
           /\ \A m \in session.receipt.visible : now[2][m].is # "conflicting"
           /\ \A m \in OfTenant(session.who) : ~Excluded(session.who, m)
           /\ session.receipt.visible # {}

\* Neither the answer nor the receipt shows a memory of another tenant or one
\* that policy withholds, whatever the graph returns.
NoLeak ==
    Covered => \A m \in session.memory \cup session.receipt.visible :
        m \in OfTenant(session.who) /\ ~Excluded(session.who, m)

=============================================================================
