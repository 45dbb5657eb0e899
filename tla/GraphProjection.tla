-------------------------- MODULE GraphProjection --------------------------
(***************************************************************************)
(* The temporal graph, a projection of the episodes, memories and          *)
(* relationships of all tenants, and the index watermark of each tenant    *)
(* that says whether it is current.  An item stands for any of the three;  *)
(* its version grows when it is changed, as by a supersession.             *)
(*                                                                         *)
(* Two backends: the graph held in memory, which refers to the stored      *)
(* objects, never fails, and is empty after a restart; and Graphiti, which *)
(* keeps copies, may fail at any call, and survives.                       *)
(***************************************************************************)
EXTENDS Naturals

CONSTANTS
    Items,             \* episodes, memories and relationships
    Tenants,
    TenantOf,          \* [Items -> Tenants]
    Links,             \* the items that are relationships
    Backends,          \* of {"memory", "graphiti"}
    MaxVersion,        \* bound on changes of an item
    MaxGraphFaults,    \* bound on failing calls of Graphiti
    MaxGraphRestarts   \* bound on restarts

VARIABLES
    backend,
    stored,       \* item -> its version in the store, 0 before it is stored
    graph,        \* item -> the version the graph shows, 0 for none
    mark,         \* tenant -> status of its "graph" watermark
    projecting,   \* items stored and not yet projected by their requests
    rebuild,      \* tenant -> its running rebuild
    graphFaults, graphRestarts

vars == <<backend, stored, graph, mark, projecting, rebuild, graphFaults, graphRestarts>>

NoRebuild == [pc |-> "none"]

Init ==
    /\ backend \in Backends
    /\ stored = [i \in Items |-> 0]
    /\ graph = stored
    /\ mark = [t \in Tenants |-> "none"]
    /\ projecting = {}
    /\ rebuild = [t \in Tenants |-> NoRebuild]
    /\ graphFaults = 0 /\ graphRestarts = 0

ItemsOf(t) == {i \in Items : TenantOf[i] = t}

\* The graph shows what is stored of the tenant.
InSync(t) == \A i \in ItemsOf(t) : graph[i] = stored[i]

\* A step outside the rebuild of t touches what that rebuild works on.
Disturb(tenants) ==
    [t \in Tenants |-> IF t \in tenants /\ rebuild[t].pc # "none"
                       THEN [rebuild[t] EXCEPT !.quiet = FALSE] ELSE rebuild[t]]

\* add_episode, add_memory, add_relationship: the object in memory is what the
\* in-memory graph refers to.
Write(i) ==
    /\ i \notin projecting
    /\ stored[i] < MaxVersion
    /\ stored' = [stored EXCEPT ![i] = @ + 1]
    /\ graph' = IF backend = "memory" /\ graph[i] > 0
                THEN [graph EXCEPT ![i] = @ + 1] ELSE graph
    /\ projecting' = projecting \cup {i}
    /\ rebuild' = Disturb({TenantOf[i]})
    /\ UNCHANGED <<backend, mark, graphFaults, graphRestarts>>

\* _project_episode, _project_memory: upsert, then mark the graph current.
\* add_relationship records a failure only: it leaves the mark alone.
Project(i) ==
    /\ i \in projecting
    /\ projecting' = projecting \ {i}
    /\ graph' = [graph EXCEPT ![i] = stored[i]]
    /\ mark' = IF i \notin Links THEN [mark EXCEPT ![TenantOf[i]] = "current"] ELSE mark
    /\ rebuild' = Disturb({TenantOf[i]})
    /\ UNCHANGED <<backend, stored, graphFaults, graphRestarts>>

\* Every projection error is swallowed and marks the graph unavailable.
ProjectFails(i) ==
    /\ i \in projecting
    /\ backend = "graphiti" /\ graphFaults < MaxGraphFaults
    /\ projecting' = projecting \ {i}
    /\ mark' = [mark EXCEPT ![TenantOf[i]] = "unavailable"]
    /\ graphFaults' = graphFaults + 1
    /\ UNCHANGED <<backend, stored, graph, rebuild, graphRestarts>>

\* rebuild_graph lists the tenant's objects.
BeginRebuild(t) ==
    /\ rebuild[t].pc = "none"
    /\ rebuild' = [rebuild EXCEPT ![t] =
         [pc |-> "clear", quiet |-> projecting \cap ItemsOf(t) = {},
          items |-> {i \in ItemsOf(t) : stored[i] > 0}]]
    /\ UNCHANGED <<backend, stored, graph, mark, projecting, graphFaults, graphRestarts>>

\* Graphiti clears the tenant, the in-memory graph everything.
Cleared(t) == IF backend = "memory" THEN Items ELSE ItemsOf(t)

ClearGraph(t) ==
    /\ rebuild[t].pc = "clear"
    /\ graph' = [i \in Items |-> IF i \in Cleared(t) THEN 0 ELSE graph[i]]
    /\ rebuild' = [Disturb(IF backend = "memory" THEN Tenants \ {t} ELSE {})
                   EXCEPT ![t].pc = "fill"]
    /\ UNCHANGED <<backend, stored, mark, projecting, graphFaults, graphRestarts>>

\* Mutant: the rebuild adds what the graph lacks and refreshes nothing.
FillOnlyMissing(t) ==
    /\ rebuild[t].pc = "clear"
    /\ graph' = [i \in Items |-> IF i \in rebuild[t].items /\ graph[i] = 0
                                 THEN stored[i] ELSE graph[i]]
    /\ rebuild' = [rebuild EXCEPT ![t].pc = "mark"]
    /\ UNCHANGED <<backend, stored, mark, projecting, graphFaults, graphRestarts>>

\* Then it upserts the objects it listed, as they are now.
FillGraph(t) ==
    /\ rebuild[t].pc = "fill"
    /\ graph' = [i \in Items |-> IF i \in rebuild[t].items THEN stored[i] ELSE graph[i]]
    /\ rebuild' = [rebuild EXCEPT ![t].pc = "mark"]
    /\ UNCHANGED <<backend, stored, mark, projecting, graphFaults, graphRestarts>>

\* A call of Graphiti fails: the rebuild ends with what it had done, and the
\* watermark says what it said before.
RebuildFails(t) ==
    /\ rebuild[t].pc = "fill"
    /\ backend = "graphiti" /\ graphFaults < MaxGraphFaults
    /\ \E done \in SUBSET rebuild[t].items :
          graph' = [i \in Items |-> IF i \in done THEN stored[i] ELSE graph[i]]
    /\ rebuild' = [rebuild EXCEPT ![t] = NoRebuild]
    /\ graphFaults' = graphFaults + 1
    /\ UNCHANGED <<backend, stored, mark, projecting, graphRestarts>>

MarkRebuilt(t) ==
    /\ rebuild[t].pc = "mark"
    /\ mark' = [mark EXCEPT ![t] = "current"]
    /\ rebuild' = [rebuild EXCEPT ![t] = NoRebuild]
    /\ UNCHANGED <<backend, stored, graph, projecting, graphFaults, graphRestarts>>

\* The process restarts; nothing fills the graph again.
RestartGraph ==
    /\ graphRestarts < MaxGraphRestarts
    /\ graph' = IF backend = "memory" THEN [i \in Items |-> 0] ELSE graph
    /\ projecting' = {}
    /\ rebuild' = [t \in Tenants |-> NoRebuild]
    /\ graphRestarts' = graphRestarts + 1
    /\ UNCHANGED <<backend, stored, mark, graphFaults>>

Next ==
    \/ RestartGraph
    \/ \E i \in Items :
          \/ Write(i)
          \/ Project(i)
          \/ ProjectFails(i)
    \/ \E t \in Tenants :
          \/ BeginRebuild(t)
          \/ ClearGraph(t)
          \/ FillGraph(t)
          \/ RebuildFails(t)
          \/ MarkRebuilt(t)

Spec == Init /\ [][Next]_vars

-----------------------------------------------------------------------------
(* Properties.                                                             *)

\* A rebuild that nothing disturbs makes the graph show exactly what is stored
\* of the tenant, whatever failures, lost projections and restarts came before.
RebuildHeals ==
    \A t \in Tenants :
       rebuild[t].pc = "mark" => (rebuild[t].quiet => InSync(t))

=============================================================================
