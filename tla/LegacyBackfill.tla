--------------------------- MODULE LegacyBackfill ---------------------------
(***************************************************************************)
(* LegacyKnowledgeBackfill: the command that turns each published legacy   *)
(* knowledge object into an episode and a governed memory.  A run is a     *)
(* process of its own: it reads the tables when it starts, and from then   *)
(* on only its own copy.  Runs may be killed, repeated, and overlap.       *)
(*                                                                         *)
(* ingest_episode and promote_memory appear as what they do to one run's   *)
(* copy and to the tables.  The version in the idempotency key never       *)
(* changes, so that the key stands for the legacy object.                  *)
(***************************************************************************)
EXTENDS Naturals, FiniteSets

CONSTANTS
    Objects,     \* published legacy objects, by identifier
    Unmapped,    \* those whose type TYPE_MAP does not hold
    Runs,        \* processes
    MaxLimit,    \* bound: the limit option, 0 .. MaxLimit
    MaxStarts    \* bound: how often runs are started

VARIABLES
    backEpisodes,  \* episode table: the object of each, and the run that stored it
    backMemories,  \* memory table, likewise
    run,           \* what each process is doing
    overlap,       \* history: two runs were once alive together
    starts

vars == <<backEpisodes, backMemories, run, overlap, starts>>

Dead == [pc |-> "dead"]

Init ==
    /\ backEpisodes = {}
    /\ backMemories = {}
    /\ run = [r \in Runs |-> Dead]
    /\ overlap = FALSE
    /\ starts = 0

\* BackfillReport and its entries.
Actions == {"planned", "migrated", "skipped", "ambiguous", "failed"}
Report == [Objects -> Actions \cup {"none"}]

HasObject(table, o) == \E row \in table : row.object = o

\* The objects are scanned by update time and identifier; which ones come
\* first under a limit is left open.
Start(r, dry, limit) ==
    /\ run[r].pc = "dead"
    /\ starts < MaxStarts
    /\ \E scanned \in SUBSET Objects :
          /\ Cardinality(scanned) = IF Cardinality(Objects) < limit
                                    THEN Cardinality(Objects) ELSE limit
          /\ run' = [run EXCEPT ![r] =
               [pc |-> "scan", no |-> starts, dry |-> dry, left |-> scanned, at |-> {},
                episodes |-> backEpisodes, memories |-> backMemories,
                report |-> [o \in Objects |-> "none"], scanned |-> scanned]]
    /\ overlap' = (overlap \/ \E q \in Runs : run[q].pc # "dead")
    /\ starts' = starts + 1
    /\ UNCHANGED <<backEpisodes, backMemories>>

Answered(r, o, action) ==
    run' = [run EXCEPT ![r].pc = "scan", ![r].at = {},
                       ![r].left = run[r].left \ {o},
                       ![r].report[o] = action]

\* Mutant: an object is skipped as soon as its episode exists.
MigrateByEpisode(r) ==
    /\ run[r].pc = "scan"
    /\ \E o \in run[r].left :
          LET done == HasObject(run[r].episodes, o)
          IN \/ done /\ Answered(r, o, "skipped")
             \/ /\ ~done /\ run[r].dry
                /\ Answered(r, o, IF o \in Unmapped THEN "ambiguous" ELSE "planned")
             \/ /\ ~done /\ ~run[r].dry
                /\ run' = [run EXCEPT ![r].pc = "episode", ![r].at = {o}]
    /\ UNCHANGED <<backEpisodes, backMemories, overlap, starts>>

\* An object with an episode and a memory in the run's copy is skipped; a dry
\* run plans; otherwise the migration begins.
Migrate(r) ==
    /\ run[r].pc = "scan"
    /\ \E o \in run[r].left :
          LET done == HasObject(run[r].episodes, o) /\ HasObject(run[r].memories, o)
          IN \/ done /\ Answered(r, o, "skipped")
             \/ /\ ~done /\ run[r].dry
                /\ Answered(r, o, IF o \in Unmapped THEN "ambiguous" ELSE "planned")
             \/ /\ ~done /\ ~run[r].dry
                /\ run' = [run EXCEPT ![r].pc = "episode", ![r].at = {o}]
    /\ UNCHANGED <<backEpisodes, backMemories, overlap, starts>>

\* ingest_episode: the episode in the run's copy, or a new one, whose row the
\* unique index refuses when another run has stored it; the object has then
\* failed, and the run goes on with the next.
IngestLegacy(r) ==
    /\ run[r].pc = "episode"
    /\ \E o \in run[r].at :
          \/ /\ HasObject(run[r].episodes, o)
             /\ run' = [run EXCEPT ![r].pc = "memory"]
             /\ UNCHANGED backEpisodes
          \/ /\ ~HasObject(run[r].episodes, o) /\ HasObject(backEpisodes, o)
             /\ Answered(r, o, "failed")
             /\ UNCHANGED backEpisodes
          \/ /\ ~HasObject(run[r].episodes, o) /\ ~HasObject(backEpisodes, o)
             /\ backEpisodes' = backEpisodes \cup {[object |-> o, by |-> run[r].no]}
             /\ run' = [run EXCEPT ![r].pc = "memory",
                          ![r].episodes = @ \cup {[object |-> o, by |-> run[r].no]}]
    /\ UNCHANGED <<backMemories, overlap, starts>>

\* promote_memory: the memory in the run's copy, or a new one; nothing in the
\* table forbids a second.
PromoteLegacy(r) ==
    /\ run[r].pc = "memory"
    /\ \E o \in run[r].at :
          /\ IF HasObject(run[r].memories, o) THEN UNCHANGED backMemories
             ELSE backMemories' = backMemories \cup {[object |-> o, by |-> run[r].no]}
          /\ Answered(r, o, IF o \in Unmapped THEN "ambiguous" ELSE "migrated")
    /\ UNCHANGED <<backEpisodes, overlap, starts>>

\* The run prints its report and ends.
End(r) ==
    /\ run[r].pc = "scan" /\ run[r].left = {}
    /\ run' = [run EXCEPT ![r].pc = "dead"]
    /\ UNCHANGED <<backEpisodes, backMemories, overlap, starts>>

\* The run is killed.
Kill(r) ==
    /\ run[r].pc # "dead"
    /\ run' = [run EXCEPT ![r] = Dead]
    /\ UNCHANGED <<backEpisodes, backMemories, overlap, starts>>

Step(r) == Migrate(r) \/ IngestLegacy(r) \/ PromoteLegacy(r) \/ End(r)

Next == \E r \in Runs :
    \/ \E dry \in BOOLEAN, limit \in 0 .. MaxLimit : Start(r, dry, limit)
    \/ Step(r)
    \/ Kill(r)

Spec == Init /\ [][Next]_vars

-----------------------------------------------------------------------------
(* Properties.                                                             *)

\* However runs are killed, repeated and overlapped, an object has one episode;
\* as long as no two runs overlap, it has one memory as well.
MigratedOnce ==
    /\ \A a, b \in backEpisodes : a.object = b.object => a = b
    /\ ~overlap => \A a, b \in backMemories : a.object = b.object => a = b

\* What a run reports holds of the tables: an object it migrated or skipped has
\* its memory, even when an earlier run was killed after the episode, and a
\* memory is never without the episode it rests on.
ReportsAreTrue ==
    /\ \A r \in Runs : run[r].pc # "dead" => \A o \in Objects :
          run[r].report[o] \in {"migrated", "skipped"} => HasObject(backMemories, o)
    /\ \A m \in backMemories : HasObject(backEpisodes, m.object)

\* The tables after any runs hold what the runs reported, once.
MigratedAsReported == MigratedOnce /\ ReportsAreTrue

=============================================================================
