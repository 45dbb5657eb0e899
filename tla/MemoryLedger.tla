---------------------------- MODULE MemoryLedger ----------------------------
(***************************************************************************)
(* Governed memory of one tenant: promote_memory, supersede_memory and     *)
(* _mark_conflicts of Talk2DataService (talk2data/service.py) over the     *)
(* memory table of SqlAlchemyTalk2DataStore (talk2data/store.py).          *)
(*                                                                         *)
(* A request is a sequence of store calls.  add_memory puts the object     *)
(* into the dict and serialises it, which is one step here, and commits    *)
(* the row, which is the next: between the two, and between two calls,     *)
(* other requests of the thread pool run and the process may die.  The     *)
(* dict holds the objects themselves, so a change of one is seen at once;  *)
(* a row holds what was serialised, which may be older than the object.    *)
(* Once a request has stored a memory it projects it to the graph and      *)
(* stores it again.  A transaction never fails here.                       *)
(*                                                                         *)
(* All facts share memory type and business domain (facts that differ in   *)
(* either never meet).  A fact is about one subject (a metric or an        *)
(* entity) or about General, the facts that name none.  An effective       *)
(* interval is [from, to) over Times; no end is Forever.                   *)
(***************************************************************************)
EXTENDS Naturals, FiniteSets

CONSTANTS
    Ids,            \* memory identifiers
    Handlers,       \* requests that may run at the same time
    Subjects,       \* metrics and entities
    General,        \* a fact that names no metric and no entity
    Contents,       \* what a fact may say
    LastTime,       \* bound: effective times are 1 .. LastTime
    None,           \* no identifier
    Submitted,      \* the statuses a promotion request may ask for
    MaxCrashes      \* bound on process crashes

Times == 1 .. LastTime

\* datetime.max: the end of an interval that has none.
Forever == LastTime + 1

Statuses == {"unverified", "approved", "published", "deprecated", "superseded",
             "expired", "conflicting", "rejected"}

\* Talk2DataService.CURRENT_STATUSES.
CurrentStatuses == {"approved", "published", "conflicting", "superseded", "expired"}

ASSUME LedgerAssumption ==
    /\ None \notin Ids
    /\ General \notin Subjects
    /\ LastTime \in Nat
    /\ Submitted \subseteq Statuses
    /\ MaxCrashes \in Nat

VARIABLES
    memories,   \* the dict: memory_id -> the GovernedMemoryObject
    rows,       \* the committed rows: memory_id -> what was serialised
    job,        \* what each request is doing
    used,       \* the identifiers that were ever made
    crashes

vars == <<memories, rows, job, used, crashes>>

\* What checksum and provenance identify: the request, as it was made.
Fact == [subject : Subjects \cup {General}, content : Contents,
         from : Times, to : 2 .. Forever]

\* The conflict group is the sha256 of the two identifiers it was made from.
Groups == SUBSET Ids

\* fact.from never changes; to starts as fact.to and is closed by supersession.
\* group {} is conflict_group_id None.
Memory == [fact : Fact, to : Nat, status : Statuses, version : Nat,
           supersedes : Ids \cup {None}, supersededBy : Ids \cup {None},
           group : Groups]

Stored == DOMAIN memories

Empty == [m \in {} |-> {}]

\* pc: what the request does next.  new and id: the object built, not yet
\* stored.  todo: the memories that _mark_conflicts has still to visit.  old:
\* the memory to supersede.  write: the row to commit before anything else.
Idle == [pc |-> "idle"]

Init ==
    /\ memories = Empty
    /\ rows = Empty
    /\ job = [h \in Handlers |-> Idle]
    /\ used = {}
    /\ crashes = 0

-----------------------------------------------------------------------------

Overlap(left, right) == left.fact.from < right.to /\ right.fact.from < left.to

\* _mark_conflicts's test; the subject test is not symmetric.
Conflicts(other, new) ==
    /\ other.status \in CurrentStatuses
    /\ Overlap(other, new)
    /\ other.fact.subject \in {new.fact.subject, General}
    /\ other.fact # new.fact

\* new_id: random identifiers never repeat.
New(id) == id \in Ids \ used /\ used' = used \cup {id}

Built(fact, status, version, supersedes) ==
    [fact |-> fact, to |-> fact.to, status |-> status, version |-> version,
     supersedes |-> supersedes, supersededBy |-> None, group |-> {}]

Finish(h) == job' = [job EXCEPT ![h] = Idle]

At(h, pc) == job[h].pc = pc /\ job[h].write = Empty

Put(table, id, memory) ==
    [m \in DOMAIN table \cup {id} |-> IF m = id THEN memory ELSE table[m]]

\* add_memory up to its transaction: request is what the handler does next,
\* with the serialised object in hand.
Store(h, id, memory, request) ==
    /\ memories' = Put(memories, id, memory)
    /\ job' = [job EXCEPT ![h] = [request EXCEPT !.write = Put(Empty, id, memory)]]
    /\ UNCHANGED <<rows, used, crashes>>

\* The transaction of add_memory: merge and commit.
Commit(h) ==
    /\ job[h].pc # "idle"
    /\ \E m \in DOMAIN job[h].write : rows' = Put(rows, m, job[h].write[m])
    /\ job' = [job EXCEPT ![h].write = Empty]
    /\ UNCHANGED <<memories, used, crashes>>

-----------------------------------------------------------------------------
(* Promotion.                                                              *)

\* Mutant: a repeated request is not recognised.
PromoteAgain(h, id, fact, status) ==
    /\ job[h].pc = "idle"
    /\ New(id)
    /\ fact.from < fact.to
    /\ job' = [job EXCEPT ![h] =
                 [pc |-> "mark", id |-> id, new |-> Built(fact, status, 1, None),
                  todo |-> IF status \in CurrentStatuses THEN Stored ELSE {},
                  size |-> Cardinality(Stored), old |-> None, write |-> Empty]]
    /\ UNCHANGED <<memories, rows, crashes>>

\* promote_memory up to find_memory_duplicate: a fact that is stored already
\* is answered with the stored object, whatever became of it.
Promote(h, id, fact, status) ==
    /\ job[h].pc = "idle"
    /\ New(id)
    /\ fact.from < fact.to
    /\ \A m \in Stored : memories[m].fact # fact
    /\ job' = [job EXCEPT ![h] =
                 [pc |-> "mark", id |-> id, new |-> Built(fact, status, 1, None),
                  todo |-> IF status \in CurrentStatuses THEN Stored ELSE {},
                  size |-> Cardinality(Stored), old |-> None, write |-> Empty]]
    /\ UNCHANGED <<memories, rows, crashes>>

\* Mutant: a status outside MemoryStatus.
MarkDisputed(h, m) ==
    LET other == memories[m]
        group == IF other.group # {} THEN other.group ELSE {m, job[h].id}
    IN /\ At(h, "mark")
       /\ m \in job[h].todo
       /\ Conflicts(other, job[h].new)
       /\ Cardinality(Stored) = job[h].size
       /\ Store(h, m, [other EXCEPT !.status = "disputed", !.group = group],
                [job[h] EXCEPT !.todo = @ \ {m}])

\* Mutant: the new fact is not marked, only the old one.
MarkOther(h, m) ==
    LET other == memories[m]
        new == job[h].new
        group == IF other.group # {} THEN other.group ELSE {m, job[h].id}
    IN /\ At(h, "mark")
       /\ m \in job[h].todo
       /\ Conflicts(other, new)
       /\ Cardinality(Stored) = job[h].size
       /\ Store(h, m, [other EXCEPT !.status = "conflicting", !.group = group],
                [job[h] EXCEPT !.todo = @ \ {m}])

\* Mutant: the memory that contradicts the new one is marked in memory only.
MarkUnwritten(h, m) ==
    LET other == memories[m]
        new == job[h].new
        group == IF other.group # {} THEN other.group ELSE {m, job[h].id}
    IN /\ At(h, "mark")
       /\ m \in job[h].todo
       /\ Conflicts(other, new)
       /\ Cardinality(Stored) = job[h].size
       /\ memories' = Put(memories, m, [other EXCEPT !.status = "conflicting",
                                                    !.group = group])
       /\ job' = [job EXCEPT ![h].todo = @ \ {m},
                             ![h].new.status = "conflicting",
                             ![h].new.group = group]
       /\ UNCHANGED <<rows, used, crashes>>

\* One conflicting memory is found: both objects are marked, the stored one
\* is written.  The dict's order after a reload is the database's choice.
Mark(h, m) ==
    LET other == memories[m]
        new == job[h].new
        group == IF other.group # {} THEN other.group ELSE {m, job[h].id}
    IN /\ At(h, "mark")
       /\ m \in job[h].todo
       /\ Conflicts(other, new)
       /\ Cardinality(Stored) = job[h].size
       /\ Store(h, m, [other EXCEPT !.status = "conflicting", !.group = group],
                [job[h] EXCEPT !.todo = @ \ {m},
                               !.new.status = "conflicting",
                               !.new.group = group])

\* Python refuses to go on iterating over a dict that grew meanwhile: the
\* request fails, the memories it marked stay marked.
MarkFails(h) ==
    /\ At(h, "mark")
    /\ job[h].new.status \in CurrentStatuses
    /\ Cardinality(Stored) # job[h].size
    /\ Finish(h)
    /\ UNCHANGED <<memories, rows, used, crashes>>

\* Nothing is left to mark.
Marked(h) ==
    /\ At(h, "mark")
    /\ job[h].new.status \in CurrentStatuses => Cardinality(Stored) = job[h].size
    /\ \A m \in job[h].todo : ~Conflicts(memories[m], job[h].new)
    /\ job' = [job EXCEPT ![h].pc = "add"]
    /\ UNCHANGED <<memories, rows, used, crashes>>

\* The promoted memory is stored, or the replacement of a superseded one.
Add(h) ==
    /\ At(h, "add")
    /\ Store(h, job[h].id, job[h].new,
             [job[h] EXCEPT !.pc = IF job[h].old = None THEN "project" ELSE "projectOld"])

\* _project_memory stores the object once more, as it is by now: the memory
\* that was superseded, then the new one.
Project(h) ==
    \/ /\ At(h, "projectOld")
       /\ Store(h, job[h].old, memories[job[h].old], [job[h] EXCEPT !.pc = "project"])
    \/ /\ At(h, "project")
       /\ Store(h, job[h].id, memories[job[h].id], [job[h] EXCEPT !.pc = "answer"])

\* The graph refuses the memory: a failed projection is recorded, not raised.
ProjectFails(h) ==
    /\ At(h, "projectOld") \/ At(h, "project")
    /\ job' = [job EXCEPT ![h].pc = IF @ = "projectOld" THEN "project" ELSE "answer"]
    /\ UNCHANGED <<memories, rows, used, crashes>>

Answer(h) ==
    /\ At(h, "answer")
    /\ Finish(h)
    /\ UNCHANGED <<memories, rows, used, crashes>>

-----------------------------------------------------------------------------
(* Supersession.                                                           *)

\* supersede_memory up to its first write.  effective_at replaces the start of
\* the replacement; nothing relates it to the interval it closes.
Supersede(h, m, id, fact, status) ==
    /\ job[h].pc = "idle"
    /\ m \in Stored
    /\ memories[m].status \notin {"superseded", "deprecated", "rejected"}
    /\ New(id)
    /\ fact.from < fact.to
    /\ job' = [job EXCEPT ![h] =
                 [pc |-> "close", id |-> id, old |-> m, todo |-> {}, size |-> 0,
                  new |-> Built(fact, status, memories[m].version + 1, m),
                  write |-> Empty]]
    /\ UNCHANGED <<memories, rows, crashes>>

\* Mutant: the interval of the superseded memory stays open.
CloseKeepsInterval(h) ==
    /\ At(h, "close")
    /\ Store(h, job[h].old, [memories[job[h].old] EXCEPT
                               !.status = "superseded",
                               !.supersededBy = job[h].id],
             [job[h] EXCEPT !.pc = "add"])

\* Mutant: the superseded memory is removed from history.
CloseRetires(h) ==
    /\ At(h, "close")
    /\ Store(h, job[h].old, [memories[job[h].old] EXCEPT
                               !.status = "deprecated",
                               !.to = job[h].new.fact.from,
                               !.supersededBy = job[h].id],
             [job[h] EXCEPT !.pc = "add"])

\* The superseded memory is closed and written; its replacement follows.
Close(h) ==
    /\ At(h, "close")
    /\ Store(h, job[h].old, [memories[job[h].old] EXCEPT
                               !.status = "superseded",
                               !.to = job[h].new.fact.from,
                               !.supersededBy = job[h].id],
             [job[h] EXCEPT !.pc = "add"])

\* Every row can be read back: GovernedMemoryObject refuses an interval that
\* ends before it begins, and reload validates every row.
RowsReload == \A m \in DOMAIN rows : rows[m].fact.from < rows[m].to

\* The process dies: what was not committed and the requests are lost.  It
\* comes up again only if reload accepts every row.
Restart ==
    /\ crashes < MaxCrashes
    /\ RowsReload
    /\ crashes' = crashes + 1
    /\ memories' = rows
    /\ job' = [h \in Handlers |-> Idle]
    /\ UNCHANGED <<rows, used>>

Next ==
    \/ Restart
    \/ \E h \in Handlers :
          \/ \E id \in Ids, fact \in Fact, status \in Submitted :
                \/ Promote(h, id, fact, status)
                \/ \E m \in Stored : Supersede(h, m, id, fact, status)
          \/ \E m \in Stored : Mark(h, m)
          \/ MarkFails(h)
          \/ Marked(h)
          \/ Close(h)
          \/ Add(h)
          \/ Project(h)
          \/ ProjectFails(h)
          \/ Answer(h)
          \/ Commit(h)

Spec == Init /\ [][Next]_vars

-----------------------------------------------------------------------------
(* Properties.                                                             *)

\* A table of memories.
IsTable(table) ==
    /\ DOMAIN table \subseteq Ids
    /\ \A m \in DOMAIN table : table[m] \in Memory

\* Every object, every row and every row about to be committed has its type.
TypeOK ==
    /\ IsTable(memories)
    /\ IsTable(rows)
    /\ \A h \in Handlers :
          job[h].pc # "idle" =>
             /\ job[h].pc \in {"mark", "close", "add", "projectOld", "project", "answer"}
             /\ job[h].id \in Ids
             /\ job[h].new \in Memory
             /\ IsTable(job[h].write)

\* A memory made by promotion, not the replacement of a superseded one.
Promoted(m) == memories[m].supersedes = None

\* A memory that nothing has superseded.
Open(m) == memories[m].supersededBy = None

\* Of two promoted facts about one subject that are both in force at some time,
\* neither is left unmarked: the contradiction is recorded on both, also when a
\* crash cuts an earlier marking short.  (One request at a time: two concurrent
\* promotions do not see each other.)
ContradictionsAreMarked ==
    \A m, n \in Stored :
       /\ m # n /\ Promoted(m) /\ Promoted(n) /\ Open(m) /\ Open(n)
       /\ {memories[m].status, memories[n].status} \subseteq CurrentStatuses
       /\ memories[m].fact.subject = memories[n].fact.subject
       /\ Overlap(memories[m], memories[n])
       => memories[m].status = "conflicting" /\ memories[n].status = "conflicting"

\* Promoting the same fact again, after a lost answer or a crash, never makes
\* a second memory of it.  (One request at a time.)
PromotedOnce ==
    \A m, n \in Stored :
       Promoted(m) /\ Promoted(n) /\ memories[m].fact = memories[n].fact => m = n

\* When no request runs, a crash loses nothing: every object is in its row as
\* it is in memory, after requests that failed halfway and after earlier
\* crashes.  (One request at a time: see SupersededIsClosed.)
AnsweredIsDurable ==
    (\A h \in Handlers : job[h].pc = "idle") => rows = memories

\* In one table, a successor names the memory it replaces, carries the next
\* version, and takes effect at the instant its predecessor ends.
Contiguous(table) ==
    \A m \in DOMAIN table :
       LET next == table[m].supersededBy
       IN next \in DOMAIN table =>
            /\ table[next].supersedes = m
            /\ table[next].version = table[m].version + 1
            /\ table[next].fact.from = table[m].to

\* Versions chain, in memory and in the rows, whichever of the requests in
\* flight commits last and whatever a crash leaves behind.
ChainsAreContiguous == Contiguous(memories) /\ Contiguous(rows)

\* A version that a stored successor replaces is closed: after a crash too, no
\* time has both of them in force.
SupersededIsClosed ==
    \A m, n \in Stored : memories[n].supersedes = m => memories[m].supersededBy # None

\* What an as-of query about time t may answer with (query_memory, _effective).
InForce(memory, t) ==
    /\ memory.status \in CurrentStatuses
    /\ memory.fact.from <= t /\ t < memory.to

\* What was in force in one copy at time t still is in the next one, unless that
\* one was superseded effective at or before then.
Kept(copy, next, t) ==
    InForce(copy, t) => InForce(next, t) \/ (next.to <= t /\ next.supersededBy # None)

\* Nothing that happens later takes a fact out of the answers about a time at
\* which it was in force, except a supersession effective at or before then:
\* not out of memory, unless a crash takes back what was not committed, and not
\* out of the rows.  (The rows for times of the fact's own interval, and if
\* every memory is current from the start: a supersession also puts in force
\* what was "unverified", and may end after the fact did, and of either an
\* older row may know nothing.)
HistoryStands ==
    [][/\ crashes' = crashes =>
             \A m \in Stored, t \in Times :
                m \in Stored' /\ Kept(memories[m], memories'[m], t)
       /\ Submitted \subseteq CurrentStatuses =>
             \A m \in DOMAIN rows, t \in Times :
                t < rows[m].fact.to =>
                   m \in DOMAIN rows' /\ Kept(rows[m], rows'[m], t)]_vars

=============================================================================
