------------------------ MODULE MemoryLedger_proofs ------------------------
(***************************************************************************)
(* Theorems about MemoryLedger, for every number of memories, subjects,    *)
(* times and crashes.  The first part holds for any number of requests at  *)
(* a time, the second one for a single request at a time.                  *)
(*                                                                         *)
(* A memory exists in several copies: the object in memory, its row, and   *)
(* what a request is about to store or to commit, which may be older.  The *)
(* invariant of the first part speaks of any two copies, so that it does   *)
(* not matter which of them is written last.                               *)
(***************************************************************************)
EXTENDS MemoryLedger, TLAPS

-----------------------------------------------------------------------------
(* What requests and tables look like.                                     *)

Tables == UNION {[S -> Memory] : S \in SUBSET Ids}

Sizes == {Cardinality(S) : S \in SUBSET Ids} \cup {0}

\* A request in progress.
Pending == [pc : {"mark", "close", "add", "projectOld", "project", "answer"},
            id : Ids, new : Memory, todo : SUBSET Ids, size : Sizes,
            old : Ids \cup {None}, write : Tables]

Typed ==
    /\ memories \in Tables
    /\ rows \in Tables
    /\ job \in [Handlers -> {Idle} \cup Pending]
    /\ crashes \in Nat

Active(h) == job[h].pc # "idle"

\* The new memory of a request is not stored yet.
Before(h) == job[h].pc \in {"mark", "close", "add"}

-----------------------------------------------------------------------------
(* Any two copies.                                                         *)

\* copy is a copy of memory m.
Holds(m, copy) ==
    \/ m \in DOMAIN memories /\ copy = memories[m]
    \/ m \in DOMAIN rows /\ copy = rows[m]
    \/ \E h \in Handlers : Active(h) /\ m \in DOMAIN job[h].write /\ copy = job[h].write[m]
    \/ \E h \in Handlers : Active(h) /\ m = job[h].id /\ copy = job[h].new

\* Copies of one memory differ in its end, its successor, its status and its
\* conflict group only.
CopiesAgree ==
    \A m, x, y : Holds(m, x) /\ Holds(m, y) =>
       x.fact = y.fact /\ x.version = y.version /\ x.supersedes = y.supersedes

\* Every copy that names a successor fits every copy of the successor.
CopiesChain ==
    \A m, n, x, y : Holds(m, x) /\ Holds(n, y) /\ x.supersededBy = n =>
       y.supersedes = m /\ y.version = x.version + 1 /\ y.fact.from = x.to

CopiesAreKnown ==
    \A m, x : Holds(m, x) =>
       /\ m \in used
       /\ x.supersededBy \in used \cup {None}
       /\ x.supersededBy = None => x.to = x.fact.to
       /\ Submitted \subseteq CurrentStatuses => x.status \in CurrentStatuses

\* A request holds the successor of the memory it is about to close, and knows
\* what it has to project.
RequestsAreSound ==
    \A h \in Handlers : Active(h) =>
       /\ job[h].old = None \/ job[h].old \in Stored
       /\ job[h].pc = "projectOld" => job[h].old # None
       /\ job[h].pc = "close" =>
             /\ job[h].old # None
             /\ job[h].new.supersedes = job[h].old
             /\ job[h].new.version = memories[job[h].old].version + 1
       /\ job[h].pc \in {"projectOld", "project"} => job[h].id \in Stored

\* A request has made an identifier that nobody else holds.
IdsAreFresh ==
    /\ \A h \in Handlers : Before(h) => job[h].id \notin Stored
    /\ \A g, h \in Handlers : Active(g) /\ Active(h) /\ job[g].id = job[h].id => g = h

ChainInv ==
    /\ Typed
    /\ used \subseteq Ids
    /\ CopiesAgree
    /\ CopiesChain
    /\ CopiesAreKnown
    /\ RequestsAreSound
    /\ IdsAreFresh

-----------------------------------------------------------------------------
(* Lemmas about single operators.                                          *)

LEMMA TableValues ==
  ASSUME NEW table \in Tables
  PROVE  /\ DOMAIN table \subseteq Ids
         /\ \A m \in DOMAIN table : table[m] \in Memory
  BY DEF Tables

LEMMA EmptyTable == Empty \in Tables /\ DOMAIN Empty = {}
<1>1. Empty \in [{} -> Memory] /\ {} \in SUBSET Ids
  BY DEF Empty
<1> QED
  BY <1>1 DEF Tables, Empty

LEMMA PutTable ==
  ASSUME NEW table \in Tables, NEW id \in Ids, NEW memory \in Memory
  PROVE  /\ Put(table, id, memory) \in Tables
         /\ DOMAIN Put(table, id, memory) = DOMAIN table \cup {id}
         /\ Put(table, id, memory)[id] = memory
         /\ \A m \in DOMAIN table : m # id => Put(table, id, memory)[m] = table[m]
<1> DEFINE S == DOMAIN table \cup {id}
<1>1. S \in SUBSET Ids /\ \A m \in DOMAIN table : table[m] \in Memory
  BY TableValues
<1>2. Put(table, id, memory) \in [S -> Memory]
  BY <1>1 DEF Put
<1>3. Put(table, id, memory) \in Tables
  BY <1>1, <1>2 DEF Tables
<1> QED
  BY <1>3 DEF Put

\* Storing what is there already changes nothing.
LEMMA PutSame ==
  ASSUME NEW table \in Tables, NEW m \in DOMAIN table
  PROVE  Put(table, m, table[m]) = table
<1>1. PICK S \in SUBSET Ids : table \in [S -> Memory]
  BY DEF Tables
<1>2. DOMAIN table = S /\ DOMAIN table \cup {m} = S
  BY <1>1
<1>3. Put(table, m, table[m]) = [k \in S |-> table[k]]
  BY <1>2 DEF Put
<1> QED
  BY <1>1, <1>3

LEMMA PendingWhenActive ==
  ASSUME Typed, NEW h \in Handlers, Active(h)
  PROVE  job[h] \in Pending
  BY DEF Typed, Active, Idle

LEMMA BuiltType ==
  ASSUME NEW fact \in Fact, NEW status \in Statuses, NEW version \in Nat,
         NEW supersedes \in Ids \cup {None}
  PROVE  /\ Built(fact, status, version, supersedes) \in Memory
         /\ Built(fact, status, version, supersedes).supersedes = supersedes
         /\ Built(fact, status, version, supersedes).supersededBy = None
         /\ Built(fact, status, version, supersedes).version = version
         /\ Built(fact, status, version, supersedes).status = status
         /\ Built(fact, status, version, supersedes).fact = fact
         /\ Built(fact, status, version, supersedes).to = fact.to
<1>1. fact.to \in Nat
  BY LedgerAssumption DEF Fact, Forever
<1> QED
  BY <1>1 DEF Built, Memory, Groups

LEMMA ZeroSize == 0 \in Sizes /\ \A S \in SUBSET Ids : Cardinality(S) \in Sizes
  BY DEF Sizes

LEMMA IdleIsInactive == \A h \in Handlers : job[h] = Idle => ~Active(h) /\ ~Before(h)
  BY DEF Idle, Active, Before

LEMMA BeforeIsActive == \A h \in Handlers : Before(h) => Active(h)
  BY DEF Before, Active

-----------------------------------------------------------------------------
(* How steps change copies.                                                *)

\* x is as y was, but for a conflict that may have been marked.
Alike(x, y) ==
    /\ x.fact = y.fact /\ x.to = y.to /\ x.version = y.version
    /\ x.supersedes = y.supersedes /\ x.supersededBy = y.supersededBy
    /\ x.status = y.status \/ x.status \in CurrentStatuses

Copies == CopiesAgree /\ CopiesChain /\ CopiesAreKnown

\* A step that makes no copy but of copies.
LEMMA Recopied ==
  ASSUME Copies, UNCHANGED used,
         \A m, x : Holds(m, x)' => \E y : Holds(m, y) /\ Alike(x, y)
  PROVE  Copies'
<1>1. CopiesAgree'
  <2> SUFFICES ASSUME NEW m, NEW x, NEW y, Holds(m, x)', Holds(m, y)'
               PROVE  x.fact = y.fact /\ x.version = y.version /\ x.supersedes = y.supersedes
    BY DEF CopiesAgree
  <2>1. PICK u : Holds(m, u) /\ Alike(x, u)
    OBVIOUS
  <2>2. PICK v : Holds(m, v) /\ Alike(y, v)
    OBVIOUS
  <2> QED
    BY <2>1, <2>2 DEF Copies, CopiesAgree, Alike
<1>2. CopiesChain'
  <2> SUFFICES ASSUME NEW m, NEW n, NEW x, NEW y, Holds(m, x)', Holds(n, y)',
                      x.supersededBy = n
               PROVE  y.supersedes = m /\ y.version = x.version + 1 /\ y.fact.from = x.to
    BY DEF CopiesChain
  <2>1. PICK u : Holds(m, u) /\ Alike(x, u)
    OBVIOUS
  <2>2. PICK v : Holds(n, v) /\ Alike(y, v)
    OBVIOUS
  <2> QED
    BY <2>1, <2>2 DEF Copies, CopiesChain, Alike
<1>3. CopiesAreKnown'
  <2> SUFFICES ASSUME NEW m, NEW x, Holds(m, x)'
               PROVE  /\ m \in used
                      /\ x.supersededBy \in used \cup {None}
                      /\ x.supersededBy = None => x.to = x.fact.to
                      /\ Submitted \subseteq CurrentStatuses => x.status \in CurrentStatuses
    BY DEF CopiesAreKnown
  <2>1. PICK u : Holds(m, u) /\ Alike(x, u)
    OBVIOUS
  <2> QED
    BY <2>1 DEF Copies, CopiesAreKnown, Alike
<1> QED
  BY <1>1, <1>2, <1>3 DEF Copies

LEMMA AlikeSelf == \A x : Alike(x, x)
  BY DEF Alike

\* The request of h goes on, with the same identifiers.
LEMMA GoesOn ==
  ASSUME ChainInv, NEW h \in Handlers, Active(h), NEW j \in Pending,
         job' = [job EXCEPT ![h] = j],
         j.id = job[h].id, j.old = job[h].old,
         j.new.supersedes = job[h].new.supersedes, j.new.version = job[h].new.version,
         Stored \subseteq Stored', Stored' \subseteq Stored \cup {job[h].id},
         \A m \in Stored : memories'[m].version = memories[m].version,
         j.pc = "close" => job[h].pc = "close",
         j.pc = "projectOld" => job[h].old # None,
         j.pc \in {"projectOld", "project"} => job[h].id \in Stored',
         j.pc \in {"mark", "close", "add"} => Before(h) /\ Stored' = Stored
  PROVE  RequestsAreSound' /\ IdsAreFresh'
<1>1. job'[h] = j /\ \A g \in Handlers : g # h => job'[g] = job[g]
  BY DEF ChainInv, Typed
<1>2. \A g \in Handlers : (Active(g)' => Active(g)) /\ (Active(g) => job'[g].id = job[g].id)
  BY <1>1 DEF Active
<1>3. RequestsAreSound'
  BY <1>1, <1>2 DEF ChainInv, RequestsAreSound, Active
<1>4. \A g \in Handlers : Before(g)' => job'[g].id \notin Stored'
  <2> SUFFICES ASSUME NEW g \in Handlers, Before(g)' PROVE job'[g].id \notin Stored'
    OBVIOUS
  <2>1. CASE g = h
    BY <1>1, <2>1 DEF ChainInv, IdsAreFresh, Before
  <2>2. CASE g # h
    BY <1>1, <2>2 DEF ChainInv, IdsAreFresh, Before, Active
  <2> QED
    BY <2>1, <2>2
<1> QED
  BY <1>2, <1>3, <1>4 DEF ChainInv, IdsAreFresh

\* What Store does.
LEMMA Stores ==
  ASSUME ChainInv, NEW h \in Handlers, Active(h), NEW id \in Ids, NEW memory \in Memory,
         NEW request \in Pending, Store(h, id, memory, request)
  PROVE  /\ Typed' /\ UNCHANGED <<rows, used, crashes>>
         /\ Stored' = Stored \cup {id} /\ memories'[id] = memory
         /\ \A m \in Stored : m # id => memories'[m] = memories[m]
         /\ \E j \in Pending : /\ job' = [job EXCEPT ![h] = j]
                               /\ j.pc = request.pc /\ j.id = request.id
                               /\ j.new = request.new /\ j.todo = request.todo
                               /\ j.size = request.size /\ j.old = request.old
                               /\ j.write = Put(Empty, id, memory)
         /\ \A m, x : Holds(m, x)' => \/ Holds(m, x)
                                      \/ m = id /\ x = memory
                                      \/ m = request.id /\ x = request.new
<1> DEFINE w == Put(Empty, id, memory)
           j == [request EXCEPT !.write = w]
<1>1. w \in Tables /\ DOMAIN w = {id} /\ w[id] = memory
  <2>1. Empty \in Tables /\ DOMAIN Empty = {}
    BY EmptyTable
  <2>2. w \in Tables /\ DOMAIN w = DOMAIN Empty \cup {id} /\ w[id] = memory
    BY <2>1, PutTable
  <2> HIDE DEF w
  <2> QED
    BY <2>1, <2>2
<1>2. memories' = Put(memories, id, memory) /\ job' = [job EXCEPT ![h] = j]
      /\ UNCHANGED <<rows, used, crashes>>
  BY DEF Store
<1> HIDE DEF w
<1>3. /\ j \in Pending /\ j.pc = request.pc /\ j.id = request.id
      /\ j.new = request.new /\ j.todo = request.todo
      /\ j.size = request.size /\ j.old = request.old /\ j.write = w
  BY <1>1 DEF Pending
<1> HIDE DEF j
<1>4. /\ memories' \in Tables /\ Stored' = Stored \cup {id} /\ memories'[id] = memory
      /\ \A m \in Stored : m # id => memories'[m] = memories[m]
  BY <1>2, PutTable DEF ChainInv, Typed, Stored
<1>5. job'[h] = j /\ \A g \in Handlers : g # h => job'[g] = job[g]
  BY <1>2 DEF ChainInv, Typed
<1>6. Typed'
  BY <1>2, <1>3, <1>4 DEF ChainInv, Typed
<1>7. ASSUME NEW m, NEW x, Holds(m, x)', ~Holds(m, x)
      PROVE  (m = id /\ x = memory) \/ (m = request.id /\ x = request.new)
  <2>1. CASE m \in Stored' /\ x = memories'[m]
    BY <2>1, <1>4, <1>7 DEF Holds, Stored
  <2>2. CASE m \in DOMAIN rows' /\ x = rows'[m]
    BY <2>2, <1>2, <1>7 DEF Holds
  <2>3. ASSUME NEW g \in Handlers, Active(g)', m \in DOMAIN job'[g].write,
               x = job'[g].write[m]
        PROVE  m = id /\ x = memory
    <3>1. g = h
      BY <2>3, <1>5, <1>7 DEF Holds, Active
    <3> QED
      BY <3>1, <2>3, <1>1, <1>3, <1>5
  <2>4. ASSUME NEW g \in Handlers, Active(g)', m = job'[g].id, x = job'[g].new
        PROVE  m = request.id /\ x = request.new
    <3>1. g = h
      BY <2>4, <1>5, <1>7 DEF Holds, Active
    <3> QED
      BY <3>1, <2>4, <1>3, <1>5
  <2> QED
    BY <1>7, <2>1, <2>2, <2>3, <2>4 DEF Holds, Stored
<1> QED
  BY <1>2, <1>3, <1>4, <1>6, <1>7 DEF w

\* Of a request in progress.
LEMMA Requested ==
  ASSUME ChainInv, NEW h \in Handlers, Active(h)
  PROVE  /\ job[h] \in Pending /\ job[h].id \in Ids /\ job[h].new \in Memory
         /\ Holds(job[h].id, job[h].new)
         /\ Stored \subseteq Ids /\ job[h].write \in Tables
         /\ \A m \in Stored : memories[m] \in Memory /\ Holds(m, memories[m])
  BY PendingWhenActive, TableValues DEF ChainInv, Typed, Pending, Stored, Holds

-----------------------------------------------------------------------------
(* Every step preserves ChainInv.                                          *)

\* Promote and Supersede put a new request in place.
LEMMA Begun ==
  ASSUME ChainInv, NEW h \in Handlers, job[h].pc = "idle",
         NEW id, New(id), NEW j \in Pending, job' = [job EXCEPT ![h] = j],
         UNCHANGED <<memories, rows, crashes>>,
         j.id = id, j.write = Empty, j.pc \in {"mark", "close"},
         j.new.supersededBy = None, j.new.to = j.new.fact.to, j.new.status \in Submitted,
         j.old = None \/ j.old \in Stored,
         j.pc = "close" => /\ j.old # None
                           /\ j.new.supersedes = j.old
                           /\ j.new.version = memories[j.old].version + 1
  PROVE  ChainInv'
<1>1. /\ Stored' = Stored /\ used' = used \cup {id} /\ id \in Ids /\ id \notin used
      /\ id # None
  BY LedgerAssumption DEF Stored, New
<1>2. /\ job'[h] = j /\ \A g \in Handlers : g # h => job'[g] = job[g]
      /\ ~Active(h) /\ j.pc # "idle"
  BY DEF ChainInv, Typed, Active
<1>3. Typed'
  BY DEF ChainInv, Typed
<1>4. \A m, x : Holds(m, x)' => Holds(m, x) \/ (m = id /\ x = j.new)
  <2> SUFFICES ASSUME NEW m, NEW x, Holds(m, x)', ~Holds(m, x)
               PROVE  m = id /\ x = j.new
    OBVIOUS
  <2>1. PICK g \in Handlers :
           /\ Active(g)'
           /\ \/ m \in DOMAIN job'[g].write /\ x = job'[g].write[m]
              \/ m = job'[g].id /\ x = job'[g].new
    BY DEF Holds
  <2>2. g = h
    BY <1>2, <2>1 DEF Holds, Active
  <2> QED
    BY <1>2, <2>1, <2>2, EmptyTable
<1>5. \A m, x : Holds(m, x) => m # id /\ m # None /\ x.supersededBy # id
  <2>1. \A m, x : Holds(m, x) => m \in used /\ x.supersededBy \in used \cup {None}
    BY DEF ChainInv, CopiesAreKnown
  <2> QED
    BY <1>1, <2>1, LedgerAssumption DEF ChainInv
<1>6. CopiesAgree'
  BY <1>4, <1>5 DEF ChainInv, CopiesAgree
<1>7. CopiesChain'
  <2> SUFFICES ASSUME NEW m, NEW n, NEW x, NEW y, Holds(m, x)', Holds(n, y)',
                      x.supersededBy = n
               PROVE  y.supersedes = m /\ y.version = x.version + 1 /\ y.fact.from = x.to
    BY DEF CopiesChain
  <2>1. n # None
    BY <1>1, <1>4, <1>5
  <2>2. Holds(m, x)
    BY <1>4, <2>1
  <2>3. Holds(n, y)
    BY <1>4, <1>5, <2>2
  <2> QED
    BY <2>2, <2>3 DEF ChainInv, CopiesChain
<1>8. CopiesAreKnown'
  BY <1>1, <1>4 DEF ChainInv, CopiesAreKnown
<1>9. RequestsAreSound'
  BY <1>1, <1>2 DEF ChainInv, RequestsAreSound, Active
<1>10. IdsAreFresh'
  <2>1. id \notin Stored
    <3>1. \A m \in Stored : Holds(m, memories[m])
      BY DEF Holds, Stored
    <3> QED
      BY <3>1, <1>5
  <2>2. \A g \in Handlers : Active(g) => job[g].id # id
    <3>1. \A g \in Handlers : Active(g) => Holds(job[g].id, job[g].new)
      BY DEF Holds
    <3> QED
      BY <3>1, <1>5
  <2>3. \A g \in Handlers : Before(g)' => job'[g].id \notin Stored'
    BY <1>1, <1>2, <2>1 DEF ChainInv, IdsAreFresh, Before
  <2>4. \A g \in Handlers : Active(g)' => g = h \/ (Active(g) /\ job'[g].id = job[g].id)
    BY <1>2 DEF Active
  <2> QED
    BY <1>2, <2>2, <2>3, <2>4 DEF ChainInv, IdsAreFresh
<1> QED
  BY <1>1, <1>3, <1>6, <1>7, <1>8, <1>9, <1>10 DEF ChainInv

\* A request ends, or a restart ends them all.
LEMMA Ended ==
  ASSUME ChainInv, UNCHANGED used, Typed', \A m, x : Holds(m, x)' => Holds(m, x),
         RequestsAreSound', IdsAreFresh'
  PROVE  ChainInv'
  BY Recopied, AlikeSelf DEF ChainInv, Copies

LEMMA RestartChain ==
  ASSUME ChainInv, Restart
  PROVE  ChainInv'
<1>1. \A h \in Handlers : job'[h] = Idle /\ ~Active(h)' /\ ~Before(h)'
  BY DEF Restart, Idle, Active, Before
<1>2. Typed' /\ UNCHANGED <<rows, used>> /\ memories' = rows
  BY DEF Restart, ChainInv, Typed
<1>3. \A m, x : Holds(m, x)' => Holds(m, x)
  BY <1>1, <1>2 DEF Holds
<1>4. RequestsAreSound' /\ IdsAreFresh'
  BY <1>1 DEF RequestsAreSound, IdsAreFresh
<1> QED
  BY <1>2, <1>3, <1>4, Ended

LEMMA FinishChain ==
  ASSUME ChainInv, NEW h \in Handlers, Finish(h), UNCHANGED <<memories, rows, used, crashes>>
  PROVE  ChainInv'
<1>1. /\ job'[h] = Idle /\ \A g \in Handlers : g # h => job'[g] = job[g]
      /\ Typed' /\ Stored' = Stored
  BY DEF Finish, ChainInv, Typed, Stored
<1>2. \A g \in Handlers : (Active(g)' \/ Before(g)') => g # h /\ Active(g)
  BY <1>1 DEF Active, Before, Idle
<1>3. \A m, x : Holds(m, x)' => Holds(m, x)
  BY <1>1, <1>2 DEF Holds
<1>4. RequestsAreSound'
  BY <1>1, <1>2 DEF ChainInv, RequestsAreSound
<1>5. IdsAreFresh'
  BY <1>1, <1>2 DEF ChainInv, IdsAreFresh, Before
<1> QED
  BY <1>1, <1>3, <1>4, <1>5, Ended

LEMMA PromoteChain ==
  ASSUME ChainInv, NEW h \in Handlers, NEW id \in Ids, NEW fact \in Fact,
         NEW status \in Submitted, Promote(h, id, fact, status)
  PROVE  ChainInv'
<1> DEFINE new == Built(fact, status, 1, None)
           j == [pc |-> "mark", id |-> id, new |-> new,
                 todo |-> IF status \in CurrentStatuses THEN Stored ELSE {},
                 size |-> Cardinality(Stored), old |-> None, write |-> Empty]
<1>1. /\ new \in Memory /\ new.supersededBy = None /\ new.to = new.fact.to
      /\ new.status \in Submitted
  BY BuiltType, LedgerAssumption
<1>2. Stored \in SUBSET Ids
  BY TableValues DEF ChainInv, Typed, Stored
<1>3. New(id) /\ job' = [job EXCEPT ![h] = j] /\ UNCHANGED <<memories, rows, crashes>>
      /\ job[h].pc = "idle"
  BY DEF Promote
<1> HIDE DEF new
<1>4. j \in Pending
  BY <1>1, <1>2, ZeroSize, EmptyTable DEF Pending
<1>5. j.id = id /\ j.write = Empty /\ j.pc = "mark" /\ j.new = new /\ j.old = None
  OBVIOUS
<1> HIDE DEF j
<1> QED
  BY <1>1, <1>3, <1>4, <1>5, Begun

LEMMA SupersedeChain ==
  ASSUME ChainInv, NEW h \in Handlers, NEW id \in Ids, NEW fact \in Fact,
         NEW status \in Submitted, NEW m \in Stored, Supersede(h, m, id, fact, status)
  PROVE  ChainInv'
<1> DEFINE new == Built(fact, status, memories[m].version + 1, m)
           j == [pc |-> "close", id |-> id, old |-> m, todo |-> {}, size |-> 0,
                 new |-> new, write |-> Empty]
<1>1. m \in Ids /\ m # None /\ memories[m].version + 1 \in Nat /\ status \in Statuses
  BY LedgerAssumption, TableValues DEF ChainInv, Typed, Memory, Stored
<1>2. /\ new \in Memory /\ new.supersededBy = None /\ new.to = new.fact.to
      /\ new.status \in Submitted /\ new.supersedes = m
      /\ new.version = memories[m].version + 1
  BY <1>1, BuiltType
<1>3. New(id) /\ job' = [job EXCEPT ![h] = j] /\ UNCHANGED <<memories, rows, crashes>>
      /\ job[h].pc = "idle"
  BY DEF Supersede
<1> HIDE DEF new
<1>4. j \in Pending
  BY <1>1, <1>2, ZeroSize, EmptyTable DEF Pending
<1>5. j.id = id /\ j.write = Empty /\ j.pc = "close" /\ j.new = new /\ j.old = m
  OBVIOUS
<1> HIDE DEF j
<1> QED
  BY <1>1, <1>2, <1>3, <1>4, <1>5, Begun

\* The request goes on and no object changes.
LEMMA Quiet ==
  ASSUME ChainInv, NEW h \in Handlers, Active(h), NEW j \in Pending,
         job' = [job EXCEPT ![h] = j], UNCHANGED <<memories, used, crashes>>, rows' \in Tables,
         j.id = job[h].id, j.old = job[h].old, j.new = job[h].new,
         \A m, x : (m \in DOMAIN j.write /\ x = j.write[m]) => Holds(m, x),
         \A m \in DOMAIN rows' : Holds(m, rows'[m]),
         j.pc = "close" => job[h].pc = "close",
         j.pc = "projectOld" => job[h].old # None,
         j.pc \in {"projectOld", "project"} => job[h].id \in Stored,
         j.pc \in {"mark", "close", "add"} => Before(h)
  PROVE  ChainInv'
<1>1. job'[h] = j /\ \A g \in Handlers : g # h => job'[g] = job[g]
  BY DEF ChainInv, Typed
<1>2. Typed' /\ Stored' = Stored
  BY DEF ChainInv, Typed, Stored
<1>3. \A m, x : Holds(m, x)' => Holds(m, x)
  <2> SUFFICES ASSUME NEW m, NEW x, Holds(m, x)' PROVE Holds(m, x)
    OBVIOUS
  <2>1. CASE m \in DOMAIN memories' /\ x = memories'[m]
    BY <2>1 DEF Holds
  <2>2. CASE m \in DOMAIN rows' /\ x = rows'[m]
    BY <2>2
  <2>3. ASSUME NEW g \in Handlers, Active(g)', m \in DOMAIN job'[g].write,
               x = job'[g].write[m]
        PROVE  Holds(m, x)
    BY <1>1, <2>3 DEF Holds, Active
  <2>4. ASSUME NEW g \in Handlers, Active(g)', m = job'[g].id, x = job'[g].new
        PROVE  Holds(m, x)
    BY <1>1, <2>4 DEF Holds, Active
  <2> QED
    BY <2>1, <2>2, <2>3, <2>4 DEF Holds
<1>4. RequestsAreSound' /\ IdsAreFresh'
  BY <1>2, GoesOn
<1> QED
  BY <1>2, <1>3, <1>4, Ended

LEMMA MarkedChain ==
  ASSUME ChainInv, NEW h \in Handlers, Marked(h)
  PROVE  ChainInv'
<1> DEFINE j == [job[h] EXCEPT !.pc = "add"]
<1>1. Active(h) /\ Before(h) /\ job[h] \in Pending
  BY Requested DEF Marked, At, Active, Before
<1>2. /\ j \in Pending /\ job' = [job EXCEPT ![h] = j] /\ j.pc = "add"
      /\ j.id = job[h].id /\ j.old = job[h].old /\ j.new = job[h].new
      /\ DOMAIN j.write = {} /\ UNCHANGED <<memories, rows, used, crashes>>
  BY <1>1, EmptyTable DEF Marked, At, Pending
<1>3. rows \in Tables /\ \A m \in DOMAIN rows : Holds(m, rows[m])
  BY DEF ChainInv, Typed, Holds
<1> HIDE DEF j
<1> QED
  BY <1>1, <1>2, <1>3, Quiet

LEMMA ProjectFailsChain ==
  ASSUME ChainInv, NEW h \in Handlers, ProjectFails(h)
  PROVE  ChainInv'
<1> DEFINE j == [job[h] EXCEPT !.pc = IF @ = "projectOld" THEN "project" ELSE "answer"]
<1>1. Active(h) /\ job[h] \in Pending /\ job[h].id \in Stored /\ job[h].write = Empty
  BY Requested DEF ProjectFails, At, Active, ChainInv, RequestsAreSound
<1>2. /\ j \in Pending /\ job' = [job EXCEPT ![h] = j] /\ j.pc \in {"project", "answer"}
      /\ j.id = job[h].id /\ j.old = job[h].old /\ j.new = job[h].new
      /\ DOMAIN j.write = {} /\ UNCHANGED <<memories, rows, used, crashes>>
  BY <1>1, EmptyTable DEF ProjectFails, Pending
<1>3. rows \in Tables /\ \A m \in DOMAIN rows : Holds(m, rows[m])
  BY DEF ChainInv, Typed, Holds
<1> HIDE DEF j
<1> QED
  BY <1>1, <1>2, <1>3, Quiet

\* What Commit does.
LEMMA Commits ==
  ASSUME ChainInv, NEW h \in Handlers, Commit(h)
  PROVE  /\ Active(h) /\ UNCHANGED <<memories, used, crashes>>
         /\ \E m \in DOMAIN job[h].write :
               rows' = Put(rows, m, job[h].write[m]) /\ Holds(m, job[h].write[m])
         /\ rows' \in Tables /\ DOMAIN rows \subseteq DOMAIN rows'
         /\ \A m \in DOMAIN rows' : Holds(m, rows'[m])
<1>1. Active(h) /\ UNCHANGED <<memories, used, crashes>>
  BY DEF Commit, Active
<1>2. PICK m \in DOMAIN job[h].write : rows' = Put(rows, m, job[h].write[m])
  BY DEF Commit
<1>3. m \in Ids /\ job[h].write[m] \in Memory /\ rows \in Tables
      /\ Holds(m, job[h].write[m])
  BY <1>1, Requested, TableValues DEF ChainInv, Typed, Holds
<1>4. /\ rows' \in Tables /\ DOMAIN rows' = DOMAIN rows \cup {m}
      /\ rows'[m] = job[h].write[m]
      /\ \A n \in DOMAIN rows : n # m => rows'[n] = rows[n]
  BY <1>2, <1>3, PutTable
<1>5. \A n \in DOMAIN rows' : Holds(n, rows'[n])
  BY <1>3, <1>4 DEF Holds
<1> QED
  BY <1>1, <1>2, <1>3, <1>4, <1>5

LEMMA CommitChain ==
  ASSUME ChainInv, NEW h \in Handlers, Commit(h)
  PROVE  ChainInv'
<1> DEFINE j == [job[h] EXCEPT !.write = Empty]
<1>1. Active(h) /\ job[h] \in Pending
  BY Commits, Requested
<1>2. /\ j \in Pending /\ job' = [job EXCEPT ![h] = j] /\ j.pc = job[h].pc
      /\ j.id = job[h].id /\ j.old = job[h].old /\ j.new = job[h].new
      /\ DOMAIN j.write = {}
  BY <1>1, EmptyTable DEF Commit, Pending
<1>3. /\ job[h].pc = "projectOld" => job[h].old # None
      /\ job[h].pc \in {"projectOld", "project"} => job[h].id \in Stored
      /\ job[h].pc \in {"mark", "close", "add"} => Before(h)
  BY <1>1 DEF ChainInv, RequestsAreSound, Before
<1> HIDE DEF j
<1> QED
  BY <1>1, <1>2, <1>3, Commits, Quiet

\* A store of what is alike to a copy.
LEMMA StoredAlike ==
  ASSUME ChainInv, NEW h \in Handlers, Active(h), NEW id \in Ids, NEW memory \in Memory,
         NEW request \in Pending, Store(h, id, memory, request),
         \E y : Holds(id, y) /\ Alike(memory, y),
         request.id = job[h].id, request.old = job[h].old,
         Alike(request.new, job[h].new),
         id \in Stored \/ id = job[h].id,
         request.pc = "close" => job[h].pc = "close",
         request.pc = "projectOld" => job[h].old # None,
         request.pc \in {"projectOld", "project"} => job[h].id \in Stored \cup {id},
         request.pc \in {"mark", "close", "add"} => Before(h) /\ id \in Stored
  PROVE  ChainInv'
<1>1. /\ Typed' /\ UNCHANGED used /\ Stored' = Stored \cup {id} /\ memories'[id] = memory
      /\ \A m \in Stored : m # id => memories'[m] = memories[m]
  BY Stores
<1>2. PICK j \in Pending :
         /\ job' = [job EXCEPT ![h] = j] /\ j.pc = request.pc
         /\ j.id = request.id /\ j.new = request.new /\ j.old = request.old
  BY Stores
<1>3. \A m, x : Holds(m, x)' => \/ Holds(m, x)
                                \/ m = id /\ x = memory
                                \/ m = request.id /\ x = request.new
  BY Stores
<1>4. Holds(job[h].id, job[h].new) /\ \A m \in Stored : Holds(m, memories[m])
  BY Requested
<1>5. \A m, x : Holds(m, x)' => \E y : Holds(m, y) /\ Alike(x, y)
  <2> SUFFICES ASSUME NEW m, NEW x, Holds(m, x)'
               PROVE  \E y : Holds(m, y) /\ Alike(x, y)
    OBVIOUS
  <2>1. CASE Holds(m, x)
    BY <2>1, AlikeSelf
  <2>2. CASE m = id /\ x = memory
    BY <2>2
  <2>3. CASE m = request.id /\ x = request.new
    BY <2>3, <1>4
  <2> QED
    BY <1>3, <2>1, <2>2, <2>3
<1>6. Copies'
  BY <1>1, <1>5, Recopied DEF ChainInv, Copies
<1>7. j.new.supersedes = job[h].new.supersedes /\ j.new.version = job[h].new.version
  BY <1>2 DEF Alike
<1>8. \A m \in Stored : memories'[m].version = memories[m].version
  <2>1. PICK y : Holds(id, y) /\ Alike(memory, y)
    OBVIOUS
  <2>2. id \in Stored => memory.version = memories[id].version
    BY <2>1, <1>4 DEF ChainInv, CopiesAgree, Alike
  <2> QED
    BY <2>2, <1>1
<1>9. RequestsAreSound' /\ IdsAreFresh'
  <2>1. Stored \subseteq Stored' /\ Stored' \subseteq Stored \cup {job[h].id}
    BY <1>1
  <2>2. request.pc \in {"mark", "close", "add"} => Before(h) /\ Stored' = Stored
    BY <1>1
  <2> QED
    BY <1>1, <1>2, <1>7, <1>8, <2>1, <2>2, GoesOn
<1> QED
  BY <1>1, <1>6, <1>9 DEF ChainInv, Copies

\* What Mark stores: only status and group are others.
LEMMA Marks ==
  ASSUME ChainInv, NEW h \in Handlers, NEW m \in Stored, Mark(h, m)
  PROVE  \E memory \in Memory, request \in Pending :
            /\ Store(h, m, memory, request)
            /\ memory.status = "conflicting" /\ Alike(memory, memories[m])
            /\ request.new.status = "conflicting" /\ Alike(request.new, job[h].new)
            /\ request.pc = "mark" /\ request.id = job[h].id /\ request.old = job[h].old
            /\ request.todo = job[h].todo \ {m} /\ request.size = job[h].size
<1> DEFINE group == IF memories[m].group # {} THEN memories[m].group ELSE {m, job[h].id}
           memory == [memories[m] EXCEPT !.status = "conflicting", !.group = group]
           new == [job[h].new EXCEPT !.status = "conflicting", !.group = group]
           request == [job[h] EXCEPT !.todo = @ \ {m}, !.new = new]
<1>1. /\ job[h] \in Pending /\ job[h].pc = "mark" /\ job[h].new \in Memory
      /\ memories[m] \in Memory /\ m \in Ids /\ job[h].id \in Ids
  BY Requested DEF Mark, At, Active
<1>2. group \in Groups
  BY <1>1 DEF Memory, Groups
<1>3. Store(h, m, memory, request)
  <2>1. request = [job[h] EXCEPT !.todo = @ \ {m},
                                 !.new.status = "conflicting", !.new.group = group]
    BY <1>1 DEF Pending, Memory
  <2> HIDE DEF request
  <2> QED
    BY <2>1 DEF Mark
<1> HIDE DEF group
<1>4. /\ memory \in Memory /\ memory.status = "conflicting"
      /\ Alike(memory, memories[m])
  BY <1>1, <1>2 DEF Memory, Statuses, Alike, CurrentStatuses
<1>5. new \in Memory /\ new.status = "conflicting" /\ Alike(new, job[h].new)
  BY <1>1, <1>2 DEF Memory, Statuses, Alike, CurrentStatuses
<1> HIDE DEF memory, new
<1>6. /\ request \in Pending /\ request.new = new /\ request.pc = "mark"
      /\ request.id = job[h].id /\ request.old = job[h].old
      /\ request.todo = job[h].todo \ {m} /\ request.size = job[h].size
  BY <1>1, <1>5 DEF Pending
<1> HIDE DEF request
<1> QED
  BY <1>3, <1>4, <1>5, <1>6

LEMMA MarkChain ==
  ASSUME ChainInv, NEW h \in Handlers, NEW m \in Stored, Mark(h, m)
  PROVE  ChainInv'
<1>1. PICK memory \in Memory, request \in Pending :
         /\ Store(h, m, memory, request) /\ Alike(memory, memories[m])
         /\ Alike(request.new, job[h].new)
         /\ request.pc = "mark" /\ request.id = job[h].id /\ request.old = job[h].old
  BY Marks
<1>2. Active(h) /\ Before(h) /\ m \in Ids /\ Holds(m, memories[m])
  BY Requested DEF Mark, At, Active, Before
<1> QED
  BY <1>1, <1>2, StoredAlike

\* What Add stores.
LEMMA Adds ==
  ASSUME ChainInv, NEW h \in Handlers, Add(h)
  PROVE  /\ Active(h) /\ Before(h) /\ job[h].write = Empty
         /\ \E request \in Pending :
               /\ Store(h, job[h].id, job[h].new, request)
               /\ request.pc = IF job[h].old = None THEN "project" ELSE "projectOld"
               /\ request.id = job[h].id /\ request.new = job[h].new
               /\ request.old = job[h].old
<1> DEFINE request == [job[h] EXCEPT
                         !.pc = IF job[h].old = None THEN "project" ELSE "projectOld"]
<1>1. Active(h) /\ Before(h) /\ job[h] \in Pending /\ job[h].write = Empty
  BY Requested DEF Add, At, Active, Before
<1>2. /\ request \in Pending
      /\ request.pc = IF job[h].old = None THEN "project" ELSE "projectOld"
      /\ request.id = job[h].id /\ request.new = job[h].new /\ request.old = job[h].old
  BY <1>1 DEF Pending
<1>3. Store(h, job[h].id, job[h].new, request)
  BY DEF Add
<1> HIDE DEF request
<1> QED
  BY <1>1, <1>2, <1>3

LEMMA AddChain ==
  ASSUME ChainInv, NEW h \in Handlers, Add(h)
  PROVE  ChainInv'
<1>1. PICK request \in Pending :
         /\ Store(h, job[h].id, job[h].new, request)
         /\ request.pc = IF job[h].old = None THEN "project" ELSE "projectOld"
         /\ request.id = job[h].id /\ request.new = job[h].new /\ request.old = job[h].old
  BY Adds
<1>2. /\ Active(h) /\ job[h].id \in Ids /\ job[h].new \in Memory
      /\ Holds(job[h].id, job[h].new)
  BY Adds, Requested
<1> QED
  BY <1>1, <1>2, AlikeSelf, StoredAlike

\* What Project stores: what is there.
LEMMA Projects ==
  ASSUME ChainInv, NEW h \in Handlers, Project(h)
  PROVE  /\ Active(h) /\ job[h].write = Empty
         /\ \E m \in Stored, request \in Pending :
               /\ Store(h, m, memories[m], request)
               /\ request.pc \in {"project", "answer"}
               /\ request.id = job[h].id /\ request.new = job[h].new
               /\ request.old = job[h].old
<1>1. Active(h) /\ job[h] \in Pending /\ job[h].write = Empty /\ job[h].id \in Stored
  BY Requested DEF Project, At, Active, ChainInv, RequestsAreSound
<1>2. CASE At(h, "projectOld")
  <2> DEFINE request == [job[h] EXCEPT !.pc = "project"]
  <2>1. /\ request \in Pending /\ request.pc = "project"
        /\ request.id = job[h].id /\ request.new = job[h].new
        /\ request.old = job[h].old
    BY <1>1 DEF Pending
  <2>2. Store(h, job[h].old, memories[job[h].old], request)
    BY <1>2 DEF Project, At
  <2>3. job[h].old \in Stored
    BY <1>1, <1>2 DEF ChainInv, RequestsAreSound, At
  <2> HIDE DEF request
  <2> QED
    BY <1>1, <2>1, <2>2, <2>3
<1>3. CASE At(h, "project")
  <2> DEFINE request == [job[h] EXCEPT !.pc = "answer"]
  <2>1. /\ request \in Pending /\ request.pc = "answer"
        /\ request.id = job[h].id /\ request.new = job[h].new
        /\ request.old = job[h].old
    BY <1>1 DEF Pending
  <2>2. Store(h, job[h].id, memories[job[h].id], request)
    BY <1>3 DEF Project, At
  <2> HIDE DEF request
  <2> QED
    BY <1>1, <2>1, <2>2
<1> QED
  BY <1>2, <1>3 DEF Project

LEMMA ProjectChain ==
  ASSUME ChainInv, NEW h \in Handlers, Project(h)
  PROVE  ChainInv'
<1>1. PICK m \in Stored, request \in Pending :
         /\ Store(h, m, memories[m], request) /\ request.pc \in {"project", "answer"}
         /\ request.id = job[h].id /\ request.new = job[h].new /\ request.old = job[h].old
  BY Projects
<1>2. /\ Active(h) /\ m \in Ids /\ memories[m] \in Memory /\ Holds(m, memories[m])
      /\ job[h].id \in Stored
  BY Projects, Requested DEF Project, At, ChainInv, RequestsAreSound
<1> QED
  BY <1>1, <1>2, AlikeSelf, StoredAlike

\* What Close stores.
LEMMA Closes ==
  ASSUME ChainInv, NEW h \in Handlers, Close(h)
  PROVE  /\ Active(h) /\ Before(h) /\ job[h].write = Empty
         /\ job[h].old \in Stored /\ job[h].old # None
         /\ job[h].new.supersedes = job[h].old
         /\ job[h].new.version = memories[job[h].old].version + 1
         /\ \E memory \in Memory, request \in Pending :
               /\ Store(h, job[h].old, memory, request)
               /\ memory.status = "superseded" /\ memory.to = job[h].new.fact.from
               /\ memory.supersededBy = job[h].id
               /\ memory.fact = memories[job[h].old].fact
               /\ memory.version = memories[job[h].old].version
               /\ memory.supersedes = memories[job[h].old].supersedes
               /\ request.pc = "add" /\ request.id = job[h].id
               /\ request.new = job[h].new /\ request.old = job[h].old
<1> DEFINE old == job[h].old
           memory == [memories[old] EXCEPT !.status = "superseded",
                                           !.to = job[h].new.fact.from,
                                           !.supersededBy = job[h].id]
           request == [job[h] EXCEPT !.pc = "add"]
<1>1. /\ Active(h) /\ Before(h) /\ job[h].write = Empty /\ job[h] \in Pending
      /\ old \in Stored /\ old # None /\ memories[old] \in Memory
      /\ job[h].new.supersedes = old /\ job[h].new.version = memories[old].version + 1
      /\ job[h].id \in Ids /\ job[h].new \in Memory
  BY Requested DEF Close, At, Active, Before, ChainInv, RequestsAreSound
<1>2. job[h].new.fact.from \in Nat
  BY <1>1, LedgerAssumption DEF Memory, Fact, Times
<1>3. Store(h, old, memory, request)
  BY DEF Close
<1>4. /\ memory \in Memory
      /\ memory.status = "superseded" /\ memory.to = job[h].new.fact.from
      /\ memory.supersededBy = job[h].id
      /\ memory.fact = memories[old].fact /\ memory.version = memories[old].version
      /\ memory.supersedes = memories[old].supersedes
  BY <1>1, <1>2 DEF Memory, Statuses
<1>5. /\ request \in Pending /\ request.pc = "add" /\ request.id = job[h].id
      /\ request.new = job[h].new /\ request.old = job[h].old
  BY <1>1 DEF Pending
<1> HIDE DEF memory, request
<1> QED
  BY <1>1, <1>3, <1>4, <1>5

LEMMA CloseChain ==
  ASSUME ChainInv, NEW h \in Handlers, Close(h)
  PROVE  ChainInv'
<1> DEFINE old == job[h].old
           new == job[h].new
<1>1. PICK memory \in Memory, request \in Pending :
         /\ Store(h, old, memory, request)
         /\ memory.status = "superseded" /\ memory.to = new.fact.from
         /\ memory.supersededBy = job[h].id /\ memory.fact = memories[old].fact
         /\ memory.version = memories[old].version
         /\ memory.supersedes = memories[old].supersedes
         /\ request.pc = "add" /\ request.id = job[h].id
         /\ request.new = new /\ request.old = old
  BY Closes
<1>2. /\ Active(h) /\ Before(h) /\ old \in Stored /\ old \in Ids
      /\ new.supersedes = old /\ new.version = memories[old].version + 1
      /\ Holds(old, memories[old]) /\ Holds(job[h].id, new)
  BY Closes, Requested
<1>3. /\ Typed' /\ UNCHANGED used /\ Stored' = Stored \cup {old} /\ memories'[old] = memory
      /\ \A m \in Stored : m # old => memories'[m] = memories[m]
  BY <1>1, <1>2, Stores
<1>4. PICK j \in Pending :
         /\ job' = [job EXCEPT ![h] = j] /\ j.pc = "add"
         /\ j.id = job[h].id /\ j.new = new /\ j.old = old
  BY <1>1, <1>2, Stores
<1>5. \A m, x : Holds(m, x)' => Holds(m, x) \/ (m = old /\ x = memory)
  <2>1. \A m, x : Holds(m, x)' => \/ Holds(m, x)
                                  \/ m = old /\ x = memory
                                  \/ m = request.id /\ x = request.new
    BY <1>1, <1>2, Stores
  <2> HIDE DEF old, new
  <2> QED
    BY <1>1, <1>2, <2>1
<1>6. \A y : Holds(job[h].id, y) =>
          y.supersedes = old /\ y.version = memory.version + 1 /\ y.fact.from = memory.to
  BY <1>1, <1>2 DEF ChainInv, CopiesAgree
<1>7. job[h].id # old
  <2>1. memories[old].version \in Nat
    BY <1>2, Requested DEF Memory
  <2>2. job[h].id = old => memories[old].version = memories[old].version + 1
    BY <1>1, <1>2, <1>6
  <2> QED
    BY <2>1, <2>2
<1> HIDE DEF old, new
<1>8. CopiesAgree'
  BY <1>1, <1>2, <1>5 DEF ChainInv, CopiesAgree
<1>9. CopiesChain'
  <2> SUFFICES ASSUME NEW m, NEW n, NEW x, NEW y, Holds(m, x)', Holds(n, y)',
                      x.supersededBy = n
               PROVE  y.supersedes = m /\ y.version = x.version + 1 /\ y.fact.from = x.to
    BY DEF CopiesChain
  <2>1. CASE Holds(m, x) /\ Holds(n, y)
    BY <2>1 DEF ChainInv, CopiesChain
  <2>2. CASE Holds(m, x) /\ n = old /\ y = memory
    BY <2>2, <1>1, <1>2 DEF ChainInv, CopiesChain
  <2>3. CASE m = old /\ x = memory
    <3>1. n = job[h].id /\ Holds(n, y)
      BY <2>3, <1>1, <1>5, <1>7
    <3> QED
      BY <3>1, <2>3, <1>6
  <2> QED
    BY <1>5, <2>1, <2>2, <2>3
<1>10. CopiesAreKnown'
  <2>1. job[h].id # None /\ job[h].id \in used /\ old \in used
    BY <1>2, Requested, LedgerAssumption DEF ChainInv, CopiesAreKnown
  <2> QED
    BY <2>1, <1>1, <1>3, <1>5 DEF ChainInv, CopiesAreKnown, CurrentStatuses
<1>11. RequestsAreSound' /\ IdsAreFresh'
  <2>1. Stored' = Stored /\ \A m \in Stored : memories'[m].version = memories[m].version
    BY <1>1, <1>2, <1>3
  <2> QED
    BY <1>2, <1>4, <2>1, GoesOn DEF old, new
<1> QED
  BY <1>3, <1>8, <1>9, <1>10, <1>11 DEF ChainInv

LEMMA InitChain == Init => ChainInv
<1> SUFFICES ASSUME Init PROVE ChainInv
  OBVIOUS
<1>1. /\ memories = Empty /\ rows = Empty /\ used = {}
      /\ \A h \in Handlers : job[h] = Idle /\ ~Active(h) /\ ~Before(h)
  BY DEF Init, Idle, Active, Before
<1>2. Typed
  BY <1>1, EmptyTable DEF Init, Typed
<1>3. \A m, x : ~Holds(m, x)
  BY <1>1, EmptyTable DEF Holds
<1> QED
  BY <1>1, <1>2, <1>3
     DEF ChainInv, CopiesAgree, CopiesChain, CopiesAreKnown, RequestsAreSound, IdsAreFresh

LEMMA StutterChain ==
  ASSUME ChainInv, UNCHANGED vars
  PROVE  ChainInv'
<1>1. UNCHANGED <<memories, rows, job, used, crashes>>
  BY DEF vars
<1>2. Typed' /\ \A m, x : Holds(m, x)' => Holds(m, x)
  BY <1>1 DEF ChainInv, Typed, Holds, Active
<1>3. RequestsAreSound'
  BY <1>1 DEF ChainInv, RequestsAreSound, Active, Stored
<1>4. IdsAreFresh'
  BY <1>1 DEF ChainInv, IdsAreFresh, Active, Before, Stored
<1> QED
  BY <1>1, <1>2, <1>3, <1>4, Ended

LEMMA NextChain == ChainInv /\ [Next]_vars => ChainInv'
<1> SUFFICES ASSUME ChainInv, [Next]_vars PROVE ChainInv'
  OBVIOUS
<1>1. CASE Restart
  BY <1>1, RestartChain
<1>2. ASSUME NEW h \in Handlers, NEW id \in Ids, NEW fact \in Fact,
             NEW status \in Submitted, Promote(h, id, fact, status)
      PROVE  ChainInv'
  BY <1>2, PromoteChain
<1>3. ASSUME NEW h \in Handlers, NEW id \in Ids, NEW fact \in Fact,
             NEW status \in Submitted, NEW m \in Stored,
             Supersede(h, m, id, fact, status)
      PROVE  ChainInv'
  BY <1>3, SupersedeChain
<1>4. ASSUME NEW h \in Handlers, NEW m \in Stored, Mark(h, m) PROVE ChainInv'
  BY <1>4, MarkChain
<1>5. ASSUME NEW h \in Handlers, MarkFails(h) \/ Answer(h) PROVE ChainInv'
  BY <1>5, FinishChain DEF MarkFails, Answer
<1>6. ASSUME NEW h \in Handlers, Marked(h) PROVE ChainInv'
  BY <1>6, MarkedChain
<1>7. ASSUME NEW h \in Handlers, Close(h) PROVE ChainInv'
  BY <1>7, CloseChain
<1>8. ASSUME NEW h \in Handlers, Add(h) PROVE ChainInv'
  BY <1>8, AddChain
<1>9. ASSUME NEW h \in Handlers, Project(h) PROVE ChainInv'
  BY <1>9, ProjectChain
<1>10. ASSUME NEW h \in Handlers, ProjectFails(h) PROVE ChainInv'
  BY <1>10, ProjectFailsChain
<1>11. ASSUME NEW h \in Handlers, Commit(h) PROVE ChainInv'
  BY <1>11, CommitChain
<1>12. CASE UNCHANGED vars
  BY <1>12, StutterChain
<1> QED
  BY <1>1, <1>2, <1>3, <1>4, <1>5, <1>6, <1>7, <1>8, <1>9, <1>10, <1>11, <1>12 DEF Next

LEMMA ChainAlways == Spec => []ChainInv
<1> QED
  BY InitChain, NextChain, PTL DEF Spec

\* Every stored memory, every row and every request in progress keeps its type.
THEOREM LedgerTypes == Spec => []TypeOK
<1>1. ChainInv => TypeOK
  <2> SUFFICES ASSUME ChainInv PROVE TypeOK
    OBVIOUS
  <2>1. IsTable(memories) /\ IsTable(rows)
    BY TableValues DEF ChainInv, Typed, IsTable
  <2>2. \A h \in Handlers : Active(h) =>
            job[h] \in Pending /\ IsTable(job[h].write)
    BY Requested, TableValues DEF IsTable
  <2> QED
    BY <2>1, <2>2 DEF TypeOK, Pending, Active
<1> QED
  BY <1>1, ChainAlways, PTL

\* However requests interleave and crash, whichever copy of a memory is written
\* last: a stored successor names the memory it replaces, carries the next
\* version and begins where that one ends, in memory and in the rows.
THEOREM ChainsHold == Spec => []ChainsAreContiguous
<1>1. ChainInv => ChainsAreContiguous
  <2> SUFFICES ASSUME ChainInv PROVE ChainsAreContiguous
    OBVIOUS
  <2>1. /\ \A m \in DOMAIN memories : Holds(m, memories[m])
        /\ \A m \in DOMAIN rows : Holds(m, rows[m])
    BY DEF Holds
  <2>2. \A m, n, x, y : Holds(m, x) /\ Holds(n, y) /\ x.supersededBy = n =>
           y.supersedes = m /\ y.version = x.version + 1 /\ y.fact.from = x.to
    BY DEF ChainInv, CopiesChain
  <2>3. Contiguous(memories)
    <3> SUFFICES ASSUME NEW m \in DOMAIN memories, memories[m].supersededBy \in DOMAIN memories
                 PROVE  LET next == memories[m].supersededBy
                        IN /\ memories[next].supersedes = m
                           /\ memories[next].version = memories[m].version + 1
                           /\ memories[next].fact.from = memories[m].to
      BY DEF Contiguous
    <3>1. PICK n : n = memories[m].supersededBy
      OBVIOUS
    <3>2. Holds(m, memories[m]) /\ Holds(n, memories[n])
      BY <2>1, <3>1
    <3> QED
      BY <2>2, <3>1, <3>2
  <2>4. Contiguous(rows)
    <3> SUFFICES ASSUME NEW m \in DOMAIN rows, rows[m].supersededBy \in DOMAIN rows
                 PROVE  LET next == rows[m].supersededBy
                        IN /\ rows[next].supersedes = m
                           /\ rows[next].version = rows[m].version + 1
                           /\ rows[next].fact.from = rows[m].to
      BY DEF Contiguous
    <3>1. PICK n : n = rows[m].supersededBy
      OBVIOUS
    <3>2. Holds(m, rows[m]) /\ Holds(n, rows[n])
      BY <2>1, <3>1
    <3> QED
      BY <2>2, <3>1, <3>2
  <2> QED
    BY <2>3, <2>4 DEF ChainsAreContiguous
<1> QED
  BY <1>1, ChainAlways, PTL

-----------------------------------------------------------------------------
(* History.                                                                *)

\* What HistoryStands says of one step.
StandsNow ==
    /\ crashes' = crashes =>
          \A m \in Stored, t \in Times :
             m \in Stored' /\ Kept(memories[m], memories'[m], t)
    /\ Submitted \subseteq CurrentStatuses =>
          \A m \in DOMAIN rows, t \in Times :
             t < rows[m].fact.to =>
                m \in DOMAIN rows' /\ Kept(rows[m], rows'[m], t)

LEMMA KeptSelf == \A x, t : Kept(x, x, t)
  BY DEF Kept

LEMMA KeptAlike ==
  ASSUME NEW x, NEW y, Alike(y, x)
  PROVE  \A t : Kept(x, y, t)
  BY DEF Kept, Alike, InForce

LEMMA StandsWhenUntouched ==
  ASSUME UNCHANGED rows, \A m \in Stored : m \in Stored' /\ memories'[m] = memories[m]
  PROVE  StandsNow
  BY KeptSelf DEF StandsNow

\* A row that is committed is of the same fact as the one it replaces; if it
\* names no successor, it ends when the fact does.
LEMMA CommitStands ==
  ASSUME ChainInv, NEW h \in Handlers, Commit(h)
  PROVE  StandsNow
<1>1. /\ UNCHANGED memories /\ DOMAIN rows \subseteq DOMAIN rows'
      /\ \A m \in DOMAIN rows' : Holds(m, rows'[m])
  BY Commits
<1>2. ASSUME Submitted \subseteq CurrentStatuses, NEW m \in DOMAIN rows, NEW t \in Times,
             t < rows[m].fact.to, InForce(rows[m], t), ~(t < rows'[m].to)
      PROVE  rows'[m].to <= t /\ rows'[m].supersededBy # None
  <2>1. rows'[m] \in Memory
    BY <1>1, Commits, TableValues
  <2>2. rows'[m].to \in Nat /\ t \in Nat
    BY <2>1 DEF Memory, Times
  <2>3. Holds(m, rows[m]) /\ Holds(m, rows'[m])
    BY <1>1 DEF Holds
  <2>4. rows'[m].fact = rows[m].fact
    BY <2>3 DEF ChainInv, CopiesAgree
  <2>5. rows'[m].supersededBy = None => rows'[m].to = rows[m].fact.to
    BY <2>3, <2>4 DEF ChainInv, CopiesAreKnown
  <2> QED
    BY <1>2, <2>2, <2>5
<1>3. ASSUME Submitted \subseteq CurrentStatuses, NEW m \in DOMAIN rows, NEW t \in Times,
             InForce(rows[m], t), t < rows'[m].to
      PROVE  InForce(rows'[m], t)
  <2>1. Holds(m, rows[m]) /\ Holds(m, rows'[m])
    BY <1>1 DEF Holds
  <2>2. rows'[m].fact = rows[m].fact /\ rows'[m].status \in CurrentStatuses
    BY <1>3, <2>1 DEF ChainInv, CopiesAgree, CopiesAreKnown
  <2> QED
    BY <1>3, <2>2 DEF InForce
<1>4. \A m \in Stored, t \in Times :
          m \in Stored' /\ Kept(memories[m], memories'[m], t)
  BY <1>1, KeptSelf DEF Stored
<1> QED
  BY <1>1, <1>2, <1>3, <1>4 DEF StandsNow, Kept

\* A store touches one object.
LEMMA StoreStands ==
  ASSUME ChainInv, NEW h \in Handlers, Active(h), NEW id \in Ids, NEW memory \in Memory,
         NEW request \in Pending, Store(h, id, memory, request),
         id \in Stored => \A t \in Times : Kept(memories[id], memory, t)
  PROVE  StandsNow
<1>1. /\ Stored' = Stored \cup {id} /\ memories'[id] = memory /\ UNCHANGED rows
      /\ \A m \in Stored : m # id => memories'[m] = memories[m]
  BY Stores
<1> QED
  BY <1>1, KeptSelf DEF StandsNow

LEMMA NextStands == ChainInv /\ [Next]_vars => [StandsNow]_vars
<1> SUFFICES ASSUME ChainInv, Next PROVE StandsNow
  OBVIOUS
<1>1. CASE Restart
  <2>1. crashes' # crashes
    BY <1>1 DEF Restart, ChainInv, Typed
  <2> QED
    BY <1>1, <2>1, KeptSelf DEF Restart, StandsNow
<1>2. ASSUME UNCHANGED <<memories, rows>> PROVE StandsNow
  BY <1>2, StandsWhenUntouched DEF Stored
<1>3. ASSUME NEW h \in Handlers, NEW m \in Stored, Mark(h, m) PROVE StandsNow
  <2>1. PICK memory \in Memory, request \in Pending :
           Store(h, m, memory, request) /\ Alike(memory, memories[m])
    BY <1>3, Marks
  <2>2. Active(h) /\ m \in Ids
    BY <1>3, Requested DEF Mark, At, Active
  <2> QED
    BY <2>1, <2>2, KeptAlike, StoreStands
<1>4. ASSUME NEW h \in Handlers, Close(h) PROVE StandsNow
  <2>1. PICK memory \in Memory, request \in Pending :
           /\ Store(h, job[h].old, memory, request) /\ memory.status = "superseded"
           /\ memory.supersededBy = job[h].id /\ memory.fact = memories[job[h].old].fact
    BY <1>4, Closes
  <2>2. Active(h) /\ job[h].old \in Ids /\ job[h].id # None
    BY <1>4, Closes, Requested, LedgerAssumption
  <2>3. \A t \in Times : t < memory.to \/ memory.to <= t
    BY DEF Memory, Times
  <2>4. memory.status \in CurrentStatuses /\ memory.supersededBy # None
    BY <2>1, <2>2 DEF CurrentStatuses
  <2>5. \A t \in Times : Kept(memories[job[h].old], memory, t)
    BY <2>1, <2>3, <2>4 DEF Kept, InForce
  <2> QED
    BY <2>1, <2>2, <2>5, StoreStands
<1>5. ASSUME NEW h \in Handlers, Add(h) PROVE StandsNow
  <2>1. PICK request \in Pending : Store(h, job[h].id, job[h].new, request)
    BY <1>5, Adds
  <2>2. /\ Active(h) /\ job[h].id \in Ids /\ job[h].new \in Memory
        /\ job[h].id \notin Stored
    BY <1>5, Adds, Requested DEF ChainInv, IdsAreFresh
  <2> QED
    BY <2>1, <2>2, StoreStands
<1>6. ASSUME NEW h \in Handlers, Project(h) PROVE StandsNow
  <2>1. PICK m \in Stored, request \in Pending : Store(h, m, memories[m], request)
    BY <1>6, Projects
  <2>2. Active(h) /\ m \in Ids /\ memories[m] \in Memory
    BY <1>6, Projects, Requested
  <2> QED
    BY <2>1, <2>2, KeptSelf, StoreStands
<1>7. ASSUME NEW h \in Handlers, NEW id \in Ids, NEW fact \in Fact, NEW status \in Submitted,
             \/ Promote(h, id, fact, status)
             \/ \E m \in Stored : Supersede(h, m, id, fact, status)
      PROVE  StandsNow
  BY <1>7, <1>2 DEF Promote, Supersede
<1>8. ASSUME NEW h \in Handlers, MarkFails(h) \/ Marked(h) \/ ProjectFails(h) \/ Answer(h)
      PROVE StandsNow
  BY <1>8, <1>2 DEF MarkFails, Marked, ProjectFails, Answer
<1>9. ASSUME NEW h \in Handlers, Commit(h) PROVE StandsNow
  BY <1>9, CommitStands
<1> QED
  BY <1>1, <1>3, <1>4, <1>5, <1>6, <1>7, <1>8, <1>9 DEF Next

\* However requests interleave and crash, and however old a row is that one of
\* them commits last: nothing but a supersession takes a fact out of the answers
\* about a time at which it was in force, and a supersession only from its own
\* start on.
THEOREM HistoryIsKept == Spec => HistoryStands
<1>1. ChainInv /\ [Next]_vars => [StandsNow]_vars
  BY NextStands
<1>2. ChainInv /\ [Next]_vars =>
        [/\ crashes' = crashes =>
               \A m \in Stored, t \in Times :
                  m \in Stored' /\ Kept(memories[m], memories'[m], t)
         /\ Submitted \subseteq CurrentStatuses =>
               \A m \in DOMAIN rows, t \in Times :
                  t < rows[m].fact.to =>
                     m \in DOMAIN rows' /\ Kept(rows[m], rows'[m], t)]_vars
  BY <1>1 DEF StandsNow
<1> QED
  BY <1>2, ChainAlways, PTL DEF Spec, HistoryStands

-----------------------------------------------------------------------------
(* One request at a time.                                                  *)

OneRequest == \A g, h \in Handlers : g = h

\* Two facts that ContradictionsAreMarked relates.
Rivals(left, right) ==
    /\ left.supersedes = None /\ right.supersedes = None
    /\ left.supersededBy = None /\ right.supersededBy = None
    /\ left.status \in CurrentStatuses /\ right.status \in CurrentStatuses
    /\ left.fact.subject = right.fact.subject
    /\ Overlap(left, right)

\* ContradictionsAreMarked and PromotedOnce of a table.
AllMarked(table) ==
    \A m, n \in DOMAIN table :
       m # n /\ Rivals(table[m], table[n]) =>
          table[m].status = "conflicting" /\ table[n].status = "conflicting"

Once(table) ==
    \A m, n \in DOMAIN table :
       /\ table[m].supersedes = None /\ table[n].supersedes = None
       /\ table[m].fact = table[n].fact
       => m = n

\* A fact under promotion is not stored yet.
FactsAreNew ==
    \A h \in Handlers, m \in Stored :
       Before(h) /\ job[h].new.supersedes = None => memories[m].fact # job[h].new.fact

\* Of the fact under promotion and a stored rival both are marked, unless the
\* rival is still to be visited.
RivalsAreMarked ==
    \A h \in Handlers, m \in Stored :
       /\ Before(h)
       /\ Rivals(memories[m], job[h].new)
       /\ job[h].pc = "mark" => m \notin job[h].todo
       => memories[m].status = "conflicting" /\ job[h].new.status = "conflicting"

\* Only a fact that claims to be in force visits the others.
VisitorsClaim ==
    \A h \in Handlers :
       job[h].pc = "mark" /\ job[h].todo # {} => job[h].new.status \in CurrentStatuses

RequestsAreCareful == FactsAreNew /\ RivalsAreMarked /\ VisitorsClaim

\* The rows are one write behind, the one that the request is about to commit.
RowsFollow ==
    \/ rows = memories /\ \A h \in Handlers : Active(h) => job[h].write = Empty
    \/ \E h \in Handlers : \E m \in DOMAIN job[h].write :
          /\ Active(h) /\ DOMAIN job[h].write = {m}
          /\ memories = Put(rows, m, job[h].write[m])

SerialInv ==
    /\ ChainInv
    /\ RequestsAreCareful
    /\ RowsFollow
    /\ Once(memories) /\ Once(rows)
    /\ AllMarked(memories) /\ AllMarked(rows)

\* Between two requests' writes, what is in memory is in the rows.
LEMMA RowsAreEqual ==
  ASSUME OneRequest, SerialInv, NEW h \in Handlers, job[h].write = Empty \/ ~Active(h)
  PROVE  rows = memories
<1>1. ASSUME NEW g \in Handlers, NEW m \in DOMAIN job[g].write, Active(g) PROVE FALSE
  BY <1>1, EmptyTable DEF OneRequest
<1> QED
  BY <1>1 DEF SerialInv, RowsFollow

\* Nothing is stored: only what the request is about to do has to be looked at.
LEMMA NothingStored ==
  ASSUME SerialInv, ChainInv', UNCHANGED <<memories, rows>>, RequestsAreCareful',
         rows = memories, \A g \in Handlers : Active(g)' => job'[g].write = Empty
  PROVE  SerialInv'
  BY DEF SerialInv, RowsFollow

\* A request ends, or restarts end them all: memory is what the rows were.
LEMMA EndedSerial ==
  ASSUME SerialInv, ChainInv', memories' = rows, UNCHANGED rows,
         \A h \in Handlers : job'[h] = Idle
  PROVE  SerialInv'
<1>1. \A h \in Handlers : job'[h].pc = "idle" /\ ~Active(h)' /\ ~Before(h)'
  BY DEF Idle, Active, Before
<1>2. RequestsAreCareful'
  BY <1>1 DEF RequestsAreCareful, FactsAreNew, RivalsAreMarked, VisitorsClaim
<1>3. RowsFollow'
  BY <1>1 DEF RowsFollow
<1>4. Once(memories)' /\ Once(rows)'
  BY DEF SerialInv, Once
<1>5. AllMarked(memories)' /\ AllMarked(rows)'
  BY DEF SerialInv, AllMarked
<1> QED
  BY <1>2, <1>3, <1>4, <1>5 DEF SerialInv

LEMMA FinishSerial ==
  ASSUME OneRequest, SerialInv, ChainInv', NEW h \in Handlers, job[h].write = Empty,
         Finish(h), UNCHANGED <<memories, rows>>
  PROVE  SerialInv'
<1>1. \A g \in Handlers : job'[g] = Idle
  BY DEF OneRequest, Finish, SerialInv, ChainInv, Typed
<1> QED
  BY <1>1, RowsAreEqual, EndedSerial

\* A new request, or one that goes on without storing.
LEMMA QuietSerial ==
  ASSUME OneRequest, SerialInv, ChainInv', NEW h \in Handlers,
         job[h].write = Empty \/ ~Active(h), UNCHANGED <<memories, rows>>,
         job'[h].write = Empty, RequestsAreCareful'
  PROVE  SerialInv'
<1>1. \A g \in Handlers : job'[g].write = Empty
  BY DEF OneRequest
<1> QED
  BY <1>1, RowsAreEqual, NothingStored

LEMMA PromoteSerial ==
  ASSUME OneRequest, SerialInv, ChainInv', NEW h \in Handlers, NEW id \in Ids,
         NEW fact \in Fact, NEW status \in Submitted, Promote(h, id, fact, status)
  PROVE  SerialInv'
<1> DEFINE new == Built(fact, status, 1, None)
<1>1. new.fact = fact /\ new.status = status
  BY DEF Built
<1>2. /\ UNCHANGED <<memories, rows>> /\ Stored' = Stored /\ ~Active(h)
      /\ \A m \in Stored : memories[m].fact # fact
  BY DEF Promote, Stored, Active
<1>3. /\ job'[h].pc = "mark" /\ job'[h].new = new /\ job'[h].write = Empty
      /\ job'[h].todo = IF status \in CurrentStatuses THEN Stored ELSE {}
  BY DEF Promote, SerialInv, ChainInv, Typed
<1> HIDE DEF new
<1>4. FactsAreNew' /\ VisitorsClaim'
  BY <1>1, <1>2, <1>3 DEF OneRequest, FactsAreNew, VisitorsClaim
<1>5. RivalsAreMarked'
  BY <1>1, <1>2, <1>3 DEF OneRequest, RivalsAreMarked, Rivals
<1> QED
  BY <1>2, <1>3, <1>4, <1>5, QuietSerial DEF RequestsAreCareful

\* A request whose new memory replaces another one is nobody's rival.
LEMMA ReplacingIsCareful ==
  ASSUME OneRequest, NEW h \in Handlers, job'[h].pc # "mark",
         job'[h].new.supersedes # None \/ ~Before(h)'
  PROVE  RequestsAreCareful'
  BY DEF OneRequest, RequestsAreCareful, FactsAreNew, VisitorsClaim, RivalsAreMarked, Rivals

LEMMA SupersedeSerial ==
  ASSUME OneRequest, SerialInv, ChainInv', NEW h \in Handlers, NEW id \in Ids,
         NEW fact \in Fact, NEW status \in Submitted, NEW m \in Stored,
         Supersede(h, m, id, fact, status)
  PROVE  SerialInv'
<1>1. m # None
  BY LedgerAssumption, TableValues DEF SerialInv, ChainInv, Typed, Stored
<1>2. UNCHANGED <<memories, rows>> /\ ~Active(h)
  BY DEF Supersede, Active
<1>3. /\ job'[h].pc = "close" /\ job'[h].write = Empty
      /\ job'[h].new = Built(fact, status, memories[m].version + 1, m)
  BY DEF Supersede, SerialInv, ChainInv, Typed
<1>4. job'[h].new.supersedes # None
  BY <1>1, <1>3 DEF Built
<1> QED
  BY <1>2, <1>3, <1>4, ReplacingIsCareful, QuietSerial

LEMMA MarkedSerial ==
  ASSUME OneRequest, SerialInv, ChainInv', NEW h \in Handlers, Marked(h)
  PROVE  SerialInv'
<1>1. /\ UNCHANGED <<memories, rows>> /\ Stored' = Stored
      /\ job[h].pc = "mark" /\ Before(h) /\ job[h].write = Empty
      /\ \A m \in job[h].todo : ~Conflicts(memories[m], job[h].new)
  BY DEF Marked, At, Before, Stored
<1>2. job'[h].pc = "add" /\ job'[h].new = job[h].new /\ job'[h].write = Empty
  <2>1. job[h] \in Pending
    BY <1>1, BeforeIsActive, PendingWhenActive DEF SerialInv, ChainInv
  <2> QED
    BY <2>1, <1>1 DEF Marked, SerialInv, ChainInv, Typed, Pending
<1>3. FactsAreNew' /\ VisitorsClaim'
  BY <1>1, <1>2 DEF OneRequest, SerialInv, RequestsAreCareful, FactsAreNew, VisitorsClaim
<1>4. RivalsAreMarked'
  <2> SUFFICES ASSUME NEW m \in Stored, Rivals(memories[m], job[h].new)
               PROVE  /\ memories[m].status = "conflicting"
                      /\ job[h].new.status = "conflicting"
    BY <1>1, <1>2 DEF OneRequest, RivalsAreMarked
  <2>1. memories[m].fact # job[h].new.fact
    BY <1>1 DEF SerialInv, RequestsAreCareful, FactsAreNew, Rivals
  <2>2. Conflicts(memories[m], job[h].new)
    BY <2>1 DEF Rivals, Conflicts
  <2> QED
    BY <2>2, <1>1 DEF SerialInv, RequestsAreCareful, RivalsAreMarked
<1> QED
  BY <1>1, <1>2, <1>3, <1>4, QuietSerial DEF RequestsAreCareful

LEMMA ProjectFailsSerial ==
  ASSUME OneRequest, SerialInv, ChainInv', NEW h \in Handlers, ProjectFails(h)
  PROVE  SerialInv'
<1>1. UNCHANGED <<memories, rows>> /\ job[h].write = Empty /\ job[h] \in Pending
  BY Requested DEF ProjectFails, At, Active, SerialInv
<1>2. job'[h].pc \in {"project", "answer"} /\ job'[h].write = Empty
  BY <1>1 DEF ProjectFails, SerialInv, ChainInv, Typed, Pending
<1>3. job'[h].pc # "mark" /\ ~Before(h)'
  BY <1>2 DEF Before
<1> QED
  BY <1>1, <1>2, <1>3, ReplacingIsCareful, QuietSerial

\* The commit brings the rows up with memory.
LEMMA CommitSerial ==
  ASSUME OneRequest, SerialInv, ChainInv', NEW h \in Handlers, Commit(h)
  PROVE  SerialInv'
<1>1. PICK m \in DOMAIN job[h].write : rows' = Put(rows, m, job[h].write[m])
  BY DEF Commit
<1>2. Active(h) /\ UNCHANGED memories /\ job[h] \in Pending
  BY Commits, Requested DEF SerialInv
<1>3. rows' = memories
  <2>1. job[h].write # Empty
    BY <1>1, EmptyTable
  <2>2. PICK g \in Handlers : \E n \in DOMAIN job[g].write :
           DOMAIN job[g].write = {n} /\ memories = Put(rows, n, job[g].write[n])
    BY <1>2, <2>1 DEF SerialInv, RowsFollow
  <2>3. g = h
    BY DEF OneRequest
  <2> QED
    BY <1>1, <2>2, <2>3
<1>4. /\ job'[h].pc = job[h].pc /\ job'[h].new = job[h].new
      /\ job'[h].todo = job[h].todo /\ job'[h].write = Empty
  BY <1>2 DEF Commit, SerialInv, ChainInv, Typed, Pending
<1>5. Stored' = Stored /\ (Before(h)' <=> Before(h))
  BY <1>2, <1>4 DEF Stored, Before
<1>6. FactsAreNew' /\ VisitorsClaim'
  BY <1>2, <1>4, <1>5
     DEF OneRequest, SerialInv, RequestsAreCareful, FactsAreNew, VisitorsClaim
<1>7. RivalsAreMarked'
  BY <1>2, <1>4, <1>5 DEF OneRequest, SerialInv, RequestsAreCareful, RivalsAreMarked
<1>8. RowsFollow'
  BY <1>2, <1>3, <1>4 DEF OneRequest, RowsFollow
<1>9. Once(memories)' /\ Once(rows)' /\ AllMarked(memories)' /\ AllMarked(rows)'
  BY <1>2, <1>3 DEF SerialInv, Once, AllMarked
<1> QED
  BY <1>6, <1>7, <1>8, <1>9 DEF SerialInv, RequestsAreCareful

\* What every store has to show.
LEMMA StoredSerial ==
  ASSUME OneRequest, SerialInv, ChainInv', NEW h \in Handlers, Active(h),
         job[h].write = Empty, NEW id \in Ids, NEW memory \in Memory,
         NEW request \in Pending, Store(h, id, memory, request),
         RequestsAreCareful', Once(memories)', AllMarked(memories)'
  PROVE  SerialInv'
<1>1. memories' = Put(memories, id, memory) /\ UNCHANGED rows /\ rows = memories
  BY RowsAreEqual DEF Store
<1>2. Put(Empty, id, memory)[id] = memory /\ DOMAIN Put(Empty, id, memory) = {id}
  <2>1. Empty \in Tables /\ DOMAIN Empty = {}
    BY EmptyTable
  <2>2. /\ DOMAIN Put(Empty, id, memory) = DOMAIN Empty \cup {id}
        /\ Put(Empty, id, memory)[id] = memory
    BY <2>1, PutTable
  <2> QED
    BY <2>1, <2>2
<1>3. job'[h].write = Put(Empty, id, memory) /\ Active(h)'
  <2>1. PICK j \in Pending :
           job' = [job EXCEPT ![h] = j] /\ j.write = Put(Empty, id, memory)
    BY Stores DEF SerialInv
  <2>2. job'[h] = j
    BY <2>1 DEF SerialInv, ChainInv, Typed
  <2> QED
    BY <2>1, <2>2 DEF Active, Pending
<1>4. RowsFollow'
  <2>1. DOMAIN job'[h].write = {id} /\ job'[h].write[id] = memory
    BY <1>2, <1>3
  <2>2. memories' = Put(rows', id, job'[h].write[id])
    BY <1>1, <2>1
  <2> QED
    BY <1>3, <2>1, <2>2 DEF RowsFollow
<1>5. Once(rows)' /\ AllMarked(rows)'
  BY <1>1 DEF SerialInv, Once, AllMarked
<1> QED
  BY <1>4, <1>5 DEF SerialInv

LEMMA CloseSerial ==
  ASSUME OneRequest, SerialInv, ChainInv', NEW h \in Handlers, Close(h)
  PROVE  SerialInv'
<1> DEFINE old == job[h].old
<1>1. PICK memory \in Memory, request \in Pending :
         /\ Store(h, old, memory, request)
         /\ memory.supersededBy = job[h].id /\ memory.fact = memories[old].fact
         /\ memory.supersedes = memories[old].supersedes
         /\ request.pc = "add" /\ request.new = job[h].new
  BY Closes DEF SerialInv
<1>2. /\ Active(h) /\ job[h].write = Empty /\ old \in Stored /\ old \in Ids
      /\ job[h].new.supersedes # None /\ job[h].id # None
  BY Closes, Requested, LedgerAssumption DEF SerialInv
<1>3. /\ Stored' = Stored /\ memories'[old] = memory
      /\ \A n \in Stored : n # old => memories'[n] = memories[n]
  <2>1. /\ Stored' = Stored \cup {old} /\ memories'[old] = memory
        /\ \A n \in Stored : n # old => memories'[n] = memories[n]
    BY <1>1, <1>2, Stores DEF SerialInv
  <2> QED
    BY <1>2, <2>1
<1>4. job'[h].pc = "add" /\ job'[h].new = job[h].new
  <2>1. PICK j \in Pending : job' = [job EXCEPT ![h] = j] /\ j.pc = "add"
                             /\ j.new = job[h].new
    BY <1>1, <1>2, Stores DEF SerialInv
  <2> QED
    BY <2>1 DEF SerialInv, ChainInv, Typed
<1>5. RequestsAreCareful'
  BY <1>2, <1>4, ReplacingIsCareful
<1> HIDE DEF old
<1>6. Once(memories)'
  BY <1>1, <1>3 DEF SerialInv, Once, Stored
<1>7. AllMarked(memories)'
  BY <1>1, <1>2, <1>3 DEF SerialInv, AllMarked, Rivals, Stored
<1> QED
  BY <1>1, <1>2, <1>5, <1>6, <1>7, StoredSerial

LEMMA ProjectSerial ==
  ASSUME OneRequest, SerialInv, ChainInv', NEW h \in Handlers, Project(h)
  PROVE  SerialInv'
<1>1. PICK m \in Stored, request \in Pending :
         Store(h, m, memories[m], request) /\ request.pc \in {"project", "answer"}
  BY Projects DEF SerialInv
<1>2. /\ Active(h) /\ job[h].write = Empty /\ m \in Ids /\ memories[m] \in Memory
  BY Projects, Requested DEF SerialInv
<1>3. memories' = memories
  BY <1>1, PutSame DEF Store, SerialInv, ChainInv, Typed, Stored
<1>4. job'[h].pc \in {"project", "answer"}
  <2>1. PICK j \in Pending : job' = [job EXCEPT ![h] = j] /\ j.pc = request.pc
    BY <1>1, <1>2, Stores DEF SerialInv
  <2> QED
    BY <1>1, <2>1 DEF SerialInv, ChainInv, Typed
<1>5. job'[h].pc # "mark" /\ ~Before(h)'
  BY <1>4 DEF Before
<1>6. RequestsAreCareful'
  BY <1>5, ReplacingIsCareful
<1>7. Once(memories)' /\ AllMarked(memories)'
  BY <1>3 DEF SerialInv, Once, AllMarked
<1> QED
  BY <1>1, <1>2, <1>6, <1>7, StoredSerial

LEMMA MarkSerial ==
  ASSUME OneRequest, SerialInv, ChainInv', NEW h \in Handlers, NEW m \in Stored, Mark(h, m)
  PROVE  SerialInv'
<1>1. PICK memory \in Memory, request \in Pending :
         /\ Store(h, m, memory, request)
         /\ memory.status = "conflicting" /\ Alike(memory, memories[m])
         /\ request.new.status = "conflicting" /\ Alike(request.new, job[h].new)
         /\ request.pc = "mark" /\ request.todo = job[h].todo \ {m}
  BY Marks DEF SerialInv
<1>2. /\ Active(h) /\ Before(h) /\ job[h].write = Empty /\ m \in Ids
      /\ job[h].pc = "mark" /\ job[h].todo # {}
      /\ job[h].new.status \in CurrentStatuses
      /\ memories[m].status \in CurrentStatuses
  BY Requested
     DEF SerialInv, RequestsAreCareful, VisitorsClaim, Mark, At, Active, Before, Conflicts
<1>3. /\ Stored' = Stored /\ memories'[m] = memory
      /\ \A n \in Stored : n # m => memories'[n] = memories[n]
  <2>1. /\ Stored' = Stored \cup {m} /\ memories'[m] = memory
        /\ \A n \in Stored : n # m => memories'[n] = memories[n]
    BY <1>1, <1>2, Stores DEF SerialInv
  <2> QED
    BY <1>2, <2>1
<1>4. /\ job'[h].pc = "mark" /\ job'[h].new = request.new
      /\ job'[h].todo = job[h].todo \ {m}
  <2>1. PICK j \in Pending : /\ job' = [job EXCEPT ![h] = j] /\ j.pc = request.pc
                             /\ j.new = request.new /\ j.todo = request.todo
    BY <1>1, <1>2, Stores DEF SerialInv
  <2> QED
    BY <1>1, <2>1 DEF SerialInv, ChainInv, Typed
<1>5. Before(h)'
  BY <1>4 DEF Before
<1>6. FactsAreNew' /\ VisitorsClaim'
  BY <1>1, <1>2, <1>3, <1>4
     DEF OneRequest, SerialInv, RequestsAreCareful, FactsAreNew, VisitorsClaim,
         CurrentStatuses, Alike
<1>7. RivalsAreMarked'
  <2> SUFFICES ASSUME NEW n \in Stored, n # m, n \notin job[h].todo,
                      Rivals(memories[n], request.new)
               PROVE  memories[n].status = "conflicting"
    BY <1>1, <1>3, <1>4 DEF OneRequest, RivalsAreMarked
  <2>1. Rivals(memories[n], job[h].new)
    BY <1>1, <1>2 DEF Rivals, Overlap, Alike
  <2> QED
    BY <2>1, <1>2 DEF SerialInv, RequestsAreCareful, RivalsAreMarked
<1>8. Once(memories)'
  BY <1>1, <1>3 DEF SerialInv, Once, Alike, Stored
<1>9. AllMarked(memories)'
  <2> SUFFICES ASSUME NEW k \in Stored, NEW n \in Stored, k # n,
                      Rivals(memories'[k], memories'[n])
               PROVE  /\ memories'[k].status = "conflicting"
                      /\ memories'[n].status = "conflicting"
    BY <1>3 DEF AllMarked, Stored
  <2>1. Rivals(memories[k], memories[n])
    BY <1>1, <1>2, <1>3 DEF Rivals, Overlap, Alike
  <2> QED
    BY <2>1, <1>1, <1>3 DEF SerialInv, AllMarked, Stored
<1> QED
  BY <1>1, <1>2, <1>6, <1>7, <1>8, <1>9, StoredSerial DEF RequestsAreCareful

LEMMA AddSerial ==
  ASSUME OneRequest, SerialInv, ChainInv', NEW h \in Handlers, Add(h)
  PROVE  SerialInv'
<1> DEFINE id == job[h].id
           new == job[h].new
<1>1. PICK request \in Pending :
         /\ Store(h, id, new, request)
         /\ request.pc = IF job[h].old = None THEN "project" ELSE "projectOld"
  BY Adds DEF SerialInv
<1>2. /\ Active(h) /\ Before(h) /\ job[h].pc = "add" /\ job[h].write = Empty
      /\ id \in Ids /\ new \in Memory /\ id \notin Stored
  BY Adds, Requested DEF SerialInv, ChainInv, IdsAreFresh, Add, At
<1>3. /\ Stored' = Stored \cup {id} /\ memories'[id] = new
      /\ \A m \in Stored : memories'[m] = memories[m]
  BY <1>1, <1>2, Stores DEF SerialInv
<1>4. job'[h].pc \in {"project", "projectOld"}
  <2>1. PICK j \in Pending : job' = [job EXCEPT ![h] = j] /\ j.pc = request.pc
    BY <1>1, <1>2, Stores DEF SerialInv
  <2> QED
    BY <1>1, <2>1 DEF SerialInv, ChainInv, Typed
<1>5. job'[h].pc # "mark" /\ ~Before(h)'
  BY <1>4 DEF Before
<1>6. RequestsAreCareful'
  BY <1>5, ReplacingIsCareful
<1>7. Once(memories)'
  <2>1. \A m \in Stored : new.supersedes = None => memories[m].fact # new.fact
    BY <1>2 DEF SerialInv, RequestsAreCareful, FactsAreNew
  <2> HIDE DEF new, id
  <2> QED
    BY <2>1, <1>3 DEF SerialInv, Once, Stored
<1>8. AllMarked(memories)'
  <2>1. \A m \in Stored : Rivals(memories[m], new) =>
            memories[m].status = "conflicting" /\ new.status = "conflicting"
    BY <1>2 DEF SerialInv, RequestsAreCareful, RivalsAreMarked
  <2>2. \A m \in Stored : Rivals(new, memories[m]) => Rivals(memories[m], new)
    BY DEF Rivals, Overlap
  <2> HIDE DEF new, id
  <2> SUFFICES ASSUME NEW k \in Stored \cup {id}, NEW n \in Stored \cup {id}, k # n,
                      Rivals(memories'[k], memories'[n])
               PROVE  /\ memories'[k].status = "conflicting"
                      /\ memories'[n].status = "conflicting"
    BY <1>3 DEF AllMarked, Stored
  <2>3. CASE k = id
    BY <2>1, <2>2, <2>3, <1>3
  <2>4. CASE n = id
    BY <2>1, <2>4, <1>3
  <2>5. CASE k # id /\ n # id
    BY <2>5, <1>3 DEF SerialInv, AllMarked, Stored
  <2> QED
    BY <2>3, <2>4, <2>5
<1> HIDE DEF id, new
<1> QED
  BY <1>1, <1>2, <1>6, <1>7, <1>8, StoredSerial

LEMMA InitSerial == Init => SerialInv
<1> SUFFICES ASSUME Init PROVE SerialInv
  OBVIOUS
<1>1. /\ memories = Empty /\ rows = Empty /\ Stored = {} /\ DOMAIN Empty = {}
      /\ \A h \in Handlers : job[h] = Idle /\ job[h].pc = "idle" /\ ~Active(h)
  BY EmptyTable DEF Init, Stored, Idle, Active
<1>2. RequestsAreCareful
  BY <1>1 DEF RequestsAreCareful, FactsAreNew, RivalsAreMarked, VisitorsClaim
<1>3. RowsFollow
  BY <1>1 DEF RowsFollow
<1>4. Once(Empty) /\ AllMarked(Empty)
  BY <1>1 DEF Once, AllMarked
<1> QED
  BY <1>1, <1>2, <1>3, <1>4, InitChain DEF SerialInv

LEMMA StutterSerial ==
  ASSUME SerialInv, ChainInv', UNCHANGED vars
  PROVE  SerialInv'
<1>1. UNCHANGED <<memories, rows, job>>
  BY DEF vars
<1>2. RequestsAreCareful'
  BY <1>1 DEF SerialInv, RequestsAreCareful, FactsAreNew, RivalsAreMarked, VisitorsClaim,
              Before, Stored
<1>3. RowsFollow'
  BY <1>1 DEF SerialInv, RowsFollow, Active
<1>4. Once(memories)' /\ Once(rows)' /\ AllMarked(memories)' /\ AllMarked(rows)'
  BY <1>1 DEF SerialInv, Once, AllMarked
<1> QED
  BY <1>2, <1>3, <1>4 DEF SerialInv

LEMMA NextSerial ==
  ASSUME OneRequest
  PROVE  SerialInv /\ [Next]_vars => SerialInv'
<1> SUFFICES ASSUME SerialInv, [Next]_vars PROVE SerialInv'
  OBVIOUS
<1>1. ChainInv'
  BY NextChain DEF SerialInv
<1>2. CASE Restart
  BY <1>1, <1>2, EndedSerial DEF Restart
<1>3. ASSUME NEW h \in Handlers, NEW id \in Ids, NEW fact \in Fact,
             NEW status \in Submitted, Promote(h, id, fact, status)
      PROVE  SerialInv'
  BY <1>1, <1>3, PromoteSerial
<1>4. ASSUME NEW h \in Handlers, NEW id \in Ids, NEW fact \in Fact,
             NEW status \in Submitted, NEW m \in Stored,
             Supersede(h, m, id, fact, status)
      PROVE  SerialInv'
  BY <1>1, <1>4, SupersedeSerial
<1>5. ASSUME NEW h \in Handlers, NEW m \in Stored, Mark(h, m) PROVE SerialInv'
  BY <1>1, <1>5, MarkSerial
<1>6. ASSUME NEW h \in Handlers, MarkFails(h) \/ Answer(h) PROVE SerialInv'
  BY <1>1, <1>6, FinishSerial DEF MarkFails, Answer, At
<1>7. ASSUME NEW h \in Handlers, Marked(h) PROVE SerialInv'
  BY <1>1, <1>7, MarkedSerial
<1>8. ASSUME NEW h \in Handlers, Close(h) PROVE SerialInv'
  BY <1>1, <1>8, CloseSerial
<1>9. ASSUME NEW h \in Handlers, Add(h) PROVE SerialInv'
  BY <1>1, <1>9, AddSerial
<1>10. ASSUME NEW h \in Handlers, Project(h) PROVE SerialInv'
  BY <1>1, <1>10, ProjectSerial
<1>11. ASSUME NEW h \in Handlers, ProjectFails(h) PROVE SerialInv'
  BY <1>1, <1>11, ProjectFailsSerial
<1>12. ASSUME NEW h \in Handlers, Commit(h) PROVE SerialInv'
  BY <1>1, <1>12, CommitSerial
<1>13. CASE UNCHANGED vars
  BY <1>1, <1>13, StutterSerial
<1> QED
  BY <1>2, <1>3, <1>4, <1>5, <1>6, <1>7, <1>8, <1>9, <1>10, <1>11, <1>12, <1>13 DEF Next

LEMMA SerialAlways ==
  ASSUME OneRequest
  PROVE  Spec => []SerialInv
<1>1. SerialInv /\ [Next]_vars => SerialInv'
  BY NextSerial
<1> QED
  BY <1>1, InitSerial, PTL DEF Spec

\* With one request at a time, and wherever it crashes, every contradiction
\* between promoted facts is recorded on both.
THEOREM ContradictionsMarked ==
  ASSUME OneRequest
  PROVE  Spec => []ContradictionsAreMarked
<1>1. SerialInv => ContradictionsAreMarked
  BY DEF SerialInv, AllMarked, Rivals, ContradictionsAreMarked, Promoted, Open, Stored
<1> QED
  BY <1>1, SerialAlways, PTL

\* With one request at a time, a promotion that is repeated after a crash or a
\* lost answer makes no second memory.
THEOREM PromotionsAreIdempotent ==
  ASSUME OneRequest
  PROVE  Spec => []PromotedOnce
<1>1. SerialInv => PromotedOnce
  BY DEF SerialInv, Once, PromotedOnce, Promoted, Stored
<1> QED
  BY <1>1, SerialAlways, PTL

\* With one request at a time, a crash between two requests loses nothing.
THEOREM AnswersAreDurable ==
  ASSUME OneRequest
  PROVE  Spec => []AnsweredIsDurable
<1>1. SerialInv => AnsweredIsDurable
  BY DEF SerialInv, RowsFollow, AnsweredIsDurable, Active
<1> QED
  BY <1>1, SerialAlways, PTL

=============================================================================
