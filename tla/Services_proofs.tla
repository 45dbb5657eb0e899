-------------------------- MODULE Services_proofs --------------------------
(***************************************************************************)
(* What the services that keep records promise, for every value of their   *)
(* constants.  Each part has an inductive invariant of its own; a step of  *)
(* Services is one of the part the behaviour belongs to (OnePart), so that *)
(* the parts are proved one by one.                                        *)
(***************************************************************************)
EXTENDS Services, Sequences, FiniteSetTheorems, TLAPS

-----------------------------------------------------------------------------
(* One part of the behaviour.                                              *)

\* A step is one of the part the behaviour belongs to.
LEMMA OnePart ==
  ASSUME [Next]_vars
  PROVE  /\ part' = part
         /\ On("packs") => DomainPack!Next \/ UNCHANGED packVars
         /\ On("episodes") => Episode!Next \/ UNCHANGED episodeVars
         /\ On("backfill") => Backfill!Next \/ UNCHANGED backfillVars
         /\ On("graph") => Projection!Next \/ UNCHANGED graphVars
         /\ On("search") => Search!Next \/ UNCHANGED searchVars
         /\ On("coverage") => Coverage!Next \/ UNCHANGED coverageVars
BY DEF Next, vars, On, PacksStep, EpisodesStep, BackfillStep, GraphStep, SearchStep,
       CoverageStep

-----------------------------------------------------------------------------
(* Domain Packs.                                                           *)

\* What the intervals of the packs depend on.
Regular == ~overlapped /\ ~presuperseded

Creation == [pc : {"close", "closeRow", "add", "addRow"}, id : PackIds,
             prior : PackIds \cup {NoPack}, new : DomainPack!Pack]

NotCreating == [pc |-> "idle"]

IsTable(table) ==
    DOMAIN table \subseteq PackIds /\ table \in [DOMAIN table -> DomainPack!Pack]

PacksTyped ==
    /\ IsTable(packs) /\ IsTable(packRows)
    /\ creating \in [PackHandlers -> Creation \cup {NotCreating}]
    /\ overlapped \in BOOLEAN /\ presuperseded \in BOOLEAN

\* The unique index, and what was answered 201.
VersionsHold ==
    /\ \A p, q \in DOMAIN packRows : p # q => packRows[p].version # packRows[q].version
    /\ created \subseteq DOMAIN packRows

Creates(h) == creating[h].pc # "idle"

\* The object whose row a request is about to write is in memory.
AtHand(h) ==
    /\ creating[h].pc = "closeRow" => creating[h].prior \in DOMAIN packs
    /\ creating[h].pc = "addRow" => creating[h].id \in DOMAIN packs

Closed(pack0, id, at) == [pack0 EXCEPT !.status = "superseded", !.by = id, !.to = at]

\* Nothing is in force when an approved pack takes effect.
IsClear(new) ==
    new.status = "approved" /\ DomainPack!InOrder(packRows) =>
        \A q \in DOMAIN packRows : ~DomainPack!Effective(packRows[q], new.from)

\* What the only request has done: memory is the table but for its own step.
CreationHolds(h) ==
    LET c == creating[h]
    IN /\ c.id \notin DOMAIN packRows /\ c.new.status # "superseded"
       /\ \A q \in DOMAIN packRows : packRows[q].version < c.new.version
       /\ c.pc \in {"close", "add"} => packs = packRows
       /\ c.pc = "closeRow" =>
             /\ c.prior \in DOMAIN packRows
             /\ DomainPack!Effective(packRows[c.prior], c.new.from)
             /\ packs = [p \in DOMAIN packRows |->
                           IF p = c.prior THEN Closed(packRows[p], c.id, c.new.from)
                           ELSE packRows[p]]
       /\ c.pc = "addRow" => packs = DomainPack!With(packRows, c.id, c.new)
       /\ c.pc \in {"add", "addRow"} => IsClear(c.new)

OneVersionAtATime ==
    /\ \A g, h \in PackHandlers : Creates(g) /\ Creates(h) => g = h
    /\ (\A h \in PackHandlers : ~Creates(h)) => packs = packRows
    /\ \A h \in PackHandlers : Creates(h) => CreationHolds(h)
    /\ DomainPack!InOrder(packRows) => DomainPack!OneAtATime(packRows)

PacksInv ==
    /\ PacksTyped /\ VersionsHold /\ \A h \in PackHandlers : AtHand(h)
    /\ Regular => OneVersionAtATime

LEMMA Dates ==
  /\ PackTimes \subseteq Nat /\ DomainPack!Unbounded \in Nat
  /\ \A p \in DomainPack!Pack : p.version \in Nat /\ p.from \in Nat /\ p.to \in Nat
<1>1. Cardinality(PackTimes) \in Nat
  BY DatesAssumption, FS_CardinalityType
<1>2. PackTimes \subseteq Nat
  BY <1>1, DatesAssumption
<1>3. DomainPack!Cardinality(PackTimes) = Cardinality(PackTimes)
  BY DEF DomainPack!Cardinality, Cardinality
<1>4. DomainPack!Unbounded \in Nat
  BY <1>1, <1>3 DEF DomainPack!Unbounded
<1> QED BY <1>2, <1>4 DEF DomainPack!Pack

LEMMA PacksInit == DomainPack!Init => PacksInv
<1> SUFFICES ASSUME DomainPack!Init PROVE PacksInv
  OBVIOUS
<1>1. DOMAIN packs = {} /\ DOMAIN packRows = {} /\ packs = packRows
  BY DEF DomainPack!Init
<1>2. PacksTyped
  BY <1>1 DEF DomainPack!Init, PacksTyped, IsTable, NotCreating
<1>3. VersionsHold
  BY <1>1 DEF DomainPack!Init, VersionsHold
<1>4. OneVersionAtATime
  BY <1>1 DEF DomainPack!Init, OneVersionAtATime, Creates, DomainPack!OneAtATime
<1>5. \A h \in PackHandlers : AtHand(h)
  BY DEF DomainPack!Init, AtHand
<1> QED BY <1>2, <1>3, <1>4, <1>5 DEF PacksInv

LEMMA TableWith ==
  ASSUME NEW table, IsTable(table), NEW id \in PackIds, NEW new \in DomainPack!Pack
  PROVE  LET after == DomainPack!With(table, id, new)
         IN /\ IsTable(after) /\ DOMAIN after = DOMAIN table \cup {id}
            /\ after[id] = new /\ \A p \in DOMAIN table : p # id => after[p] = table[p]
<1> DEFINE after == DomainPack!With(table, id, new)
<1>1. after = [p \in DOMAIN table \cup {id} |-> IF p = id THEN new ELSE table[p]]
  BY DEF DomainPack!With
<1>2. \A p \in DOMAIN table \cup {id} : after[p] \in DomainPack!Pack
  BY <1>1 DEF IsTable
<1>3. DOMAIN after = DOMAIN table \cup {id}
  BY <1>1
<1>4. after \in [DOMAIN after -> DomainPack!Pack]
  BY <1>1, <1>2, <1>3
<1>5. DOMAIN after \subseteq PackIds
  BY <1>3 DEF IsTable
<1> HIDE DEF after
<1>6. IsTable(after)
  BY <1>4, <1>5 DEF IsTable
<1>7. after[id] = new /\ \A p \in DOMAIN table : p # id => after[p] = table[p]
  BY <1>1
<1> QED BY <1>3, <1>6, <1>7 DEF after

\* The request of h goes on by itself.
LEMMA PacksMove ==
  ASSUME PacksInv, NEW h \in PackHandlers, PacksTyped', VersionsHold', AtHand(h)',
         DOMAIN packs \subseteq DOMAIN packs',
         \A g \in PackHandlers : g # h => creating'[g] = creating[g],
         Regular' => Regular /\ (Creates(h) \/ \A g \in PackHandlers : ~Creates(g)),
         Regular' /\ Creates(h)' => CreationHolds(h)',
         Regular' /\ ~Creates(h)' => packs' = packRows',
         Regular' => (DomainPack!InOrder(packRows)' => DomainPack!OneAtATime(packRows)')
  PROVE  PacksInv'
<1>a. \A g \in PackHandlers : AtHand(g)'
  BY DEF PacksInv, AtHand
<1> SUFFICES ASSUME Regular' PROVE OneVersionAtATime'
  BY <1>a DEF PacksInv
<1>1. \A g \in PackHandlers : g # h => ~Creates(g)'
  BY DEF PacksInv, OneVersionAtATime, Creates
<1>2. \A g \in PackHandlers : Creates(g)' => CreationHolds(g)'
  BY <1>1
<1> QED BY <1>1, <1>2 DEF OneVersionAtATime

LEMMA PacksCheck ==
  ASSUME PacksInv, NEW h \in PackHandlers, NEW id \in PackIds,
         NEW asked \in PackStatuses, NEW from \in PackTimes,
         NEW to \in PackTimes \cup {DomainPack!Unbounded},
         DomainPack!Check(h, id, asked, from, to)
  PROVE  PacksInv'
<1>1. PICK version \in DomainPack!ExpectedVersions :
         creating' = [creating EXCEPT ![h] =
            [pc |-> IF asked = "approved" THEN "close" ELSE "add", id |-> id,
             prior |-> NoPack,
             new |-> [version |-> version, status |-> asked, from |-> from,
                      to |-> to, by |-> NoPack]]]
  BY DEF DomainPack!Check
<1> DEFINE new == [version |-> version, status |-> asked, from |-> from,
                   to |-> to, by |-> NoPack]
           c == [pc |-> IF asked = "approved" THEN "close" ELSE "add", id |-> id,
                 prior |-> NoPack, new |-> new]
<1>a. /\ PacksTyped /\ UNCHANGED <<packs, packRows, created>>
      /\ overlapped' = (overlapped \/ \E k \in PackHandlers : creating[k].pc # "idle")
      /\ presuperseded' = (presuperseded \/ asked = "superseded")
      /\ creating[h].pc = "idle" /\ id \notin DOMAIN packs \cup DOMAIN packRows
  BY DEF PacksInv, DomainPack!Check
<1>2. /\ version \in Nat \ {0}
      /\ \A p \in DOMAIN packs : packs[p].version < version
  BY <1>a, Dates DEF DomainPack!ExpectedVersions, PacksTyped, IsTable
<1>3. new \in DomainPack!Pack
  BY <1>2, StatusesAssumption DEF DomainPack!Pack
<1>4. c \in Creation
  <2> HIDE DEF new
  <2> QED BY <1>3 DEF Creation
<1>5. creating'[h] = c /\ \A g \in PackHandlers : g # h => creating'[g] = creating[g]
  BY <1>1, <1>a DEF PacksTyped
<1>6. PacksTyped'
  <2> HIDE DEF c
  <2>1. creating' \in [PackHandlers -> Creation \cup {NotCreating}]
    BY <1>1, <1>4, <1>a DEF PacksTyped, c
  <2> QED BY <2>1, <1>a DEF PacksTyped
<1>7. VersionsHold'
  BY <1>a DEF PacksInv, VersionsHold
<1>8. Regular' => Regular /\ \A g \in PackHandlers : ~Creates(g)
  BY <1>a DEF Regular, PacksTyped, Creates
<1>9. ASSUME Regular'
      PROVE  /\ CreationHolds(h)'
             /\ (DomainPack!InOrder(packRows)' => DomainPack!OneAtATime(packRows)')
  <2>1. /\ packs = packRows
        /\ (DomainPack!InOrder(packRows) => DomainPack!OneAtATime(packRows))
    BY <1>8, <1>9 DEF PacksInv, OneVersionAtATime
  <2>2. /\ creating'[h].id = id /\ creating'[h].new.version = version
        /\ creating'[h].new.status = asked
        /\ creating'[h].pc = IF asked = "approved" THEN "close" ELSE "add"
    BY <1>5
  <2>3. creating'[h].pc \in {"add", "addRow"} => IsClear(creating[h].new)'
    BY <2>2 DEF IsClear
  <2>4. asked # "superseded"
    BY <1>9, <1>a DEF Regular, PacksTyped
  <2> HIDE DEF c, new
  <2>5. CreationHolds(h)'
    BY <1>2, <1>a, <2>1, <2>2, <2>3, <2>4 DEF CreationHolds
  <2> QED BY <1>a, <2>1, <2>5 DEF DomainPack!InOrder, DomainPack!OneAtATime
<1>10. Creates(h)' /\ AtHand(h)'
  BY <1>5 DEF Creates, AtHand
<1> QED BY <1>5, <1>6, <1>7, <1>8, <1>9, <1>10, <1>a, PacksMove

\* Steps that write no row, by their request alone.
LEMMA RowsStand ==
  ASSUME PacksInv, UNCHANGED <<packRows, created, overlapped, presuperseded>>,
         Regular' = Regular
  PROVE  /\ VersionsHold'
         /\ Regular' => (DomainPack!InOrder(packRows)' => DomainPack!OneAtATime(packRows)')
         /\ \A new : IsClear(new) => IsClear(new)'
BY DEF PacksInv, OneVersionAtATime, VersionsHold, DomainPack!InOrder,
       DomainPack!OneAtATime, IsClear

LEMMA PacksClose ==
  ASSUME PacksInv, NEW h \in PackHandlers, DomainPack!Close(h)
  PROVE  PacksInv'
<1> DEFINE new == creating[h].new
           prior == DomainPack!CurrentPacks(packs, new.from)
<1>a. /\ PacksTyped
      /\ UNCHANGED <<packRows, created, overlapped, presuperseded>>
      /\ Regular' = Regular
      /\ creating[h].pc = "close" /\ Creates(h) /\ creating[h] \in Creation
      /\ IsTable(packs)
  <2>1. /\ PacksTyped
        /\ UNCHANGED <<packRows, created, overlapped, presuperseded>>
        /\ Regular' = Regular
        /\ creating[h].pc = "close"
    BY DEF Regular, PacksInv, DomainPack!Close
  <2> QED BY <2>1 DEF PacksTyped, Creates, NotCreating
<1>b. Regular => CreationHolds(h)
  BY <1>a DEF PacksInv, OneVersionAtATime
<1>c. creating[h].id \in PackIds /\ new \in DomainPack!Pack
  BY <1>a DEF Creation
<1>1. CASE prior # {} /\ DomainPack!Fail(h) /\ UNCHANGED packs
  <2>1. /\ creating'[h] = NotCreating
        /\ \A g \in PackHandlers : g # h => creating'[g] = creating[g]
    BY <1>1, <1>a DEF DomainPack!Fail, PacksTyped, NotCreating
  <2>2. PacksTyped'
    BY <1>1, <1>a DEF DomainPack!Fail, PacksTyped, NotCreating
  <2>3. ~Creates(h)' /\ AtHand(h)' BY <2>1 DEF Creates, NotCreating, AtHand
  <2>4. Regular' => packs' = packRows'
    BY <1>1, <1>a, <1>b DEF CreationHolds
  <2> QED BY <1>1, <1>a, <2>1, <2>2, <2>3, <2>4, RowsStand, PacksMove
<1>2. CASE prior = {} /\ DomainPack!Goto(h, "add") /\ UNCHANGED packs
  <2>1. /\ creating'[h] \in Creation /\ creating'[h].pc = "add"
        /\ creating'[h].id = creating[h].id /\ creating'[h].new = new
        /\ \A g \in PackHandlers : g # h => creating'[g] = creating[g]
    BY <1>2, <1>a DEF DomainPack!Goto, PacksTyped, Creation
  <2>2. PacksTyped'
    <3>1. creating' \in [PackHandlers -> Creation \cup {NotCreating}]
      BY <1>2, <1>a, <2>1 DEF DomainPack!Goto, PacksTyped
    <3> QED BY <3>1, <1>2, <1>a DEF PacksTyped
  <2>3. ASSUME Regular' PROVE IsClear(new)
    <3> SUFFICES ASSUME DomainPack!InOrder(packRows), NEW q \in DOMAIN packRows,
                        DomainPack!Effective(packRows[q], new.from)
                 PROVE  FALSE
      BY DEF IsClear
    <3>1. packs = packRows /\ DomainPack!OneAtATime(packRows) /\ new.from \in PackTimes
      BY <1>a, <1>b, <1>c, <2>3 DEF PacksInv, OneVersionAtATime, CreationHolds, DomainPack!Pack
    <3>2. \A p \in DOMAIN packs : DomainPack!Effective(packs[p], new.from) => p = q
      BY <3>1 DEF DomainPack!OneAtATime
    <3>3. packs[q].version \in Nat /\ packs[q].from \in Nat
      BY <3>1, <1>a, Dates DEF IsTable
    <3> HIDE DEF new
    <3>4. q \in DomainPack!CurrentPacks(packs, new.from)
      BY <3>1, <3>2, <3>3 DEF DomainPack!CurrentPacks
    <3> QED BY <1>2, <3>4
  <2>4. Regular' => CreationHolds(h)'
    <3> SUFFICES ASSUME Regular' PROVE CreationHolds(h)'
      OBVIOUS
    <3>1. CreationHolds(h) /\ IsClear(creating[h].new) BY <1>a, <1>b, <2>3
    <3>2. IsClear(creating[h].new)' BY <2>1, <3>1, <1>a DEF IsClear, DomainPack!InOrder
    <3> QED BY <1>2, <1>a, <2>1, <3>1, <3>2 DEF CreationHolds
  <2>5. Creates(h)' /\ AtHand(h)' BY <2>1 DEF Creates, AtHand
  <2> QED BY <1>2, <1>a, <2>1, <2>2, <2>4, <2>5, RowsStand, PacksMove
<1>3. ASSUME NEW p \in prior,
             packs' = [packs EXCEPT ![p].status = "superseded", ![p].by = creating[h].id,
                                    ![p].to = new.from],
             creating' = [creating EXCEPT ![h].pc = "closeRow", ![h].prior = p]
      PROVE  PacksInv'
  <2>1. p \in DOMAIN packs /\ DomainPack!Effective(packs[p], new.from) /\ p \in PackIds
    BY <1>a, <1>3 DEF DomainPack!CurrentPacks, IsTable
  <2>2. /\ creating'[h] \in Creation /\ creating'[h].pc = "closeRow"
        /\ creating'[h].id = creating[h].id /\ creating'[h].new = new
        /\ creating'[h].prior = p
        /\ \A g \in PackHandlers : g # h => creating'[g] = creating[g]
    BY <1>3, <1>a, <2>1 DEF PacksTyped, Creation
  <2>3. /\ packs' = [q \in DOMAIN packs |->
                      IF q = p THEN Closed(packs[q], creating[h].id, new.from) ELSE packs[q]]
        /\ packs[p] \in DomainPack!Pack
    BY <1>3, <1>a, <2>1 DEF Closed, IsTable
  <2>4. Closed(packs[p], creating[h].id, new.from) \in DomainPack!Pack
    BY <2>3, <1>c DEF Closed, DomainPack!Pack
  <2>5. PacksTyped'
    <3>1. creating' \in [PackHandlers -> Creation \cup {NotCreating}]
      BY <1>3, <1>a, <2>2 DEF PacksTyped
    <3>2. DOMAIN packs' = DOMAIN packs BY <2>3
    <3>3. packs' \in [DOMAIN packs -> DomainPack!Pack]
      <4> HIDE DEF new
      <4> QED BY <2>3, <2>4, <1>a DEF IsTable
    <3>4. IsTable(packs)' BY <3>2, <3>3, <1>a DEF IsTable
    <3> QED BY <3>1, <3>4, <1>a DEF PacksTyped, IsTable
  <2>6. Regular' => CreationHolds(h)'
    <3> SUFFICES ASSUME Regular' PROVE CreationHolds(h)'
      OBVIOUS
    <3>1. CreationHolds(h) /\ packs = packRows BY <1>a, <1>b DEF CreationHolds
    <3> HIDE DEF new
    <3> QED BY <1>a, <2>1, <2>2, <2>3, <3>1 DEF CreationHolds, new
  <2>7. Creates(h)' /\ AtHand(h)' /\ DOMAIN packs \subseteq DOMAIN packs'
    BY <2>1, <2>2, <2>3 DEF Creates, AtHand
  <2> QED BY <1>a, <2>2, <2>5, <2>6, <2>7, RowsStand, PacksMove
<1>4. \/ prior = {} /\ DomainPack!Goto(h, "add") /\ UNCHANGED packs
      \/ prior # {} /\ DomainPack!Fail(h) /\ UNCHANGED packs
      \/ \E p \in prior :
            /\ packs' = [packs EXCEPT ![p].status = "superseded", ![p].by = creating[h].id,
                                      ![p].to = new.from]
            /\ creating' = [creating EXCEPT ![h].pc = "closeRow", ![h].prior = p]
  BY DEF DomainPack!Close
<1> HIDE DEF prior, new
<1> QED BY <1>1, <1>2, <1>3, <1>4

\* The closed version ends where the new one begins: disjointness survives, and
\* nothing is in force there any more.
LEMMA ClosedRows ==
  ASSUME NEW rows, IsTable(rows), NEW p \in DOMAIN rows, NEW new \in DomainPack!Pack,
         NEW id, DomainPack!Effective(rows[p], new.from),
         NEW after, DOMAIN after = DOMAIN rows,
         after[p] = Closed(rows[p], id, new.from),
         \A q \in DOMAIN rows : q # p => after[q] = rows[q],
         DomainPack!InOrder(rows) => DomainPack!OneAtATime(rows)
  PROVE  /\ DomainPack!InOrder(after) => DomainPack!InOrder(rows) /\ DomainPack!OneAtATime(after)
         /\ DomainPack!InOrder(after) =>
               \A q \in DOMAIN after : ~DomainPack!Effective(after[q], new.from)
         /\ \A q \in DOMAIN rows : after[q].version = rows[q].version
<1>1. rows[p] \in DomainPack!Pack /\ new.from \in PackTimes
  BY DEF IsTable, DomainPack!Pack
<1>2. /\ after[p].version = rows[p].version /\ after[p].from = rows[p].from
      /\ after[p].to = new.from
  BY <1>1 DEF Closed, DomainPack!Pack
<1>3. \A q \in DOMAIN rows : after[q].version = rows[q].version /\ after[q].from = rows[q].from
  BY <1>2
<1>4. ~DomainPack!Effective(after[p], new.from)
  BY <1>1, <1>2, Dates DEF DomainPack!Effective
<1>5. ASSUME NEW t \in PackTimes, DomainPack!Effective(after[p], t)
      PROVE  DomainPack!Effective(rows[p], t)
  <2>1. rows[p].from \in Nat /\ rows[p].to \in Nat /\ t \in Nat /\ new.from \in Nat
    BY <1>1, Dates
  <2>2. rows[p].from <= t /\ t < new.from
    BY <1>2, <1>5 DEF DomainPack!Effective
  <2>3. new.from < rows[p].to /\ rows[p].status \in {"approved", "superseded"}
    BY DEF DomainPack!Effective
  <2> QED BY <2>1, <2>2, <2>3 DEF DomainPack!Effective
<1>6. ASSUME DomainPack!InOrder(after)
      PROVE  /\ DomainPack!InOrder(rows) /\ DomainPack!OneAtATime(after)
             /\ \A q \in DOMAIN after : ~DomainPack!Effective(after[q], new.from)
  <2>1. DomainPack!InOrder(rows) BY <1>3, <1>6 DEF DomainPack!InOrder
  <2>2. DomainPack!OneAtATime(rows) BY <2>1
  <2>3. \A q \in DOMAIN rows, t \in PackTimes :
          DomainPack!Effective(after[q], t) => DomainPack!Effective(rows[q], t)
    BY <1>5
  <2>4. DomainPack!OneAtATime(after) BY <2>2, <2>3 DEF DomainPack!OneAtATime
  <2>5. ASSUME NEW q \in DOMAIN rows, q # p PROVE ~DomainPack!Effective(after[q], new.from)
    BY <2>2, <2>5, <1>1 DEF DomainPack!OneAtATime
  <2> QED BY <2>1, <2>4, <2>5, <1>4
<1> QED BY <1>3, <1>6

LEMMA PacksCloseRow ==
  ASSUME PacksInv, NEW h \in PackHandlers, DomainPack!CloseRow(h)
  PROVE  PacksInv'
<1> DEFINE prior == creating[h].prior
           new == creating[h].new
<1>a. /\ PacksTyped
      /\ UNCHANGED <<packs, created, overlapped, presuperseded>>
      /\ Regular' = Regular
      /\ creating[h].pc = "closeRow"
      /\ IF DomainPack!Refused(prior) THEN DomainPack!Fail(h) /\ UNCHANGED packRows
         ELSE /\ DomainPack!Goto(h, "add")
              /\ packRows' = DomainPack!With(packRows, prior, packs[prior])
  BY DEF Regular, PacksInv, DomainPack!CloseRow
<1>b. /\ Creates(h) /\ creating[h] \in Creation
      /\ prior \in DOMAIN packs /\ packs[prior] \in DomainPack!Pack /\ prior \in PackIds
  BY <1>a DEF PacksInv, AtHand, PacksTyped, Creates, NotCreating, IsTable
<1>c. Regular => /\ CreationHolds(h) /\ VersionsHold
                 /\ (DomainPack!InOrder(packRows) => DomainPack!OneAtATime(packRows))
  BY <1>b DEF PacksInv, OneVersionAtATime
<1>1. ASSUME Regular
      PROVE  /\ prior \in DOMAIN packRows /\ DOMAIN packs = DOMAIN packRows
             /\ packs[prior] = Closed(packRows[prior], creating[h].id, new.from)
             /\ \A q \in DOMAIN packRows : q # prior => packs[q] = packRows[q]
             /\ DomainPack!Effective(packRows[prior], new.from)
  BY <1>1, <1>a, <1>c DEF CreationHolds
<1>2. ASSUME Regular PROVE ~DomainPack!Refused(prior)
  <2>1. packRows[prior] \in DomainPack!Pack
    BY <1>1, <1>2, <1>a DEF PacksTyped, IsTable
  <2>2. packs[prior].version = packRows[prior].version
    BY <2>1, <1>1, <1>2 DEF Closed, DomainPack!Pack
  <2> QED BY <2>2, <1>1, <1>2, <1>c DEF DomainPack!Refused, VersionsHold
<1>3. CASE DomainPack!Refused(prior)
  <2>1. ~Regular BY <1>2, <1>3
  <2>2. /\ UNCHANGED packRows
        /\ creating' = [creating EXCEPT ![h] = NotCreating]
    BY <1>a, <1>3 DEF DomainPack!Fail, NotCreating
  <2>3. PacksTyped' BY <1>a, <2>2 DEF PacksTyped, IsTable
  <2>4. VersionsHold' BY <1>a, <2>2, RowsStand
  <2>5. /\ AtHand(h)' /\ \A g \in PackHandlers : g # h => creating'[g] = creating[g]
    BY <1>a, <2>2 DEF PacksTyped, AtHand, NotCreating
  <2> QED BY <1>a, <2>1, <2>3, <2>4, <2>5, PacksMove
<1>4. CASE ~DomainPack!Refused(prior)
  <2>1. packRows' = DomainPack!With(packRows, prior, packs[prior])
    BY <1>a, <1>4
  <2>2. /\ DOMAIN packRows' = DOMAIN packRows \cup {prior} /\ packRows'[prior] = packs[prior]
        /\ \A q \in DOMAIN packRows : q # prior => packRows'[q] = packRows[q]
    <3> HIDE DEF prior
    <3> QED BY <2>1 DEF DomainPack!With
  <2>3. /\ creating'[h] \in Creation /\ creating'[h].pc = "add"
        /\ creating'[h].id = creating[h].id /\ creating'[h].new = new
        /\ \A g \in PackHandlers : g # h => creating'[g] = creating[g]
        /\ creating' \in [PackHandlers -> Creation \cup {NotCreating}]
    <3>1. creating' = [creating EXCEPT ![h].pc = "add"]
      BY <1>a, <1>4 DEF DomainPack!Goto
    <3>2. /\ creating'[h] \in Creation /\ creating'[h].pc = "add"
          /\ creating'[h].id = creating[h].id /\ creating'[h].new = new
          /\ \A g \in PackHandlers : g # h => creating'[g] = creating[g]
      BY <3>1, <1>a, <1>b DEF PacksTyped, Creation
    <3>3. creating' \in [PackHandlers -> Creation \cup {NotCreating}]
      BY <3>1, <3>2, <1>a DEF PacksTyped
    <3> QED BY <3>2, <3>3
  <2>4. VersionsHold'
    <3>1. \A q \in DOMAIN packRows : q # prior => packRows[q].version # packs[prior].version
      BY <1>4 DEF DomainPack!Refused
    <3> HIDE DEF prior
    <3> QED BY <3>1, <2>2, <1>a DEF PacksInv, VersionsHold
  <2>5. CASE ~Regular
    <3>1. PacksTyped'
      <4>1. IsTable(packRows')
        <5> HIDE DEF prior
        <5> QED BY <1>a, <1>b, <2>1, TableWith DEF PacksTyped
      <4> QED BY <4>1, <2>3, <1>a DEF PacksTyped, IsTable
    <3>2. AtHand(h)' BY <2>3 DEF AtHand
    <3> QED BY <3>1, <3>2, <2>3, <2>4, <2>5, <1>a, PacksMove
  <2>6. CASE Regular
    <3>1. packRows' = packs
      <4>1. packs = [q \in DOMAIN packs |-> packs[q]] BY <1>a DEF PacksTyped, IsTable
      <4>2. packRows' = [q \in DOMAIN packRows' |-> packRows'[q]]
        BY <2>1 DEF DomainPack!With
      <4>3. DOMAIN packRows' = DOMAIN packs /\ \A q \in DOMAIN packs : packRows'[q] = packs[q]
        BY <1>1, <2>2, <2>6
      <4> HIDE DEF prior
      <4> QED BY <4>1, <4>2, <4>3
    <3>2. PacksTyped' BY <3>1, <2>3, <1>a DEF PacksTyped, IsTable
    <3>3. /\ DomainPack!InOrder(packs) => DomainPack!InOrder(packRows) /\ DomainPack!OneAtATime(packs)
          /\ DomainPack!InOrder(packs) =>
                \A q \in DOMAIN packs : ~DomainPack!Effective(packs[q], new.from)
          /\ \A q \in DOMAIN packRows : packs[q].version = packRows[q].version
      <4>1. new \in DomainPack!Pack /\ IsTable(packRows)
        BY <1>a, <1>b DEF Creation, PacksTyped
      <4> HIDE DEF prior, new
      <4> QED BY <4>1, <1>1, <1>c, <2>6, ClosedRows
    <3>4. CreationHolds(h)'
      <4>1. IsClear(creating[h].new)'
        BY <3>1, <3>3, <2>3, <1>a DEF IsClear, DomainPack!InOrder
      <4>2. CreationHolds(h) /\ DOMAIN packs = DOMAIN packRows
        BY <1>1, <1>c, <2>6
      <4> HIDE DEF prior
      <4> QED BY <4>1, <4>2, <3>1, <3>3, <2>3, <1>a DEF CreationHolds, new
    <3>5. Creates(h)' /\ AtHand(h)' BY <2>3 DEF Creates, AtHand
    <3>6. DomainPack!InOrder(packRows)' => DomainPack!OneAtATime(packRows)'
      BY <3>1, <3>3 DEF DomainPack!InOrder, DomainPack!OneAtATime
    <3> QED BY <3>2, <2>4, <2>3, <1>a, <1>b, <3>4, <3>5, <3>6, PacksMove
  <2> QED BY <2>5, <2>6
<1> QED BY <1>3, <1>4

LEMMA PacksAdd ==
  ASSUME PacksInv, NEW h \in PackHandlers, DomainPack!Add(h)
  PROVE  PacksInv'
<1> DEFINE id == creating[h].id
           new == creating[h].new
<1>a. /\ PacksTyped
      /\ UNCHANGED <<packRows, created, overlapped, presuperseded>>
      /\ Regular' = Regular
      /\ creating[h].pc = "add"
      /\ packs' = DomainPack!With(packs, id, new)
      /\ creating' = [creating EXCEPT ![h].pc = "addRow"]
  BY DEF Regular, PacksInv, DomainPack!Add, DomainPack!Goto
<1>b. Creates(h) /\ creating[h] \in Creation
  BY <1>a DEF PacksTyped, Creates, NotCreating
<1>c. id \in PackIds /\ new \in DomainPack!Pack
  BY <1>b DEF Creation
<1>1. /\ creating'[h] \in Creation /\ creating'[h].pc = "addRow"
      /\ creating'[h].id = id /\ creating'[h].new = new
      /\ \A g \in PackHandlers : g # h => creating'[g] = creating[g]
  BY <1>a, <1>b DEF PacksTyped, Creation
<1>2. IsTable(packs') /\ DOMAIN packs' = DOMAIN packs \cup {id}
  <2> HIDE DEF id, new
  <2> QED BY <1>a, <1>c, TableWith DEF PacksTyped
<1>3. PacksTyped'
  <2>1. creating' \in [PackHandlers -> Creation \cup {NotCreating}]
    BY <1>1, <1>a DEF PacksTyped
  <2> QED BY <2>1, <1>2, <1>a DEF PacksTyped, IsTable
<1>4. ASSUME Regular' PROVE CreationHolds(h)'
  <2>1. CreationHolds(h) /\ packs = packRows /\ IsClear(creating[h].new)
    BY <1>a, <1>b, <1>4 DEF PacksInv, OneVersionAtATime, CreationHolds
  <2>2. IsClear(creating[h].new)' BY <1>1, <2>1, <1>a DEF IsClear, DomainPack!InOrder
  <2>3. packs' = DomainPack!With(packRows, creating'[h].id, creating'[h].new)
    BY <1>1, <2>1, <1>a
  <2>4. (packs = DomainPack!With(packRows, creating[h].id, creating[h].new))'
    BY <2>3, <1>a DEF DomainPack!With
  <2> QED BY <1>a, <1>1, <2>1, <2>2, <2>4 DEF CreationHolds
<1>5. Creates(h)' /\ AtHand(h)'
  BY <1>1, <1>2 DEF Creates, AtHand
<1> QED BY <1>a, <1>b, <1>1, <1>2, <1>3, <1>4, <1>5, RowsStand, PacksMove

\* The new version takes effect last and finds nothing in force.
LEMMA AddedRow ==
  ASSUME NEW rows, IsTable(rows), NEW id \in PackIds \ DOMAIN rows,
         NEW new \in DomainPack!Pack, new.status # "superseded",
         \A q \in DOMAIN rows : rows[q].version < new.version,
         DomainPack!InOrder(rows) => DomainPack!OneAtATime(rows),
         new.status = "approved" /\ DomainPack!InOrder(rows) =>
            \A q \in DOMAIN rows : ~DomainPack!Effective(rows[q], new.from),
         NEW after, DOMAIN after = DOMAIN rows \cup {id}, after[id] = new,
         \A q \in DOMAIN rows : after[q] = rows[q],
         DomainPack!InOrder(after)
  PROVE  DomainPack!OneAtATime(after)
<1>1. DomainPack!InOrder(rows) /\ DomainPack!OneAtATime(rows)
  BY DEF DomainPack!InOrder
<1>2. \A q \in DOMAIN rows : rows[q].from <= new.from /\ rows[q].from \in Nat /\ rows[q].to \in Nat
  BY Dates DEF DomainPack!InOrder, IsTable
<1>3. new.from \in Nat /\ PackTimes \subseteq Nat
  BY Dates
<1>4. ASSUME NEW q \in DOMAIN rows, NEW t \in PackTimes,
             DomainPack!Effective(rows[q], t), DomainPack!Effective(new, t)
      PROVE  FALSE
  <2>1. new.status = "approved" /\ new.from <= t
    BY <1>4 DEF DomainPack!Effective
  <2>2. rows[q].status \in {"approved", "superseded"} /\ t < rows[q].to
    BY <1>4 DEF DomainPack!Effective
  <2>3. new.from < rows[q].to
    BY <2>1, <2>2, <1>2, <1>3
  <2>4. DomainPack!Effective(rows[q], new.from)
    BY <2>2, <2>3, <1>2 DEF DomainPack!Effective
  <2> QED BY <1>1, <2>1, <2>4
<1>5. ASSUME NEW p \in DOMAIN after, NEW q \in DOMAIN after, NEW t \in PackTimes,
             DomainPack!Effective(after[p], t), DomainPack!Effective(after[q], t)
      PROVE  p = q
  <2>1. CASE p = id \/ q = id
    BY <2>1, <1>4, <1>5
  <2>2. CASE p # id /\ q # id
    BY <2>2, <1>1, <1>5 DEF DomainPack!OneAtATime
  <2> QED BY <2>1, <2>2
<1> QED BY <1>5 DEF DomainPack!OneAtATime

LEMMA PacksAddRow ==
  ASSUME PacksInv, NEW h \in PackHandlers, DomainPack!AddRow(h)
  PROVE  PacksInv'
<1> DEFINE id == creating[h].id
           new == creating[h].new
<1>a. /\ PacksTyped
      /\ UNCHANGED <<packs, overlapped, presuperseded>>
      /\ Regular' = Regular
      /\ creating[h].pc = "addRow"
      /\ creating' = [creating EXCEPT ![h] = NotCreating]
      /\ IF DomainPack!Refused(id) THEN UNCHANGED <<packRows, created>>
         ELSE /\ packRows' = DomainPack!With(packRows, id, packs[id])
              /\ created' = created \cup {id}
  BY DEF Regular, PacksInv, DomainPack!AddRow, DomainPack!Fail, NotCreating
<1>b. /\ Creates(h) /\ creating[h] \in Creation /\ id \in PackIds /\ new \in DomainPack!Pack
      /\ id \in DOMAIN packs /\ packs[id] \in DomainPack!Pack
  <2>1. Creates(h) /\ creating[h] \in Creation
    BY <1>a DEF PacksTyped, Creates, NotCreating
  <2>2. id \in DOMAIN packs
    BY <1>a DEF PacksInv, AtHand
  <2> QED BY <2>1, <2>2, <1>a DEF PacksTyped, IsTable, Creation
<1>1. /\ ~Creates(h)' /\ AtHand(h)'
      /\ \A g \in PackHandlers : g # h => creating'[g] = creating[g]
      /\ creating' \in [PackHandlers -> Creation \cup {NotCreating}]
  BY <1>a DEF PacksTyped, Creates, AtHand, NotCreating
<1>2. ASSUME Regular
      PROVE  /\ CreationHolds(h)
             /\ (DomainPack!InOrder(packRows) => DomainPack!OneAtATime(packRows))
             /\ packs = DomainPack!With(packRows, id, new)
             /\ DOMAIN packs = DOMAIN packRows \cup {id} /\ packs[id] = new
             /\ \A q \in DOMAIN packRows : q # id /\ packs[q] = packRows[q]
             /\ \A q \in DOMAIN packRows : packRows[q].version < new.version
  <2>1. /\ CreationHolds(h)
        /\ (DomainPack!InOrder(packRows) => DomainPack!OneAtATime(packRows))
    BY <1>b, <1>2 DEF PacksInv, OneVersionAtATime
  <2>2. /\ packs = DomainPack!With(packRows, id, new) /\ id \notin DOMAIN packRows
        /\ \A q \in DOMAIN packRows : packRows[q].version < new.version
    BY <2>1, <1>a DEF CreationHolds
  <2>3. /\ DOMAIN packs = DOMAIN packRows \cup {id} /\ packs[id] = new
        /\ \A q \in DOMAIN packRows : packs[q] = packRows[q]
    <3> HIDE DEF id, new
    <3> QED BY <2>2 DEF DomainPack!With
  <2> QED BY <2>1, <2>2, <2>3
<1>3. CASE DomainPack!Refused(id)
  <2>1. UNCHANGED <<packRows, created>> BY <1>a, <1>3
  <2>2. ~Regular
    <3> SUFFICES ASSUME Regular PROVE FALSE
      OBVIOUS
    <3>1. PICK q \in DOMAIN packRows : packRows[q].version = packs[id].version
      BY <1>3 DEF DomainPack!Refused
    <3>2. packRows[q].version < new.version /\ packs[id] = new /\ packRows[q].version \in Nat
      BY <1>2, <1>a, Dates DEF PacksTyped, IsTable
    <3> QED BY <3>1, <3>2, <1>b, Dates
  <2>3. PacksTyped' BY <1>a, <1>1, <2>1 DEF PacksTyped, IsTable
  <2>4. VersionsHold' BY <1>a, <2>1, RowsStand
  <2> QED BY <1>a, <1>1, <2>2, <2>3, <2>4, PacksMove
<1>4. CASE ~DomainPack!Refused(id)
  <2>1. packRows' = DomainPack!With(packRows, id, packs[id]) /\ created' = created \cup {id}
    BY <1>a, <1>4
  <2>2. /\ DOMAIN packRows' = DOMAIN packRows \cup {id} /\ packRows'[id] = packs[id]
        /\ \A q \in DOMAIN packRows : q # id => packRows'[q] = packRows[q]
        /\ IsTable(packRows')
    <3>1. id \in PackIds /\ packs[id] \in DomainPack!Pack /\ IsTable(packRows)
      BY <1>a, <1>b DEF PacksTyped
    <3> HIDE DEF id
    <3>2. /\ DOMAIN packRows' = DOMAIN packRows \cup {id} /\ packRows'[id] = packs[id]
          /\ \A q \in DOMAIN packRows : q # id => packRows'[q] = packRows[q]
      BY <2>1 DEF DomainPack!With
    <3>3. packRows' = [q \in DOMAIN packRows \cup {id} |->
                         IF q = id THEN packs[id] ELSE packRows[q]]
      BY <2>1 DEF DomainPack!With
    <3>4. \A q \in DOMAIN packRows \cup {id} : packRows'[q] \in DomainPack!Pack
      BY <3>1, <3>2 DEF IsTable
    <3>5. packRows' \in [DOMAIN packRows' -> DomainPack!Pack]
      BY <3>2, <3>3, <3>4
    <3>6. DOMAIN packRows' \subseteq PackIds
      BY <3>1, <3>2 DEF IsTable
    <3>7. IsTable(packRows')
      BY <3>5, <3>6 DEF IsTable
    <3> QED BY <3>2, <3>7
  <2>3. PacksTyped' BY <1>a, <1>1, <2>2 DEF PacksTyped, IsTable
  <2>4. VersionsHold'
    <3>1. \A q \in DOMAIN packRows : q # id => packRows[q].version # packs[id].version
      BY <1>4 DEF DomainPack!Refused
    <3> HIDE DEF id
    <3> QED BY <3>1, <2>1, <2>2 DEF PacksInv, VersionsHold
  <2>5. ASSUME Regular
        PROVE  /\ packs' = packRows'
               /\ (DomainPack!InOrder(packRows)' => DomainPack!OneAtATime(packRows)')
    <3>1. packs' = packRows'
      <4> HIDE DEF id, new
      <4> QED BY <1>2, <1>a, <2>1, <2>5
    <3>2. ASSUME DomainPack!InOrder(packs) PROVE DomainPack!OneAtATime(packs)
      <4>1. /\ IsTable(packRows) /\ id \notin DOMAIN packRows
            /\ new.status # "superseded" /\ IsClear(creating[h].new)
        BY <1>2, <1>a, <2>5 DEF CreationHolds, PacksTyped
      <4>2. new.status = "approved" /\ DomainPack!InOrder(packRows) =>
              \A q \in DOMAIN packRows : ~DomainPack!Effective(packRows[q], new.from)
        BY <4>1 DEF IsClear
      <4> HIDE DEF id, new
      <4> QED BY <1>2, <1>b, <2>5, <3>2, <4>1, <4>2, AddedRow
    <3> QED BY <3>1, <3>2, <1>a DEF DomainPack!InOrder, DomainPack!OneAtATime
  <2> QED BY <1>a, <1>b, <1>1, <2>3, <2>4, <2>5, PacksMove
<1> QED BY <1>3, <1>4

LEMMA PacksRestart ==
  ASSUME PacksInv, DomainPack!Restart
  PROVE  PacksInv'
<1>a. /\ PacksTyped
      /\ packs' = packRows
      /\ UNCHANGED <<packRows, created, overlapped, presuperseded>>
      /\ Regular' = Regular
      /\ creating' = [h \in PackHandlers |-> NotCreating]
  BY DEF Regular, PacksInv, DomainPack!Restart, NotCreating
<1>1. PacksTyped'
  BY <1>a DEF PacksTyped, IsTable
<1>2. \A h \in PackHandlers : ~Creates(h)' /\ AtHand(h)'
  BY <1>a DEF Creates, AtHand, NotCreating
<1>3. /\ VersionsHold'
      /\ (Regular' => (DomainPack!InOrder(packRows)' => DomainPack!OneAtATime(packRows)'))
  BY <1>a, RowsStand
<1> QED BY <1>a, <1>1, <1>2, <1>3 DEF PacksInv, OneVersionAtATime

LEMMA PacksNext == PacksInv /\ DomainPack!Next => PacksInv'
<1> SUFFICES ASSUME PacksInv, DomainPack!Next PROVE PacksInv'
  OBVIOUS
<1>1. CASE DomainPack!Restart
  BY <1>1, PacksRestart
<1>2. ASSUME NEW h \in PackHandlers, NEW id \in PackIds, NEW asked \in PackStatuses,
             NEW from \in PackTimes, NEW to \in PackTimes \cup {DomainPack!Unbounded},
             DomainPack!Check(h, id, asked, from, to)
      PROVE  PacksInv'
  BY <1>2, PacksCheck
<1>3. ASSUME NEW h \in PackHandlers,
             \/ DomainPack!Close(h) \/ DomainPack!CloseRow(h)
             \/ DomainPack!Add(h) \/ DomainPack!AddRow(h)
      PROVE  PacksInv'
  BY <1>3, PacksClose, PacksCloseRow, PacksAdd, PacksAddRow
<1> QED BY <1>1, <1>2, <1>3 DEF DomainPack!Next

LEMMA PacksStutter == PacksInv /\ UNCHANGED packVars => PacksInv'
<1> SUFFICES ASSUME PacksInv, UNCHANGED packVars PROVE PacksInv'
  OBVIOUS
<1>a. /\ UNCHANGED <<packs, packRows, creating, created, overlapped, presuperseded>>
      /\ Regular' = Regular
  BY DEF Regular, packVars
<1>1. PacksTyped' /\ \A h \in PackHandlers : AtHand(h)'
  BY <1>a DEF PacksInv, PacksTyped, IsTable, AtHand
<1>2. /\ VersionsHold'
      /\ (Regular' => (DomainPack!InOrder(packRows)' => DomainPack!OneAtATime(packRows)'))
      /\ \A new : IsClear(new) => IsClear(new)'
  BY <1>a, RowsStand
<1>3. ASSUME NEW h \in PackHandlers, CreationHolds(h) PROVE CreationHolds(h)'
  <2>1. creating[h].pc \in {"add", "addRow"} => IsClear(creating[h].new)'
    BY <1>a, <1>3 DEF CreationHolds, IsClear, DomainPack!InOrder
  <2> QED BY <1>a, <1>3, <2>1 DEF CreationHolds, DomainPack!With
<1> QED BY <1>a, <1>1, <1>2, <1>3 DEF PacksInv, OneVersionAtATime, Creates

\* For all statuses that requests may ask for: the versions of a pack are created
\* once, whatever races; without overlap, when none is superseded from the start and
\* they take effect in the order of their numbers, no two are in force at the same
\* time, whatever fails or is cut short.
THEOREM PackHistoryIsLinear == Spec => []HistoryIsLinear
<1> DEFINE Inv == On("packs") => PacksInv
<1>1. Init => Inv
  BY PacksInit DEF Init, On
<1>2. Inv /\ [Next]_vars => Inv'
  <2> SUFFICES ASSUME Inv, [Next]_vars, part' = "packs" PROVE PacksInv'
    BY DEF On
  <2> QED BY OnePart, PacksNext, PacksStutter DEF On
<1>3. Inv => HistoryIsLinear
  <2> SUFFICES ASSUME PacksInv PROVE DomainPack!HistoryIsLinear
    BY DEF HistoryIsLinear
  <2>1. DomainPack!VersionsOnce
    BY DEF PacksInv, VersionsHold, DomainPack!VersionsOnce
  <2>2. DomainPack!IntervalsDisjoint
    BY DEF Regular, PacksInv, OneVersionAtATime, DomainPack!InOrder,
           DomainPack!OneAtATime, DomainPack!IntervalsDisjoint
  <2> QED BY <2>1, <2>2 DEF DomainPack!HistoryIsLinear
<1> QED BY <1>1, <1>2, <1>3, PTL DEF Spec

-----------------------------------------------------------------------------
(* Episodes.                                                               *)

Delivery == [pc : {"add", "commit"}, episode : Episode!Episode]

EpisodesTyped ==
    /\ episodes \in Seq(Episode!Episode)
    /\ episodeRows \in SUBSET Episode!Episode /\ IsFiniteSet(episodeRows)
    /\ delivering \in [Deliverers -> Delivery \cup {Episode!Idle}]
    /\ interleaved \in BOOLEAN

InMemory(e) == \E i \in DOMAIN episodes : episodes[i] = e

\* The unique index, what it keeps in memory, and the answers it makes good.
IndexHolds ==
    /\ \A e, f \in episodeRows : e.key = f.key /\ e.key # NoKey => e = f
    /\ \A e \in episodeRows : InMemory(e)
    /\ \A h \in Deliverers :
          delivering[h].pc = "commit" => InMemory(delivering[h].episode)
    /\ \A a \in answers : a.created =>
          a.key # NoKey /\ \E e \in episodeRows : e.key = a.key /\ e.id = a.id

Delivers(h) == delivering[h].pc # "idle"

\* Deliveries that never overlap: memory shows what is stored and what is about
\* to be, which no stored episode keeps out; every answer is stored.
InTurn ==
    /\ \A g, h \in Deliverers : Delivers(g) /\ Delivers(h) => g = h
    /\ \A i \in DOMAIN episodes :
          \/ episodes[i] \in episodeRows
          \/ \E h \in Deliverers :
                delivering[h].pc = "commit" /\ delivering[h].episode = episodes[i]
    /\ \A h \in Deliverers : Delivers(h) =>
          \A e \in episodeRows :
             delivering[h].episode.key # NoKey => e.key # delivering[h].episode.key
    /\ \A a \in answers :
          a.key # NoKey /\ \E e \in episodeRows : e.key = a.key /\ e.id = a.id

EpisodeInv == EpisodesTyped /\ IndexHolds /\ (~interleaved => InTurn)

LEMMA EpisodeInit == Episode!Init => EpisodeInv
<1> SUFFICES ASSUME Episode!Init PROVE EpisodeInv
  OBVIOUS
<1>1. EpisodesTyped
  <2>1. IsFiniteSet(episodeRows) BY FS_EmptySet DEF Episode!Init
  <2>2. episodes \in Seq(Episode!Episode) BY DEF Episode!Init
  <2> QED BY <2>1, <2>2 DEF Episode!Init, EpisodesTyped
<1>2. \A h \in Deliverers : delivering[h].pc = "idle"
  BY DEF Episode!Init, Episode!Idle
<1>3. IndexHolds
  BY <1>2 DEF Episode!Init, IndexHolds
<1>4. InTurn
  BY <1>2 DEF Episode!Init, InTurn, Delivers
<1> QED BY <1>1, <1>3, <1>4 DEF EpisodeInv

LEMMA EpisodeRepeats ==
  ASSUME EpisodeInv, NEW h \in Deliverers, NEW key \in EpisodeKeys \cup {NoKey},
         NEW checksum \in Checksums, Episode!Repeat(h, key, checksum)
  PROVE  EpisodeInv'
<1>a. /\ UNCHANGED <<episodes, episodeRows, delivering>>
      /\ interleaved' = (interleaved \/ Episode!Busy)
  BY DEF Episode!Repeat
<1>1. EpisodesTyped'
  BY <1>a DEF EpisodeInv, EpisodesTyped
<1>2. PICK i \in DOMAIN episodes :
          \/ Episode!IsFirst(i, Episode!WithKey(key)) /\ Episode!Answer(key, episodes[i], FALSE)
          \/ UNCHANGED answers
  BY DEF Episode!Repeat
<1>3. CASE UNCHANGED answers
  <2>1. IndexHolds' BY <1>a, <1>3 DEF EpisodeInv, IndexHolds, InMemory
  <2>2. ~interleaved' => InTurn' BY <1>a, <1>3 DEF EpisodeInv, InTurn, Delivers
  <2> QED BY <1>1, <2>1, <2>2 DEF EpisodeInv
<1>4. CASE Episode!IsFirst(i, Episode!WithKey(key)) /\ Episode!Answer(key, episodes[i], FALSE)
  <2>1. /\ key # NoKey /\ episodes[i].key = key
        /\ answers' = answers \cup {[key |-> key, id |-> episodes[i].id, created |-> FALSE]}
    BY <1>4 DEF Episode!IsFirst, Episode!WithKey, Episode!Answer
  <2>2. IndexHolds' BY <1>a, <2>1 DEF EpisodeInv, IndexHolds, InMemory
  <2>3. ASSUME ~interleaved' PROVE InTurn'
    <3>1. InTurn /\ \A g \in Deliverers : delivering[g].pc = "idle"
      BY <1>a, <2>3 DEF EpisodeInv, Episode!Busy
    <3>2. episodes[i] \in episodeRows
      BY <3>1 DEF InTurn
    <3>3. \A a \in answers' : a.key # NoKey /\ \E e \in episodeRows : e.key = a.key /\ e.id = a.id
      BY <2>1, <3>1, <3>2 DEF InTurn
    <3> QED BY <1>a, <3>1, <3>3 DEF InTurn, Delivers
  <2> QED BY <1>1, <2>2, <2>3 DEF EpisodeInv
<1> QED BY <1>2, <1>3, <1>4

LEMMA EpisodeBuilds ==
  ASSUME EpisodeInv, NEW h \in Deliverers, NEW key \in EpisodeKeys \cup {NoKey},
         NEW checksum \in Checksums, NEW id \in EpisodeIds, Episode!Build(h, id, key, checksum)
  PROVE  EpisodeInv'
<1> DEFINE new == [id |-> id, key |-> key, checksum |-> checksum]
<1>a. /\ UNCHANGED <<episodes, episodeRows, answers>>
      /\ interleaved' = (interleaved \/ Episode!Busy)
      /\ Episode!WithKey(key) = {} /\ delivering[h].pc = "idle"
      /\ delivering' = [delivering EXCEPT ![h] = [pc |-> "add", episode |-> new]]
  BY DEF Episode!Build
<1>b. new \in Episode!Episode /\ new.key = key
  BY DEF Episode!Episode
<1>1. /\ delivering'[h] = [pc |-> "add", episode |-> new]
      /\ \A g \in Deliverers : g # h => delivering'[g] = delivering[g]
  BY <1>a DEF EpisodeInv, EpisodesTyped
<1>2. EpisodesTyped'
  <2>1. [pc |-> "add", episode |-> new] \in Delivery BY <1>b DEF Delivery
  <2> HIDE DEF new
  <2> QED BY <1>a, <2>1 DEF EpisodeInv, EpisodesTyped
<1>3. IndexHolds'
  <2> HIDE DEF new
  <2> QED BY <1>a, <1>1 DEF EpisodeInv, IndexHolds, InMemory
<1>4. ASSUME ~interleaved' PROVE InTurn'
  <2>1. InTurn /\ \A g \in Deliverers : delivering[g].pc = "idle"
    BY <1>a, <1>4 DEF EpisodeInv, Episode!Busy
  <2>2. \A g \in Deliverers : Delivers(g)' => g = h
    BY <1>1, <2>1 DEF Delivers
  <2>3. \A i \in DOMAIN episodes : episodes[i] \in episodeRows
    BY <2>1 DEF InTurn
  <2>4. ASSUME NEW e \in episodeRows, key # NoKey PROVE e.key # key
    BY <1>a, <2>4 DEF EpisodeInv, IndexHolds, InMemory, Episode!WithKey
  <2>5. delivering'[h].episode.key = key
    BY <1>1, <1>b
  <2> HIDE DEF new
  <2> QED BY <1>a, <2>1, <2>2, <2>3, <2>4, <2>5 DEF InTurn
<1> QED BY <1>2, <1>3, <1>4 DEF EpisodeInv

LEMMA EpisodeAdds ==
  ASSUME EpisodeInv, NEW h \in Deliverers, Episode!AddEpisode(h)
  PROVE  EpisodeInv'
<1> DEFINE new == delivering[h].episode
<1>a. /\ UNCHANGED <<episodeRows, answers, interleaved>> /\ delivering[h].pc = "add"
      /\ episodes' = Append(episodes, new)
      /\ delivering' = [delivering EXCEPT ![h].pc = "commit"]
      /\ delivering[h] \in Delivery /\ EpisodesTyped
  BY DEF Episode!AddEpisode, EpisodeInv, EpisodesTyped, Episode!Idle
<1>b. new \in Episode!Episode
  BY <1>a DEF Delivery
<1>1. /\ delivering'[h] \in Delivery /\ delivering'[h].pc = "commit"
      /\ delivering'[h].episode = new
      /\ \A g \in Deliverers : g # h => delivering'[g] = delivering[g]
  BY <1>a DEF EpisodesTyped, Delivery
<1>2. /\ episodes' \in Seq(Episode!Episode)
      /\ DOMAIN episodes' = DOMAIN episodes \cup {Len(episodes) + 1}
      /\ \A i \in DOMAIN episodes : episodes'[i] = episodes[i]
      /\ episodes'[Len(episodes) + 1] = new
  <2> HIDE DEF new
  <2> QED BY <1>a, <1>b DEF EpisodesTyped
<1>3. EpisodesTyped'
  <2> HIDE DEF new
  <2>1. delivering' \in [Deliverers -> Delivery \cup {Episode!Idle}]
    BY <1>a, <1>1 DEF EpisodesTyped
  <2> QED BY <1>a, <1>2, <2>1 DEF EpisodesTyped
<1>4. IndexHolds'
  <2> HIDE DEF new
  <2>1. \A e : InMemory(e) => InMemory(e)' BY <1>2 DEF InMemory
  <2>2. \E i \in DOMAIN episodes' : episodes'[i] = delivering'[h].episode
    BY <1>1, <1>2
  <2>3. ASSUME NEW g \in Deliverers, delivering'[g].pc = "commit"
        PROVE  InMemory(delivering[g].episode)'
    <3>1. CASE g = h BY <2>2, <3>1 DEF InMemory
    <3>2. CASE g # h
      <4>1. InMemory(delivering[g].episode) /\ delivering'[g] = delivering[g]
        BY <1>1, <2>3, <3>2 DEF EpisodeInv, IndexHolds
      <4> QED BY <4>1, <1>2 DEF InMemory
    <3> QED BY <3>1, <3>2
  <2> QED BY <1>a, <2>1, <2>3 DEF EpisodeInv, IndexHolds
<1>5. ASSUME ~interleaved' PROVE InTurn'
  <2>1. InTurn BY <1>a, <1>5 DEF EpisodeInv
  <2>2. \A g \in Deliverers : Delivers(g)' => Delivers(g) /\ g = h
    BY <1>1, <1>a, <2>1 DEF Delivers, InTurn
  <2>3. \A i \in DOMAIN episodes : episodes[i] \in episodeRows
    BY <1>a, <2>1 DEF InTurn, Delivers
  <2>4. \A i \in DOMAIN episodes' : episodes'[i] \in episodeRows \/ episodes'[i] = new
    BY <1>2, <2>3
  <2> HIDE DEF new
  <2> QED BY <1>a, <1>1, <2>1, <2>2, <2>4 DEF InTurn, new
<1> QED BY <1>3, <1>4, <1>5 DEF EpisodeInv

LEMMA EpisodeCommits ==
  ASSUME EpisodeInv, NEW h \in Deliverers, Episode!CommitEpisode(h)
  PROVE  EpisodeInv'
<1> DEFINE new == delivering[h].episode
           refused == new.key # NoKey /\ \E e \in episodeRows : e.key = new.key
<1>a. /\ UNCHANGED <<episodes, interleaved>> /\ delivering[h].pc = "commit"
      /\ delivering' = [delivering EXCEPT ![h] = Episode!Idle]
      /\ delivering[h] \in Delivery /\ EpisodesTyped
      /\ IF refused THEN UNCHANGED <<episodeRows, answers>>
         ELSE episodeRows' = episodeRows \cup {new} /\ Episode!Answer(new.key, new, TRUE)
  <2>1. EpisodesTyped /\ delivering[h].pc = "commit"
    BY DEF Episode!CommitEpisode, EpisodeInv
  <2>2. delivering[h] \in Delivery
    BY <2>1 DEF EpisodesTyped, Episode!Idle
  <2>3. IF refused THEN UNCHANGED <<episodeRows, answers>>
        ELSE episodeRows' = episodeRows \cup {new} /\ Episode!Answer(new.key, new, TRUE)
    BY DEF Episode!CommitEpisode
  <2>4. UNCHANGED <<episodes, interleaved>> /\ delivering' = [delivering EXCEPT ![h] = Episode!Idle]
    BY DEF Episode!CommitEpisode
  <2> HIDE DEF new, refused
  <2> QED BY <2>1, <2>2, <2>3, <2>4
<1>b. new \in Episode!Episode
  BY <1>a DEF Delivery
<1>1. /\ delivering'[h].pc = "idle"
      /\ delivering' \in [Deliverers -> Delivery \cup {Episode!Idle}]
      /\ \A g \in Deliverers : g # h => delivering'[g] = delivering[g]
  BY <1>a DEF EpisodesTyped, Episode!Idle
<1>2. CASE refused
  <2>1. UNCHANGED <<episodeRows, answers>> BY <1>a, <1>2
  <2>2. EpisodesTyped' BY <1>a, <1>1, <2>1 DEF EpisodesTyped
  <2>3. IndexHolds' BY <1>a, <1>1, <2>1 DEF EpisodeInv, IndexHolds, InMemory
  <2>4. interleaved
    BY <1>2, <1>a DEF EpisodeInv, InTurn, Delivers
  <2> QED BY <1>a, <2>2, <2>3, <2>4 DEF EpisodeInv
<1>3. CASE ~refused
  <2>1. /\ episodeRows' = episodeRows \cup {new}
        /\ IF new.key = NoKey THEN answers' = answers
           ELSE answers' = answers \cup {[key |-> new.key, id |-> new.id, created |-> TRUE]}
    BY <1>a, <1>3 DEF Episode!Answer
  <2>2. EpisodesTyped'
    <3>1. IsFiniteSet(episodeRows')
      <4> HIDE DEF new, refused
      <4>1. IsFiniteSet(episodeRows) BY <1>a DEF EpisodesTyped
      <4>2. IsFiniteSet(episodeRows \cup {new}) BY <4>1, FS_AddElement
      <4> QED BY <2>1, <4>2
    <3> QED BY <3>1, <1>a, <1>b, <1>1, <2>1 DEF EpisodesTyped
  <2>3. IndexHolds'
    <3>1. \A e, f \in episodeRows' : e.key = f.key /\ e.key # NoKey => e = f
      BY <1>3, <2>1 DEF EpisodeInv, IndexHolds
    <3>2. \A e \in episodeRows' : InMemory(e)'
      BY <1>a, <2>1 DEF EpisodeInv, IndexHolds, InMemory
    <3>3. \A g \in Deliverers :
             delivering'[g].pc = "commit" => InMemory(delivering[g].episode)'
      <4> SUFFICES ASSUME NEW g \in Deliverers, delivering'[g].pc = "commit"
                   PROVE  InMemory(delivering[g].episode)'
        OBVIOUS
      <4>1. g # h /\ delivering'[g] = delivering[g] BY <1>1
      <4>2. InMemory(delivering[g].episode) BY <4>1 DEF EpisodeInv, IndexHolds
      <4> QED BY <1>a, <4>1, <4>2 DEF InMemory
    <3>4. \A a \in answers' : a.created =>
             a.key # NoKey /\ \E e \in episodeRows' : e.key = a.key /\ e.id = a.id
      BY <2>1 DEF EpisodeInv, IndexHolds
    <3> HIDE DEF new, refused
    <3> QED BY <3>1, <3>2, <3>3, <3>4 DEF IndexHolds
  <2>4. ASSUME ~interleaved' PROVE InTurn'
    <3>1. InTurn BY <1>a, <2>4 DEF EpisodeInv
    <3>2. \A g \in Deliverers : ~Delivers(g)'
      BY <1>1, <1>a, <3>1 DEF Delivers, InTurn
    <3>3. \A i \in DOMAIN episodes : episodes[i] \in episodeRows'
      BY <1>a, <2>1, <3>1 DEF InTurn, Delivers
    <3>4. \A a \in answers' :
             a.key # NoKey /\ \E e \in episodeRows' : e.key = a.key /\ e.id = a.id
      BY <2>1, <3>1 DEF InTurn
    <3> HIDE DEF new, refused
    <3> QED BY <1>a, <3>2, <3>3, <3>4 DEF InTurn
  <2> QED BY <2>2, <2>3, <2>4 DEF EpisodeInv
<1> QED BY <1>2, <1>3

\* The rows come back in some order, all of them.
LEMMA EpisodesReload ==
  ASSUME NEW S, IsFiniteSet(S), NEW s \in Episode!SetToSeqs(S)
  PROVE  /\ s \in Seq(S)
         /\ \A e \in S : \E i \in DOMAIN s : s[i] = e
<1> DEFINE n == Cardinality(S)
<1>1. n \in Nat BY FS_CardinalityType
<1>2. s \in [1 .. n -> S] /\ \A i, j \in 1 .. n : i # j => s[i] # s[j]
  BY DEF Episode!SetToSeqs, Episode!Cardinality, Cardinality
<1>3. s \in Injection(1 .. n, S)
  BY <1>2 DEF Injection, IsInjective
<1>4. Cardinality(1 .. n) = n
  BY <1>1, FS_Interval
<1>5. s \in Surjection(1 .. n, S)
  BY <1>3, <1>4, FS_Injection
<1> QED BY <1>1, <1>2, <1>5 DEF Surjection

LEMMA EpisodeRestarts ==
  ASSUME EpisodeInv, Episode!RestartEpisodes
  PROVE  EpisodeInv'
<1>a. /\ UNCHANGED <<episodeRows, answers, interleaved>> /\ EpisodesTyped
      /\ delivering' = [h \in Deliverers |-> Episode!Idle]
      /\ episodes' \in Episode!SetToSeqs(episodeRows)
  BY DEF Episode!RestartEpisodes, EpisodeInv
<1>1. /\ episodes' \in Seq(episodeRows)
      /\ \A e \in episodeRows : \E i \in DOMAIN episodes' : episodes'[i] = e
  BY <1>a, EpisodesReload DEF EpisodesTyped
<1>2. /\ \A h \in Deliverers : delivering'[h].pc = "idle"
      /\ \A i \in DOMAIN episodes' : episodes'[i] \in episodeRows
  BY <1>a, <1>1 DEF Episode!Idle
<1>3. EpisodesTyped'
  BY <1>a, <1>1 DEF EpisodesTyped
<1>4. IndexHolds'
  BY <1>a, <1>1, <1>2 DEF EpisodeInv, IndexHolds, InMemory
<1>5. ~interleaved' => InTurn'
  BY <1>a, <1>2 DEF EpisodeInv, InTurn, Delivers
<1> QED BY <1>3, <1>4, <1>5 DEF EpisodeInv

LEMMA EpisodeNext == EpisodeInv /\ Episode!Next => EpisodeInv'
BY EpisodeRestarts, EpisodeRepeats, EpisodeBuilds, EpisodeAdds, EpisodeCommits
DEF Episode!Next

LEMMA EpisodeStutters == EpisodeInv /\ UNCHANGED episodeVars => EpisodeInv'
BY DEF episodeVars, EpisodeInv, EpisodesTyped, IndexHolds, InMemory, InTurn, Delivers

\* However deliveries are raced, retried or cut short, a key has one episode.
THEOREM KeysHaveOneEpisode == Spec => []DeliveriesAgree
<1> DEFINE Inv == On("episodes") => EpisodeInv
<1>1. Init => Inv
  BY EpisodeInit DEF Init, On
<1>2. Inv /\ [Next]_vars => Inv'
  <2> SUFFICES ASSUME Inv, [Next]_vars, part' = "episodes" PROVE EpisodeInv'
    BY DEF On
  <2> QED BY OnePart, EpisodeNext, EpisodeStutters DEF On
<1>3. Inv => DeliveriesAgree
  BY DEF EpisodeInv, IndexHolds, InTurn, DeliveriesAgree, Episode!DeliveriesAgree,
         Episode!CreatedOnce, Episode!RetriesAgree
<1> QED BY <1>1, <1>2, <1>3, PTL DEF Spec

-----------------------------------------------------------------------------
(* The backfill.                                                           *)

LegacyRow == [object : Objects, by : Nat]

Process == [pc : {"scan", "episode", "memory", "dead"}, no : Nat, dry : BOOLEAN,
            left : SUBSET Objects, at : SUBSET Objects, episodes : SUBSET LegacyRow,
            memories : SUBSET LegacyRow, report : Backfill!Report, scanned : SUBSET Objects]

RunsTyped ==
    /\ backEpisodes \in SUBSET LegacyRow
    /\ backMemories \in SUBSET LegacyRow
    /\ run \in [Runs -> Process \cup {Backfill!Dead}]
    /\ overlap \in BOOLEAN
    /\ starts \in Nat

Alive(r) == run[r].pc # "dead"

\* What a run read at its start, or stored since, is in the tables.
CopyHolds(r) ==
    /\ run[r].episodes \subseteq backEpisodes
    /\ run[r].memories \subseteq backMemories

\* A run migrates one object at a time, of those it has left; its memory
\* comes after its episode.
OneAtHand(r) ==
    /\ run[r].pc # "scan" => /\ run[r].at \subseteq run[r].left
                             /\ \A a, b \in run[r].at : a = b
    /\ run[r].pc = "memory" => \A o \in run[r].at : Backfill!HasObject(backEpisodes, o)

ReportHolds(r) ==
    \A o \in Objects : run[r].report[o] \in {"migrated", "skipped"}
                       => Backfill!HasObject(backMemories, o)

EpisodesAreOnce == \A a, b \in backEpisodes : a.object = b.object => a = b
MemoriesFollow == \A m \in backMemories : Backfill!HasObject(backEpisodes, m.object)

\* Runs that never overlap: a run sees every memory of the objects it has left.
NothingUnseen ==
    /\ \A a, b \in backMemories : a.object = b.object => a = b
    /\ \A q, r \in Runs : Alive(q) /\ Alive(r) => q = r
    /\ \A r \in Runs : Alive(r) =>
          \A m \in backMemories : m \in run[r].memories \/ m.object \notin run[r].left

BackfillInv ==
    /\ RunsTyped
    /\ EpisodesAreOnce
    /\ MemoriesFollow
    /\ \A r \in Runs : Alive(r) => CopyHolds(r) /\ OneAtHand(r) /\ ReportHolds(r)
    /\ ~overlap => NothingUnseen

LEMMA BackfillInit == Backfill!Init => BackfillInv
<1> SUFFICES ASSUME Backfill!Init PROVE BackfillInv
  OBVIOUS
<1>1. RunsTyped BY DEF Backfill!Init, RunsTyped
<1>2. \A r \in Runs : ~Alive(r) BY DEF Backfill!Init, Alive, Backfill!Dead
<1>3. EpisodesAreOnce /\ MemoriesFollow BY DEF Backfill!Init, EpisodesAreOnce, MemoriesFollow
<1>4. NothingUnseen BY <1>2 DEF Backfill!Init, NothingUnseen
<1> QED BY <1>1, <1>2, <1>3, <1>2, <1>4 DEF BackfillInv

LEMMA BackfillStart ==
  ASSUME BackfillInv, NEW r \in Runs, NEW dry \in BOOLEAN, NEW limit \in 0 .. MaxLimit,
         Backfill!Start(r, dry, limit)
  PROVE  BackfillInv'
<1>1. PICK scanned \in SUBSET Objects :
         run' = [run EXCEPT ![r] =
               [pc |-> "scan", no |-> starts, dry |-> dry, left |-> scanned, at |-> {},
                episodes |-> backEpisodes, memories |-> backMemories,
                report |-> [o \in Objects |-> "none"], scanned |-> scanned]]
  BY DEF Backfill!Start
<1>2. RunsTyped'
  <2>1. [pc |-> "scan", no |-> starts, dry |-> dry, left |-> scanned, at |-> {},
         episodes |-> backEpisodes, memories |-> backMemories,
         report |-> [o \in Objects |-> "none"], scanned |-> scanned] \in Process
    BY DEF BackfillInv, RunsTyped, Process, Backfill!Report, Backfill!Actions
  <2>2. run' \in [Runs -> Process \cup {Backfill!Dead}]
    BY <1>1, <2>1 DEF BackfillInv, RunsTyped
  <2>3. overlap' \in BOOLEAN /\ starts' \in Nat
    BY DEF BackfillInv, RunsTyped, Backfill!Start
  <2> QED BY <2>2, <2>3 DEF BackfillInv, RunsTyped, Backfill!Start
<1>3. EpisodesAreOnce' /\ MemoriesFollow'
  BY DEF Backfill!Start, BackfillInv, EpisodesAreOnce, MemoriesFollow, Backfill!HasObject
<1>4. \A q \in Runs : Alive(q)' => CopyHolds(q)' /\ OneAtHand(q)' /\ ReportHolds(q)'
  BY <1>1 DEF Backfill!Start, BackfillInv, RunsTyped, Alive, CopyHolds, OneAtHand, ReportHolds,
              Backfill!HasObject
<1>5. ~overlap' => NothingUnseen'
  BY <1>1 DEF Backfill!Start, BackfillInv, RunsTyped, Alive, NothingUnseen
<1> QED BY <1>2, <1>3, <1>4, <1>5 DEF BackfillInv

\* An object is answered: the run goes on with what it has left.
LEMMA BackfillAnswered ==
  ASSUME BackfillInv, NEW r \in Runs, Alive(r), NEW o \in run[r].left,
         NEW action \in Backfill!Actions, Backfill!Answered(r, o, action),
         UNCHANGED <<backEpisodes, overlap, starts>>,
         backMemories \subseteq backMemories', backMemories' \subseteq LegacyRow,
         MemoriesFollow',
         action \in {"migrated", "skipped"} => Backfill!HasObject(backMemories', o),
         ~overlap => \A m \in backMemories' \ backMemories :
             m.object = o /\ ~Backfill!HasObject(backMemories, o)
             /\ \A n \in backMemories' \ backMemories : m = n
  PROVE  BackfillInv'
<1>1. run[r] \in Process /\ o \in Objects
  BY DEF BackfillInv, RunsTyped, Alive, Backfill!Dead, Process
<1>a. RunsTyped /\ run \in [Runs -> Process \cup {Backfill!Dead}]
  BY DEF BackfillInv, RunsTyped
<1>2. \A q \in Runs : q # r => run'[q] = run[q]
  BY <1>a DEF Backfill!Answered
<1>4. /\ run'[r].episodes = run[r].episodes /\ run'[r].memories = run[r].memories
      /\ run'[r].pc = "scan" /\ run'[r].left = run[r].left \ {o}
      /\ run'[r].at = {} /\ run'[r].no = run[r].no /\ run'[r].dry = run[r].dry
      /\ run'[r].scanned = run[r].scanned
      /\ run'[r].report = [run[r].report EXCEPT ![o] = action]
  BY <1>1, <1>a DEF Backfill!Answered, Process
<1>3. RunsTyped'
  <2>1. run'[r] \in Process
    BY <1>1, <1>a DEF Backfill!Answered, Process, Backfill!Report
  <2>2. run' \in [Runs -> Process \cup {Backfill!Dead}]
    BY <1>a, <2>1 DEF Backfill!Answered
  <2> QED BY <1>a, <2>2 DEF RunsTyped
<1>5. EpisodesAreOnce' BY DEF BackfillInv, EpisodesAreOnce
<1>6. ASSUME NEW q \in Runs, Alive(q)' PROVE CopyHolds(q)' /\ OneAtHand(q)' /\ ReportHolds(q)'
  <2>1. Alive(q) BY <1>6, <1>2, <1>4 DEF Alive
  <2>2. CopyHolds(q)' BY <2>1, <1>2, <1>4 DEF BackfillInv, CopyHolds
  <2>3. OneAtHand(q)' BY <2>1, <1>2, <1>4 DEF BackfillInv, OneAtHand, Backfill!HasObject
  <2>4. ReportHolds(q)'
    BY <2>1, <1>1, <1>2, <1>4 DEF BackfillInv, ReportHolds, Backfill!HasObject, Process, Backfill!Report
  <2> QED BY <2>2, <2>3, <2>4
<1>7. ~overlap' => NothingUnseen'
  BY <1>2, <1>4 DEF BackfillInv, NothingUnseen, Alive, Backfill!HasObject
<1> QED BY <1>3, <1>5, <1>6, <1>7 DEF BackfillInv

LEMMA BackfillMigrate ==
  ASSUME BackfillInv, NEW r \in Runs, Backfill!Migrate(r)
  PROVE  BackfillInv'
<1>a. RunsTyped /\ Alive(r) /\ run \in [Runs -> Process \cup {Backfill!Dead}]
  BY DEF BackfillInv, RunsTyped, Backfill!Migrate, Alive
<1>b. run[r] \in Process
  BY <1>a DEF Alive, Backfill!Dead
<1>1. PICK o \in run[r].left :
         LET done == Backfill!HasObject(run[r].episodes, o)
                     /\ Backfill!HasObject(run[r].memories, o)
          IN \/ done /\ Backfill!Answered(r, o, "skipped")
             \/ /\ ~done /\ run[r].dry
                /\ Backfill!Answered(r, o, IF o \in Unmapped THEN "ambiguous" ELSE "planned")
             \/ /\ ~done /\ ~run[r].dry
                /\ run' = [run EXCEPT ![r].pc = "episode", ![r].at = {o}]
  BY DEF Backfill!Migrate
<1>c. UNCHANGED <<backEpisodes, backMemories, overlap, starts>> /\ run[r].pc = "scan"
  BY DEF Backfill!Migrate
<1>d. backMemories' = backMemories /\ backMemories' \subseteq LegacyRow /\ MemoriesFollow'
  BY <1>a, <1>c DEF BackfillInv, RunsTyped, MemoriesFollow, Backfill!HasObject
<1>2. CASE /\ Backfill!HasObject(run[r].memories, o)
           /\ Backfill!Answered(r, o, "skipped")
  <2>1. Backfill!HasObject(backMemories', o)
    BY <1>2, <1>a, <1>c DEF BackfillInv, CopyHolds, Backfill!HasObject
  <2> QED BY <1>2, <1>a, <1>c, <1>d, <2>1, BackfillAnswered DEF Backfill!Actions
<1>3. CASE Backfill!Answered(r, o, IF o \in Unmapped THEN "ambiguous" ELSE "planned")
  BY <1>3, <1>a, <1>c, <1>d, BackfillAnswered DEF Backfill!Actions
<1>4. CASE run' = [run EXCEPT ![r].pc = "episode", ![r].at = {o}]
  <2>1. /\ run'[r].episodes = run[r].episodes /\ run'[r].memories = run[r].memories
        /\ run'[r].pc = "episode" /\ run'[r].left = run[r].left
        /\ run'[r].at = {o} /\ run'[r].report = run[r].report /\ run'[r] \in Process
    BY <1>a, <1>b, <1>4 DEF Process
  <2>2. \A q \in Runs : q # r => run'[q] = run[q]
    BY <1>a, <1>4
  <2>3. RunsTyped'
    <3>1. run' \in [Runs -> Process \cup {Backfill!Dead}] BY <1>a, <2>1, <1>4
    <3> QED BY <3>1, <1>a, <1>c DEF RunsTyped
  <2>4. EpisodesAreOnce' BY <1>c DEF BackfillInv, EpisodesAreOnce
  <2>5. ASSUME NEW q \in Runs, Alive(q)' PROVE CopyHolds(q)' /\ OneAtHand(q)' /\ ReportHolds(q)'
    <3>1. Alive(q) BY <2>1, <2>2, <2>5, <1>a DEF Alive
    <3>2. CopyHolds(q)' BY <3>1, <2>1, <2>2, <1>c DEF BackfillInv, CopyHolds
    <3>3. OneAtHand(q)' BY <3>1, <2>1, <2>2, <1>c DEF BackfillInv, OneAtHand, Backfill!HasObject
    <3>4. ReportHolds(q)'
      BY <3>1, <2>1, <2>2, <1>c DEF BackfillInv, ReportHolds, Backfill!HasObject
    <3> QED BY <3>2, <3>3, <3>4
  <2>6. ~overlap' => NothingUnseen'
    BY <2>1, <2>2, <1>a, <1>c DEF BackfillInv, NothingUnseen, Alive
  <2> QED BY <2>3, <2>4, <1>d, <2>5, <2>6 DEF BackfillInv
<1> QED BY <1>1, <1>2, <1>3, <1>4

LEMMA BackfillIngest ==
  ASSUME BackfillInv, NEW r \in Runs, Backfill!IngestLegacy(r)
  PROVE  BackfillInv'
<1>a. /\ RunsTyped /\ Alive(r) /\ run \in [Runs -> Process \cup {Backfill!Dead}]
      /\ run[r].pc = "episode" /\ UNCHANGED <<backMemories, overlap, starts>>
  BY DEF BackfillInv, RunsTyped, Backfill!IngestLegacy, Alive
<1>b. run[r] \in Process
  BY <1>a DEF Alive, Backfill!Dead
<1>1. PICK o \in run[r].at :
          \/ /\ Backfill!HasObject(run[r].episodes, o)
             /\ run' = [run EXCEPT ![r].pc = "memory"]
             /\ UNCHANGED backEpisodes
          \/ /\ ~Backfill!HasObject(run[r].episodes, o) /\ Backfill!HasObject(backEpisodes, o)
             /\ Backfill!Answered(r, o, "failed")
             /\ UNCHANGED backEpisodes
          \/ /\ ~Backfill!HasObject(run[r].episodes, o) /\ ~Backfill!HasObject(backEpisodes, o)
             /\ backEpisodes' = backEpisodes \cup {[object |-> o, by |-> run[r].no]}
             /\ run' = [run EXCEPT ![r].pc = "memory",
                          ![r].episodes = @ \cup {[object |-> o, by |-> run[r].no]}]
  BY DEF Backfill!IngestLegacy
<1>c. o \in run[r].left /\ o \in Objects /\ \A a \in run[r].at : a = o
  BY <1>a, <1>b DEF BackfillInv, OneAtHand, Process
<1>2. CASE Backfill!Answered(r, o, "failed") /\ UNCHANGED backEpisodes
  <2>1. backMemories' \subseteq LegacyRow /\ MemoriesFollow'
    BY <1>a, <1>2 DEF BackfillInv, RunsTyped, MemoriesFollow, Backfill!HasObject
  <2> QED BY <1>2, <1>a, <1>c, <2>1, BackfillAnswered DEF Backfill!Actions
<1>3. ASSUME /\ backEpisodes \subseteq backEpisodes'
             /\ run'[r].episodes \subseteq backEpisodes'
             /\ EpisodesAreOnce'
             /\ backEpisodes' \subseteq LegacyRow
             /\ Backfill!HasObject(backEpisodes', o)
             /\ run' \in [Runs -> Process \cup {Backfill!Dead}]
             /\ run'[r].memories = run[r].memories /\ run'[r].pc = "memory"
             /\ run'[r].at = run[r].at /\ run'[r].left = run[r].left
             /\ run'[r].report = run[r].report
             /\ \A q \in Runs : q # r => run'[q] = run[q]
      PROVE  BackfillInv'
  <2>1. RunsTyped' BY <1>a, <1>3 DEF RunsTyped
  <2>2. MemoriesFollow' BY <1>a, <1>3 DEF BackfillInv, MemoriesFollow, Backfill!HasObject
  <2>3. ASSUME NEW q \in Runs, Alive(q)' PROVE CopyHolds(q)' /\ OneAtHand(q)' /\ ReportHolds(q)'
    <3>1. Alive(q) BY <1>3, <2>3, <1>a DEF Alive
    <3>2. CopyHolds(q)' BY <3>1, <1>3, <1>a DEF BackfillInv, CopyHolds
    <3>3. OneAtHand(q)' BY <3>1, <1>3, <1>a, <1>c DEF BackfillInv, OneAtHand, Backfill!HasObject
    <3>4. ReportHolds(q)'
      BY <3>1, <1>3, <1>a DEF BackfillInv, ReportHolds, Backfill!HasObject
    <3> QED BY <3>2, <3>3, <3>4
  <2>4. ~overlap' => NothingUnseen'
    BY <1>3, <1>a DEF BackfillInv, NothingUnseen, Alive
  <2> QED BY <1>3, <2>1, <2>2, <2>3, <2>4 DEF BackfillInv
<1>4. CASE /\ Backfill!HasObject(run[r].episodes, o)
           /\ run' = [run EXCEPT ![r].pc = "memory"]
           /\ UNCHANGED backEpisodes
  <2>1. /\ run'[r].episodes = run[r].episodes /\ run'[r].memories = run[r].memories
        /\ run'[r].pc = "memory" /\ run'[r].left = run[r].left
        /\ run'[r].at = run[r].at /\ run'[r].report = run[r].report /\ run'[r] \in Process
        /\ \A q \in Runs : q # r => run'[q] = run[q]
    BY <1>a, <1>b, <1>4 DEF Process
  <2>2. run' \in [Runs -> Process \cup {Backfill!Dead}] BY <1>a, <2>1, <1>4
  <2>3. run'[r].episodes \subseteq backEpisodes' /\ Backfill!HasObject(backEpisodes', o)
    BY <2>1, <1>4, <1>a DEF BackfillInv, CopyHolds, Backfill!HasObject
  <2>4. EpisodesAreOnce' /\ backEpisodes' \subseteq LegacyRow
    BY <1>4, <1>a DEF BackfillInv, EpisodesAreOnce, RunsTyped
  <2> QED BY <1>3, <1>4, <2>1, <2>2, <2>3, <2>4
<1>5. CASE /\ ~Backfill!HasObject(backEpisodes, o)
           /\ backEpisodes' = backEpisodes \cup {[object |-> o, by |-> run[r].no]}
           /\ run' = [run EXCEPT ![r].pc = "memory",
                        ![r].episodes = @ \cup {[object |-> o, by |-> run[r].no]}]
  <2>0. [object |-> o, by |-> run[r].no] \in LegacyRow
    BY <1>b, <1>c DEF Process, LegacyRow
  <2>1. /\ run'[r].episodes = run[r].episodes \cup {[object |-> o, by |-> run[r].no]}
        /\ run'[r].memories = run[r].memories
        /\ run'[r].pc = "memory" /\ run'[r].left = run[r].left
        /\ run'[r].at = run[r].at /\ run'[r].report = run[r].report
        /\ \A q \in Runs : q # r => run'[q] = run[q]
    BY <1>a, <1>b, <1>5 DEF Process
  <2>a. run'[r] \in Process
    BY <1>a, <1>b, <1>5, <2>0 DEF Process
  <2>2. run' \in [Runs -> Process \cup {Backfill!Dead}] BY <1>a, <2>a, <1>5
  <2>b. [object |-> o, by |-> run[r].no] \in backEpisodes'
    BY <1>5
  <2>3. run'[r].episodes \subseteq backEpisodes' /\ Backfill!HasObject(backEpisodes', o)
    <3>1. run[r].episodes \subseteq backEpisodes
      BY <1>a DEF BackfillInv, CopyHolds
    <3>2. Backfill!HasObject(backEpisodes', o)
      BY <2>b DEF Backfill!HasObject
    <3> QED BY <3>1, <3>2, <2>1, <1>5
  <2>4. EpisodesAreOnce' /\ backEpisodes' \subseteq LegacyRow
    BY <1>5, <1>a, <2>0 DEF BackfillInv, EpisodesAreOnce, RunsTyped, Backfill!HasObject
  <2> QED BY <1>3, <1>5, <2>1, <2>2, <2>3, <2>4
<1> QED BY <1>1, <1>2, <1>4, <1>5

LEMMA BackfillPromote ==
  ASSUME BackfillInv, NEW r \in Runs, Backfill!PromoteLegacy(r)
  PROVE  BackfillInv'
<1>a. /\ RunsTyped /\ Alive(r) /\ run \in [Runs -> Process \cup {Backfill!Dead}]
      /\ run[r].pc = "memory" /\ UNCHANGED <<backEpisodes, overlap, starts>>
  BY DEF BackfillInv, RunsTyped, Backfill!PromoteLegacy, Alive
<1>b. run[r] \in Process
  BY <1>a DEF Alive, Backfill!Dead
<1>1. PICK o \in run[r].at :
          /\ IF Backfill!HasObject(run[r].memories, o) THEN UNCHANGED backMemories
             ELSE backMemories' = backMemories \cup {[object |-> o, by |-> run[r].no]}
          /\ Backfill!Answered(r, o, IF o \in Unmapped THEN "ambiguous" ELSE "migrated")
  BY DEF Backfill!PromoteLegacy
<1>c. /\ o \in run[r].left /\ o \in Objects /\ [object |-> o, by |-> run[r].no] \in LegacyRow
      /\ Backfill!HasObject(backEpisodes, o)
  BY <1>a, <1>b DEF BackfillInv, OneAtHand, Process, LegacyRow
<1>2. /\ backMemories \subseteq backMemories' /\ backMemories' \subseteq LegacyRow
      /\ \A m \in backMemories' \ backMemories : m = [object |-> o, by |-> run[r].no]
  BY <1>1, <1>a, <1>c DEF RunsTyped
<1>3. MemoriesFollow'
  BY <1>2, <1>a, <1>c DEF BackfillInv, MemoriesFollow, Backfill!HasObject
<1>4. Backfill!HasObject(backMemories', o)
  <2>1. CASE Backfill!HasObject(run[r].memories, o)
    <3>1. run[r].memories \subseteq backMemories
      BY <1>a DEF BackfillInv, CopyHolds
    <3> QED BY <2>1, <3>1, <1>2 DEF Backfill!HasObject
  <2>2. CASE ~Backfill!HasObject(run[r].memories, o)
    <3>1. [object |-> o, by |-> run[r].no] \in backMemories'
      BY <1>1, <2>2
    <3> QED BY <3>1 DEF Backfill!HasObject
  <2> QED BY <2>1, <2>2
<1>5. ASSUME ~overlap, NEW m \in backMemories' \ backMemories
      PROVE  /\ m.object = o /\ ~Backfill!HasObject(backMemories, o)
             /\ \A n \in backMemories' \ backMemories : m = n
  <2>1. ~Backfill!HasObject(run[r].memories, o)
    BY <1>1, <1>5
  <2>2. ~Backfill!HasObject(backMemories, o)
    BY <2>1, <1>5, <1>a, <1>c DEF BackfillInv, NothingUnseen, Backfill!HasObject
  <2> QED BY <2>2, <1>2, <1>5
<1>6. (IF o \in Unmapped THEN "ambiguous" ELSE "migrated") \in Backfill!Actions
  BY DEF Backfill!Actions
<1> QED BY <1>a, <1>1, <1>c, <1>2, <1>3, <1>4, <1>5, <1>6, BackfillAnswered

LEMMA BackfillEnds ==
  ASSUME BackfillInv, NEW r \in Runs, Backfill!End(r) \/ Backfill!Kill(r)
  PROVE  BackfillInv'
<1>a. /\ RunsTyped /\ run \in [Runs -> Process \cup {Backfill!Dead}]
      /\ UNCHANGED <<backEpisodes, backMemories, overlap, starts>> /\ run[r] \in Process
  BY DEF BackfillInv, RunsTyped, Backfill!End, Backfill!Kill, Backfill!Dead
<1>1. /\ ~Alive(r)' /\ run' \in [Runs -> Process \cup {Backfill!Dead}]
      /\ \A q \in Runs : q # r => run'[q] = run[q]
  <2>1. CASE run' = [run EXCEPT ![r].pc = "dead"]
    <3>1. run'[r] \in Process /\ run'[r].pc = "dead" BY <1>a, <2>1 DEF Process
    <3> QED BY <1>a, <2>1, <3>1 DEF Alive
  <2>2. CASE run' = [run EXCEPT ![r] = Backfill!Dead]
    BY <1>a, <2>2 DEF Alive, Backfill!Dead
  <2> QED BY <2>1, <2>2 DEF Backfill!End, Backfill!Kill
<1>2. RunsTyped' BY <1>a, <1>1 DEF RunsTyped
<1>3. EpisodesAreOnce' /\ MemoriesFollow'
  BY <1>a DEF BackfillInv, EpisodesAreOnce, MemoriesFollow, Backfill!HasObject
<1>4. \A q \in Runs : Alive(q)' => q # r /\ Alive(q) /\ run'[q] = run[q]
  BY <1>1 DEF Alive
<1>5. \A q \in Runs : Alive(q)' => CopyHolds(q)' /\ OneAtHand(q)' /\ ReportHolds(q)'
  BY <1>4, <1>a DEF BackfillInv, CopyHolds, OneAtHand, ReportHolds, Backfill!HasObject
<1>6. ~overlap' => NothingUnseen'
  BY <1>4, <1>a DEF BackfillInv, NothingUnseen
<1> QED BY <1>2, <1>3, <1>5, <1>6 DEF BackfillInv

LEMMA BackfillStutters == BackfillInv /\ UNCHANGED backfillVars => BackfillInv'
<1> SUFFICES ASSUME BackfillInv, UNCHANGED backfillVars PROVE BackfillInv'
  OBVIOUS
<1> QED
  BY DEF backfillVars, BackfillInv, RunsTyped, EpisodesAreOnce, MemoriesFollow, NothingUnseen,
         Alive, CopyHolds, OneAtHand, ReportHolds, Backfill!HasObject

LEMMA BackfillNext == BackfillInv /\ Backfill!Next => BackfillInv'
<1> SUFFICES ASSUME BackfillInv, Backfill!Next PROVE BackfillInv'
  OBVIOUS
<1>1. PICK r \in Runs :
        \/ \E dry \in BOOLEAN, limit \in 0 .. MaxLimit : Backfill!Start(r, dry, limit)
        \/ Backfill!Step(r)
        \/ Backfill!Kill(r)
  BY DEF Backfill!Next
<1> QED
  BY <1>1, BackfillStart, BackfillMigrate, BackfillIngest, BackfillPromote, BackfillEnds
  DEF Backfill!Step

\* However runs are killed, repeated and overlapped, a legacy object has one
\* episode and, without overlap, one memory, and what a run reports is so.
THEOREM BackfillIsTrue == Spec => []MigratedAsReported
<1> DEFINE Inv == On("backfill") => BackfillInv
<1>1. Init => Inv
  BY BackfillInit DEF Init, On
<1>2. Inv /\ [Next]_vars => Inv'
  <2> SUFFICES ASSUME Inv, [Next]_vars, part' = "backfill" PROVE BackfillInv'
    BY DEF On
  <2> QED BY OnePart, BackfillNext, BackfillStutters DEF On
<1>3. Inv => MigratedAsReported
  BY DEF BackfillInv, EpisodesAreOnce, MemoriesFollow, NothingUnseen, ReportHolds, Alive,
         MigratedAsReported, Backfill!MigratedAsReported, Backfill!MigratedOnce,
         Backfill!ReportsAreTrue
<1> QED BY <1>1, <1>2, <1>3, PTL DEF Spec

-----------------------------------------------------------------------------
(* The graph projection.                                                   *)

Rebuild == [pc : {"clear", "fill", "mark"}, quiet : BOOLEAN, items : SUBSET Items]

GraphTyped ==
    /\ stored \in [Items -> Nat]
    /\ graph \in [Items -> Nat]
    /\ rebuild \in [Tenants -> Rebuild \cup {Projection!NoRebuild}]

\* A rebuild lists objects of its tenant.  While nothing disturbs it, it listed
\* all that are stored, and what it did not list is not in the cleared graph.
RebuildHolds(t) ==
    /\ rebuild[t].items \subseteq Projection!ItemsOf(t)
    /\ rebuild[t].quiet =>
          /\ rebuild[t].pc # "mark" =>
                \A i \in Projection!ItemsOf(t) \ rebuild[t].items : stored[i] = 0
          /\ rebuild[t].pc = "fill" =>
                \A i \in Projection!ItemsOf(t) \ rebuild[t].items : graph[i] = 0
          /\ rebuild[t].pc = "mark" => Projection!InSync(t)

GraphInv == GraphTyped /\ \A t \in Tenants : rebuild[t].pc # "none" => RebuildHolds(t)

LEMMA GraphInit == Projection!Init => GraphInv
BY DEF Projection!Init, GraphInv, GraphTyped, Projection!NoRebuild

\* What a step of another request leaves of the rebuilds.
LEMMA Disturbed ==
  ASSUME GraphTyped, NEW tenants, NEW t \in Tenants
  PROVE  LET after == Projection!Disturb(tenants)[t]
         IN /\ after \in Rebuild \cup {Projection!NoRebuild}
            /\ t \notin tenants => after = rebuild[t]
            /\ after.pc = rebuild[t].pc
            /\ rebuild[t].pc # "none" => after.items = rebuild[t].items
            /\ t \in tenants /\ rebuild[t].pc # "none" => ~after.quiet
<1>1. Projection!Disturb(tenants)[t] = IF t \in tenants /\ rebuild[t].pc # "none"
                                      THEN [rebuild[t] EXCEPT !.quiet = FALSE] ELSE rebuild[t]
  BY DEF Projection!Disturb
<1>2. CASE t \in tenants /\ rebuild[t].pc # "none"
  <2>1. rebuild[t] \in Rebuild BY <1>2 DEF GraphTyped, Projection!NoRebuild
  <2>2. [rebuild[t] EXCEPT !.quiet = FALSE] \in Rebuild BY <2>1 DEF Rebuild
  <2> QED BY <1>1, <1>2, <2>1, <2>2 DEF Rebuild
<1>3. CASE ~(t \in tenants /\ rebuild[t].pc # "none")
  BY <1>1, <1>3 DEF GraphTyped
<1> QED BY <1>2, <1>3

\* A request touches an item: the rebuild of its tenant is disturbed, those of
\* the other tenants work on other items.
LEMMA GraphTouched ==
  ASSUME GraphInv, NEW i \in Items, rebuild' = Projection!Disturb({TenantOf[i]}),
         stored' \in [Items -> Nat], graph' \in [Items -> Nat],
         \A j \in Items : j # i => stored'[j] = stored[j] /\ graph'[j] = graph[j]
  PROVE  GraphInv'
<1>0. GraphTyped BY DEF GraphInv
<1>a. ASSUME NEW t \in Tenants
      PROVE  /\ rebuild'[t] \in Rebuild \cup {Projection!NoRebuild}
             /\ t # TenantOf[i] => rebuild'[t] = rebuild[t]
             /\ rebuild'[t].pc = rebuild[t].pc
             /\ rebuild[t].pc # "none" => rebuild'[t].items = rebuild[t].items
             /\ t = TenantOf[i] /\ rebuild[t].pc # "none" => ~rebuild'[t].quiet
  BY <1>0, Disturbed
<1>1. GraphTyped'
  <2>1. rebuild' \in [Tenants -> Rebuild \cup {Projection!NoRebuild}]
    BY <1>a DEF Projection!Disturb
  <2> QED BY <2>1 DEF GraphTyped
<1>2. ASSUME NEW t \in Tenants, rebuild'[t].pc # "none" PROVE RebuildHolds(t)'
  <2>1. rebuild[t].pc # "none" /\ RebuildHolds(t) BY <1>2, <1>a DEF GraphInv
  <2>2. CASE t = TenantOf[i]
    <3>1. ~rebuild'[t].quiet /\ rebuild'[t].items = rebuild[t].items
      BY <2>1, <2>2, <1>a
    <3> QED BY <2>1, <3>1 DEF RebuildHolds, Projection!ItemsOf
  <2>3. CASE t # TenantOf[i]
    <3>1. rebuild'[t] = rebuild[t] BY <2>3, <1>a
    <3> QED BY <2>1, <2>3, <3>1 DEF RebuildHolds, Projection!ItemsOf, Projection!InSync
  <2> QED BY <2>2, <2>3
<1> QED BY <1>1, <1>2 DEF GraphInv

LEMMA GraphWrites ==
  ASSUME GraphInv, NEW i \in Items, Projection!Write(i) \/ Projection!Project(i)
  PROVE  GraphInv'
<1>1. stored' \in [Items -> Nat] /\ graph' \in [Items -> Nat]
  BY DEF GraphInv, GraphTyped, Projection!Write, Projection!Project
<1>2. \A j \in Items : j # i => stored'[j] = stored[j] /\ graph'[j] = graph[j]
  BY DEF GraphInv, GraphTyped, Projection!Write, Projection!Project
<1>3. rebuild' = Projection!Disturb({TenantOf[i]})
  BY DEF Projection!Write, Projection!Project
<1> QED BY <1>1, <1>2, <1>3, GraphTouched

\* A step of the rebuild of t that fills its own items only, or none.
LEMMA GraphRebuilt ==
  ASSUME GraphInv, NEW t \in Tenants, UNCHANGED stored,
         graph' \in [Items -> Nat],
         \A j \in Items \ Projection!ItemsOf(t) : graph'[j] = graph[j],
         rebuild' \in [Tenants -> Rebuild \cup {Projection!NoRebuild}],
         \A u \in Tenants : u # t => rebuild'[u] = rebuild[u],
         rebuild'[t].pc # "none" => RebuildHolds(t)'
  PROVE  GraphInv'
<1>1. GraphTyped' BY DEF GraphInv, GraphTyped
<1>2. ASSUME NEW u \in Tenants, u # t, rebuild'[u].pc # "none" PROVE RebuildHolds(u)'
  <2>1. RebuildHolds(u) /\ rebuild'[u] = rebuild[u] BY <1>2 DEF GraphInv
  <2>2. \A i \in Projection!ItemsOf(u) : graph'[i] = graph[i]
    BY <1>2 DEF Projection!ItemsOf
  <2> QED BY <2>1, <2>2 DEF RebuildHolds, Projection!ItemsOf, Projection!InSync
<1> QED BY <1>1, <1>2 DEF GraphInv

LEMMA GraphBegins ==
  ASSUME GraphInv, NEW t \in Tenants, Projection!BeginRebuild(t)
  PROVE  GraphInv'
<1>1. PICK b \in BOOLEAN :
        rebuild' = [rebuild EXCEPT ![t] =
          [pc |-> "clear", quiet |-> b,
           items |-> {i \in Projection!ItemsOf(t) : stored[i] > 0}]]
  <2> DEFINE b == projecting \cap Projection!ItemsOf(t) = {}
  <2> WITNESS b \in BOOLEAN
  <2> QED BY DEF Projection!BeginRebuild
<1>a. UNCHANGED <<stored, graph>> /\ GraphTyped
  BY DEF Projection!BeginRebuild, GraphInv
<1>2. [pc |-> "clear", quiet |-> b,
       items |-> {i \in Projection!ItemsOf(t) : stored[i] > 0}] \in Rebuild
  BY DEF Rebuild, Projection!ItemsOf
<1>3. rebuild' \in [Tenants -> Rebuild \cup {Projection!NoRebuild}]
  BY <1>1, <1>2, <1>a DEF GraphTyped
<1>4. RebuildHolds(t)'
  BY <1>1, <1>a DEF RebuildHolds, Projection!ItemsOf, GraphTyped
<1>5. \A u \in Tenants : u # t => rebuild'[u] = rebuild[u]
  BY <1>1, <1>a DEF GraphTyped
<1> QED BY <1>a, <1>3, <1>4, <1>5, GraphRebuilt DEF GraphTyped

\* Clearing disturbs the others in memory, where it clears their items too.
LEMMA GraphClears ==
  ASSUME GraphInv, NEW t \in Tenants, Projection!ClearGraph(t)
  PROVE  GraphInv'
<1> DEFINE others == IF backend = "memory" THEN Tenants \ {t} ELSE {}
           shaken == Projection!Disturb(others)
<1>a. /\ GraphTyped /\ rebuild[t].pc = "clear" /\ rebuild[t] \in Rebuild
      /\ UNCHANGED stored /\ RebuildHolds(t)
  BY DEF Projection!ClearGraph, GraphInv, GraphTyped, Projection!NoRebuild
<1>1. graph' = [i \in Items |-> IF i \in Projection!Cleared(t) THEN 0 ELSE graph[i]]
  BY DEF Projection!ClearGraph
<1>2. /\ graph' \in [Items -> Nat] /\ \A i \in Projection!ItemsOf(t) : graph'[i] = 0
      /\ backend # "memory" => \A i \in Items \ Projection!ItemsOf(t) : graph'[i] = graph[i]
  BY <1>1, <1>a DEF GraphTyped, Projection!Cleared, Projection!ItemsOf
<1>3. rebuild' = [shaken EXCEPT ![t].pc = "fill"]
  BY DEF Projection!ClearGraph
<1>4. /\ DOMAIN shaken = Tenants /\ shaken[t] = rebuild[t]
      /\ \A u \in Tenants : rebuild'[u] = IF u = t THEN [rebuild[t] EXCEPT !.pc = "fill"]
                                          ELSE shaken[u]
  <2>1. DOMAIN shaken = Tenants BY DEF Projection!Disturb
  <2>2. shaken[t] = rebuild[t] BY DEF Projection!Disturb
  <2> QED BY <1>3, <2>1, <2>2
<1>5. ASSUME NEW u \in Tenants, u # t
      PROVE  /\ rebuild'[u] \in Rebuild \cup {Projection!NoRebuild}
             /\ rebuild'[u].pc = rebuild[u].pc
             /\ rebuild[u].pc # "none" => rebuild'[u].items = rebuild[u].items
             /\ backend = "memory" /\ rebuild[u].pc # "none" => ~rebuild'[u].quiet
             /\ backend # "memory" => rebuild'[u] = rebuild[u]
  <2>1. rebuild'[u] = Projection!Disturb(others)[u] BY <1>4, <1>5
  <2>2. CASE backend = "memory"
    <3>1. u \in others BY <1>5, <2>2
    <3> HIDE DEF others
    <3> QED BY <2>1, <2>2, <3>1, <1>a, Disturbed
  <2>3. CASE backend # "memory"
    <3>1. u \notin others BY <2>3
    <3> HIDE DEF others
    <3> QED BY <2>1, <2>3, <3>1, <1>a, Disturbed
  <2> QED BY <2>2, <2>3
<1>6. /\ rebuild'[t] \in Rebuild /\ rebuild'[t].pc = "fill"
      /\ rebuild'[t].items = rebuild[t].items /\ rebuild'[t].quiet = rebuild[t].quiet
  BY <1>4, <1>a DEF Rebuild
<1>7. GraphTyped'
  <2>1. DOMAIN rebuild' = Tenants /\ rebuild' = [u \in DOMAIN rebuild' |-> rebuild'[u]]
    BY <1>3, <1>4
  <2>2. rebuild' \in [Tenants -> Rebuild \cup {Projection!NoRebuild}]
    BY <2>1, <1>5, <1>6
  <2> QED BY <2>2, <1>a, <1>2 DEF GraphTyped
<1>8. RebuildHolds(t)'
  BY <1>a, <1>2, <1>6 DEF RebuildHolds, Projection!ItemsOf
<1>9. ASSUME NEW u \in Tenants, u # t, rebuild'[u].pc # "none" PROVE RebuildHolds(u)'
  <2>1. rebuild[u].pc # "none" /\ RebuildHolds(u) BY <1>9, <1>5 DEF GraphInv
  <2>2. CASE backend = "memory"
    BY <2>1, <2>2, <1>5, <1>9 DEF RebuildHolds, Projection!ItemsOf
  <2>3. CASE backend # "memory"
    <3>1. rebuild'[u] = rebuild[u] /\ \A i \in Projection!ItemsOf(u) : graph'[i] = graph[i]
      BY <2>3, <1>2, <1>5, <1>9 DEF Projection!ItemsOf
    <3> QED BY <2>1, <3>1, <1>a DEF RebuildHolds, Projection!ItemsOf, Projection!InSync
  <2> QED BY <2>2, <2>3
<1> QED BY <1>7, <1>8, <1>9 DEF GraphInv

LEMMA GraphFills ==
  ASSUME GraphInv, NEW t \in Tenants, Projection!FillGraph(t)
  PROVE  GraphInv'
<1>a. /\ GraphTyped /\ rebuild[t].pc = "fill" /\ rebuild[t] \in Rebuild
      /\ UNCHANGED stored /\ RebuildHolds(t)
      /\ graph' = [i \in Items |-> IF i \in rebuild[t].items THEN stored[i] ELSE graph[i]]
      /\ rebuild' = [rebuild EXCEPT ![t].pc = "mark"]
  BY DEF Projection!FillGraph, GraphInv, GraphTyped, Projection!NoRebuild
<1>1. /\ graph' \in [Items -> Nat]
      /\ \A j \in Items \ Projection!ItemsOf(t) : graph'[j] = graph[j]
  BY <1>a DEF GraphTyped, RebuildHolds
<1>2. /\ rebuild'[t] \in Rebuild /\ rebuild'[t].pc = "mark"
      /\ rebuild'[t].items = rebuild[t].items /\ rebuild'[t].quiet = rebuild[t].quiet
      /\ \A u \in Tenants : u # t => rebuild'[u] = rebuild[u]
  BY <1>a DEF Rebuild, GraphTyped
<1>3. rebuild' \in [Tenants -> Rebuild \cup {Projection!NoRebuild}]
  BY <1>a, <1>2 DEF GraphTyped
<1>4. RebuildHolds(t)'
  BY <1>a, <1>2 DEF RebuildHolds, Projection!ItemsOf, Projection!InSync
<1> QED BY <1>a, <1>1, <1>2, <1>3, <1>4, GraphRebuilt

LEMMA GraphGivesUp ==
  ASSUME GraphInv, NEW t \in Tenants, Projection!RebuildFails(t) \/ Projection!MarkRebuilt(t)
  PROVE  GraphInv'
<1>a. /\ GraphTyped /\ rebuild[t].pc # "none" /\ UNCHANGED stored /\ RebuildHolds(t)
      /\ rebuild' = [rebuild EXCEPT ![t] = Projection!NoRebuild]
  BY DEF Projection!RebuildFails, Projection!MarkRebuilt, GraphInv
<1>1. /\ graph' \in [Items -> Nat]
      /\ \A j \in Items \ Projection!ItemsOf(t) : graph'[j] = graph[j]
  BY <1>a DEF Projection!RebuildFails, Projection!MarkRebuilt, GraphTyped, RebuildHolds
<1>2. /\ rebuild' \in [Tenants -> Rebuild \cup {Projection!NoRebuild}]
      /\ rebuild'[t].pc = "none" /\ \A u \in Tenants : u # t => rebuild'[u] = rebuild[u]
  BY <1>a DEF GraphTyped, Projection!NoRebuild
<1> QED BY <1>a, <1>1, <1>2, GraphRebuilt

LEMMA GraphNext == GraphInv /\ Projection!Next => GraphInv'
<1> SUFFICES ASSUME GraphInv, Projection!Next PROVE GraphInv'
  OBVIOUS
<1>1. CASE Projection!RestartGraph
  BY <1>1 DEF Projection!RestartGraph, GraphInv, GraphTyped, Projection!NoRebuild
<1>2. ASSUME NEW i \in Items, Projection!ProjectFails(i) PROVE GraphInv'
  <2>1. UNCHANGED <<stored, graph, rebuild>> BY <1>2 DEF Projection!ProjectFails
  <2> QED BY <2>1 DEF GraphInv, GraphTyped, RebuildHolds, Projection!ItemsOf, Projection!InSync
<1> QED BY <1>1, <1>2, GraphWrites, GraphBegins, GraphClears, GraphFills, GraphGivesUp
        DEF Projection!Next

LEMMA GraphStutters == GraphInv /\ UNCHANGED graphVars => GraphInv'
BY DEF graphVars, GraphInv, GraphTyped, RebuildHolds, Projection!ItemsOf, Projection!InSync

\* A rebuild that nothing disturbs makes the graph show what is stored of its
\* tenant, for all items, tenants, failures and restarts.
THEOREM RebuildsHeal == Spec => []RebuildHeals
<1> DEFINE Inv == On("graph") => GraphInv
<1>1. Init => Inv
  BY GraphInit DEF Init, On
<1>2. Inv /\ [Next]_vars => Inv'
  <2> SUFFICES ASSUME Inv, [Next]_vars, part' = "graph" PROVE GraphInv'
    BY DEF On
  <2> QED BY OnePart, GraphNext, GraphStutters DEF On
<1>3. Inv => RebuildHeals
  BY DEF GraphInv, RebuildHolds, RebuildHeals, Projection!RebuildHeals
<1> QED BY <1>1, <1>2, <1>3, PTL DEF Spec

-----------------------------------------------------------------------------
(* The search index.                                                       *)

Documents == [Published -> Nat]

Request == [pc : {"fallback", "primary", "key", "query", "answered"}, docs : Documents,
            forced : BOOLEAN, found : SUBSET Published]

SearchTyped ==
    /\ objects \in Documents /\ fallback \in Documents /\ primary \in Documents
    /\ searching \in [Searchers -> Request \cup {Search!Resting}]
    /\ syncOnQuery \in BOOLEAN /\ lastError \in BOOLEAN /\ opened \in BOOLEAN /\ raced \in BOOLEAN

\* The documents a key stands for are those of the index that answers.
Holds(docs) == fallback = docs /\ (~lastError => primary = docs)

Synced == syncKey \in Documents => Holds(syncKey)

\* What a request that raced with nothing has done of its rebuild.
RequestHolds(s) ==
    LET r == searching[s]
    IN /\ r.pc # "answered" => r.docs = objects
       /\ r.pc = "primary" => fallback = objects
       /\ r.pc = "key" => Holds(objects)
       /\ r.pc \in {"query", "answered"} => Synced
       /\ syncOnQuery /\ r.pc = "query" => Holds(objects)
       /\ syncOnQuery /\ r.pc = "answered" =>
             /\ r.docs = objects
             /\ r.found = {o \in Published : objects[o] > 0 /\ LevelOf[o] <= Clearance}

Working(s) == searching[s].pc # "idle"

\* At most one request; the key is true while nothing is being rebuilt.
Undisturbed ==
    /\ \A s, u \in Searchers : Working(s) /\ Working(u) => s = u
    /\ \A s \in Searchers : Working(s) => RequestHolds(s)
    /\ (\A s \in Searchers : ~Working(s)) => Synced

SearchInv == SearchTyped /\ (~raced => Undisturbed)

\* Without a published object the key that is none is the key of all.
LEMMA NoKeyIsTrue ==
  ASSUME NEW docs \in Documents, Search!NoSyncKey \in Documents
  PROVE  docs = Search!NoSyncKey
BY DEF Documents, Search!NoSyncKey

LEMMA SearchInit == Search!Init => SearchInv
<1> SUFFICES ASSUME Search!Init PROVE SearchInv
  OBVIOUS
<1>1. SearchTyped
  BY DEF Search!Init, SearchTyped, Documents, Search!Empty
<1>2. \A s \in Searchers : ~Working(s)
  BY DEF Search!Init, Working, Search!Resting
<1>3. Synced
  BY <1>1, NoKeyIsTrue DEF Search!Init, SearchTyped, Synced, Holds
<1> QED BY <1>1, <1>2, <1>3 DEF SearchInv, Undisturbed

\* A request moves on, and races with nothing that moves.
LEMMA SearchMoves ==
  ASSUME SearchInv, NEW s \in Searchers,
         UNCHANGED <<objects, syncOnQuery>>, SearchTyped',
         \A u \in Searchers : u # s => searching'[u] = searching[u],
         ~raced' => ~raced /\ (Working(s) \/ \A u \in Searchers : ~Working(u)),
         ~raced' /\ Working(s)' => RequestHolds(s)',
         ~raced' /\ ~Working(s)' => Synced'
  PROVE  SearchInv'
<1> SUFFICES ASSUME ~raced' PROVE Undisturbed'
  BY DEF SearchInv
<1>1. \A u \in Searchers : u # s => ~Working(u)'
  BY DEF SearchInv, Undisturbed, Working
<1>2. \A u \in Searchers : Working(u)' => RequestHolds(u)'
  BY <1>1
<1>3. (\A u \in Searchers : ~Working(u)') => Synced'
  OBVIOUS
<1> QED BY <1>1, <1>2, <1>3 DEF Undisturbed

LEMMA SearchPublishes ==
  ASSUME SearchInv, NEW o \in Published, Search!PublishObject(o)
  PROVE  SearchInv'
<1>a. /\ SearchTyped /\ UNCHANGED <<syncOnQuery, opened, fallback, primary, lastError, syncKey, searching>>
      /\ raced' = (raced \/ Search!Running # {})
  BY DEF SearchInv, Search!PublishObject
<1>1. SearchTyped'
  BY <1>a DEF SearchTyped, Documents, Search!PublishObject
<1> SUFFICES ASSUME ~raced' PROVE Undisturbed'
  BY <1>1 DEF SearchInv
<1>2. \A s \in Searchers : ~Working(s) /\ ~Working(s)'
  BY <1>a DEF Search!Running, Working
<1>3. Synced'
  BY <1>2, <1>a DEF SearchInv, Undisturbed, Synced, Holds
<1> QED BY <1>2, <1>3 DEF Undisturbed

LEMMA SearchBegins ==
  ASSUME SearchInv, NEW s \in Searchers, NEW forced \in BOOLEAN, Search!Begin(s, forced)
  PROVE  SearchInv'
<1> DEFINE next == IF forced \/ (syncOnQuery /\ objects # syncKey) THEN "fallback" ELSE "query"
<1>a. /\ SearchTyped /\ UNCHANGED <<syncOnQuery, opened, objects, fallback, primary, lastError, syncKey>>
      /\ raced' = (raced \/ Search!Running # {})
      /\ searching' = [searching EXCEPT ![s] =
           [pc |-> next, docs |-> objects, forced |-> forced, found |-> {}]]
      /\ ~Working(s)
  BY DEF SearchInv, Search!Begin, Working
<1>1. [pc |-> next, docs |-> objects, forced |-> forced, found |-> {}] \in Request
  BY <1>a DEF SearchTyped, Request
<1>2. SearchTyped'
  BY <1>a, <1>1 DEF SearchTyped
<1>3. /\ \A u \in Searchers : u # s => searching'[u] = searching[u]
      /\ searching'[s] = [pc |-> next, docs |-> objects, forced |-> forced, found |-> {}]
  BY <1>a DEF SearchTyped
<1>4. ~raced' => ~raced /\ \A u \in Searchers : ~Working(u)
  BY <1>a DEF SearchTyped, Search!Running, Working
<1>5. ASSUME ~raced' PROVE RequestHolds(s)'
  <2>1. Synced BY <1>4, <1>5 DEF SearchInv, Undisturbed
  <2>2. Synced' BY <2>1, <1>a DEF Synced, Holds
  <2>3. syncOnQuery' /\ next = "query" => Holds(objects)'
    BY <2>1, <1>a DEF SearchTyped, Synced, Holds
  <2>4. next \in {"fallback", "query"} OBVIOUS
  <2> HIDE DEF next
  <2> QED BY <2>2, <2>3, <2>4, <1>3, <1>a DEF RequestHolds
<1>6. Working(s)'
  BY <1>3 DEF Working
<1> QED BY <1>a, <1>2, <1>3, <1>4, <1>5, <1>6, SearchMoves

\* A request that is alone, at its program counter.
LEMMA SearchAlone ==
  ASSUME SearchInv, NEW s \in Searchers, Working(s)
  PROVE  /\ searching[s] \in Request
         /\ ~raced => RequestHolds(s)
BY DEF SearchInv, SearchTyped, Undisturbed, Working, Search!Resting

LEMMA SearchRebuilds ==
  ASSUME SearchInv, NEW s \in Searchers,
         Search!RebuildFallback(s) \/ Search!RebuildPrimary(s) \/ Search!PrimaryFails(s)
  PROVE  SearchInv'
<1>a. /\ SearchTyped /\ Working(s) /\ UNCHANGED <<syncOnQuery, opened, objects, syncKey, raced>>
  BY DEF SearchInv, Search!RebuildFallback, Search!RebuildPrimary, Search!PrimaryFails, Working
<1>b. searching[s] \in Request /\ (~raced => RequestHolds(s))
  BY <1>a, SearchAlone
<1>c. searching[s].docs \in Documents
  BY <1>b DEF Request
<1>1. PICK pc \in {"primary", "key"} : searching' = [searching EXCEPT ![s].pc = pc]
  BY DEF Search!RebuildFallback, Search!RebuildPrimary, Search!PrimaryFails
<1>2. /\ searching'[s] \in Request /\ searching'[s].pc = pc
      /\ searching'[s].docs = searching[s].docs
      /\ \A u \in Searchers : u # s => searching'[u] = searching[u]
  BY <1>1, <1>a, <1>b DEF SearchTyped, Request
<1>3. SearchTyped'
  <2>1. searching' \in [Searchers -> Request \cup {Search!Resting}]
    BY <1>1, <1>2, <1>a DEF SearchTyped
  <2>2. fallback' \in Documents
    BY <1>a, <1>c DEF SearchTyped, Search!RebuildFallback, Search!RebuildPrimary,
                      Search!PrimaryFails
  <2>3. primary' \in Documents /\ lastError' \in BOOLEAN
    <3>1. CASE Search!RebuildFallback(s)
      BY <3>1, <1>a DEF SearchTyped, Search!RebuildFallback
    <3>2. CASE Search!RebuildPrimary(s)
      BY <3>2, <1>a, <1>c DEF SearchTyped, Search!RebuildPrimary
    <3>3. CASE Search!PrimaryFails(s)
      <4>1. PICK some \in SUBSET Published :
              primary' = [o \in Published |-> IF o \in some THEN searching[s].docs[o]
                                              ELSE primary[o]]
        BY <3>3 DEF Search!PrimaryFails
      <4>2. primary' \in Documents BY <4>1, <1>a, <1>c DEF SearchTyped, Documents
      <4> QED BY <3>3, <4>2 DEF Search!PrimaryFails
    <3> QED BY <3>1, <3>2, <3>3
  <2> QED BY <1>a, <2>1, <2>2, <2>3 DEF SearchTyped
<1>4. ASSUME ~raced' PROVE RequestHolds(s)'
  <2>1. RequestHolds(s) BY <1>4, <1>a, <1>b
  <2>2. CASE Search!RebuildFallback(s)
    <3>1. fallback' = objects /\ searching'[s].pc = "primary" /\ searching'[s].docs = objects
      BY <2>1, <2>2, <1>a, <1>b, <1>2 DEF RequestHolds, Search!RebuildFallback, SearchTyped, Request
    <3> QED BY <3>1, <1>a DEF RequestHolds
  <2>3. CASE Search!RebuildPrimary(s)
    <3>1. /\ searching'[s].pc = "key" /\ searching'[s].docs = objects
          /\ fallback' = objects /\ (~lastError' => primary' = objects)
      BY <2>1, <2>3, <1>a, <1>b, <1>2 DEF RequestHolds, Search!RebuildPrimary, SearchTyped, Request
    <3> QED BY <3>1, <1>a DEF RequestHolds, Holds
  <2>4. CASE Search!PrimaryFails(s)
    <3>1. /\ searching'[s].pc = "key" /\ searching'[s].docs = objects
          /\ fallback' = objects /\ lastError'
      BY <2>1, <2>4, <1>a, <1>b, <1>2 DEF RequestHolds, Search!PrimaryFails, SearchTyped, Request
    <3> QED BY <3>1, <1>a DEF RequestHolds, Holds
  <2> QED BY <2>2, <2>3, <2>4
<1>5. Working(s)'
  BY <1>2 DEF Working
<1> QED BY <1>a, <1>2, <1>3, <1>4, <1>5, SearchMoves

LEMMA SearchRemembers ==
  ASSUME SearchInv, NEW s \in Searchers, Search!RememberKey(s)
  PROVE  SearchInv'
<1>a. /\ SearchTyped /\ Working(s) /\ searching[s].pc = "key" /\ syncKey' = searching[s].docs
      /\ UNCHANGED <<syncOnQuery, opened, objects, fallback, primary, lastError, raced>>
      /\ searching' = [searching EXCEPT ![s] =
            IF searching[s].forced THEN Search!Resting
            ELSE [searching[s] EXCEPT !.pc = "query"]]
  BY DEF SearchInv, Search!RememberKey, Working
<1>b. searching[s] \in Request /\ (~raced => RequestHolds(s))
  BY <1>a, SearchAlone
<1>1. /\ searching'[s] = IF searching[s].forced THEN Search!Resting
                         ELSE [searching[s] EXCEPT !.pc = "query"]
      /\ \A u \in Searchers : u # s => searching'[u] = searching[u]
  BY <1>a DEF SearchTyped
<1>2. [searching[s] EXCEPT !.pc = "query"] \in Request
  BY <1>b DEF Request
<1>3. SearchTyped'
  BY <1>a, <1>2 DEF SearchTyped
<1>4. ASSUME ~raced' PROVE /\ Synced' /\ (Working(s)' => RequestHolds(s)')
  <2>1. syncKey' = objects /\ Holds(objects)
    BY <1>4, <1>a, <1>b DEF RequestHolds
  <2>2. Synced' BY <2>1, <1>a DEF Synced, Holds
  <2>3. CASE searching[s].forced
    BY <2>2, <2>3, <1>1 DEF Working, Search!Resting
  <2>4. CASE ~searching[s].forced
    <3>1. searching'[s].pc = "query" /\ searching'[s].docs = objects
      BY <2>4, <1>1, <1>a, <1>b, <1>4 DEF Request, RequestHolds
    <3> QED BY <2>1, <2>2, <3>1, <1>a DEF RequestHolds, Holds
  <2> QED BY <2>2, <2>3, <2>4
<1> QED BY <1>a, <1>1, <1>3, <1>4, SearchMoves

LEMMA SearchAnswers ==
  ASSUME SearchInv, NEW s \in Searchers, Search!QueryIndex(s)
  PROVE  SearchInv'
<1> DEFINE answer == Search!Visible({o \in Published : Search!Active[o] > 0})
<1>a. /\ SearchTyped /\ Working(s) /\ searching[s].pc = "query"
      /\ UNCHANGED <<syncOnQuery, opened, objects, fallback, primary, lastError, syncKey, raced>>
      /\ searching' = [searching EXCEPT ![s].pc = "answered", ![s].docs = Search!Active,
                                        ![s].found = answer]
  BY DEF SearchInv, Search!QueryIndex, Working
<1>b. searching[s] \in Request /\ (~raced => RequestHolds(s))
  BY <1>a, SearchAlone
<1>c. answer \subseteq Published /\ Search!Active \in Documents
  BY <1>a DEF Search!Visible, Search!Active, SearchTyped
<1>1. /\ searching'[s] \in Request /\ searching'[s].pc = "answered"
      /\ searching'[s].docs = Search!Active /\ searching'[s].found = answer
      /\ \A u \in Searchers : u # s => searching'[u] = searching[u]
  <2> HIDE DEF answer
  <2> QED BY <1>a, <1>b, <1>c DEF SearchTyped, Request
<1>2. SearchTyped'
  <2>1. searching' \in [Searchers -> Request \cup {Search!Resting}]
    <3> HIDE DEF answer
    <3> QED BY <1>1, <1>a DEF SearchTyped
  <2> QED BY <1>a, <2>1 DEF SearchTyped
<1>3. ASSUME ~raced' PROVE RequestHolds(s)'
  <2>1. (syncOnQuery => Holds(objects)) /\ Synced
    BY <1>3, <1>a, <1>b DEF RequestHolds
  <2>2. syncOnQuery => Search!Active = objects
    BY <2>1, <1>a DEF Holds, Search!Active, SearchTyped
  <2>3. syncOnQuery =>
          answer = {o \in Published : objects[o] > 0 /\ LevelOf[o] <= Clearance}
    BY <2>2 DEF Search!Visible
  <2>4. Synced' BY <2>1, <1>a DEF Synced, Holds
  <2> HIDE DEF answer
  <2> QED BY <2>2, <2>3, <2>4, <1>1, <1>a DEF RequestHolds
<1>4. Working(s)'
  BY <1>1 DEF Working
<1> QED BY <1>a, <1>1, <1>2, <1>3, <1>4, SearchMoves

LEMMA SearchGoesOn ==
  ASSUME SearchInv, NEW s \in Searchers, Search!QueryFails(s) \/ Search!Leave(s)
  PROVE  SearchInv'
<1>a. SearchTyped /\ Working(s) /\ UNCHANGED <<syncOnQuery, opened, objects, fallback, primary, syncKey, raced>>
  BY DEF SearchInv, Search!QueryFails, Search!Leave, Working
<1>b. searching[s] \in Request /\ (~raced => RequestHolds(s))
  BY <1>a, SearchAlone
<1>1. CASE Search!QueryFails(s)
  <2>1. lastError' = TRUE /\ searching' = searching /\ searching[s].pc = "query"
    BY <1>1 DEF Search!QueryFails
  <2>2. SearchTyped' BY <2>1, <1>a DEF SearchTyped
  <2>3. ~raced' => RequestHolds(s)'
    BY <2>1, <1>a, <1>b DEF RequestHolds, Holds, Synced
  <2>4. Working(s)' BY <2>1 DEF Working
  <2> QED BY <1>a, <2>1, <2>2, <2>3, <2>4, SearchMoves
<1>2. CASE Search!Leave(s)
  <2>1. /\ lastError' = lastError /\ searching[s].pc = "answered"
        /\ searching' = [searching EXCEPT ![s] = Search!Resting]
    BY <1>2 DEF Search!Leave
  <2>2. /\ SearchTyped' /\ ~Working(s)'
        /\ \A u \in Searchers : u # s => searching'[u] = searching[u]
    BY <2>1, <1>a DEF SearchTyped, Working, Search!Resting
  <2>3. ~raced' => Synced'
    BY <2>1, <1>a, <1>b DEF RequestHolds, Holds, Synced
  <2> QED BY <1>a, <2>2, <2>3, SearchMoves
<1> QED BY <1>1, <1>2

LEMMA SearchRestarts ==
  ASSUME SearchInv, Search!RestartSearch
  PROVE  SearchInv'
<1>1. SearchTyped'
  BY DEF SearchInv, SearchTyped, Search!RestartSearch, Documents, Search!Empty
<1>2. \A s \in Searchers : ~Working(s)'
  BY DEF Search!RestartSearch, Working, Search!Resting
<1>3. Synced'
  BY <1>1, NoKeyIsTrue DEF Search!RestartSearch, SearchTyped, Synced, Holds
<1> QED BY <1>1, <1>2, <1>3 DEF SearchInv, Undisturbed

LEMMA SearchNext == SearchInv /\ Search!Next => SearchInv'
BY SearchRestarts, SearchPublishes, SearchBegins, SearchRebuilds, SearchRemembers,
   SearchAnswers, SearchGoesOn DEF Search!Next

LEMMA SearchStutters == SearchInv /\ UNCHANGED searchVars => SearchInv'
BY DEF searchVars, SearchInv, SearchTyped, Undisturbed, Working, RequestHolds, Synced, Holds

\* In a process that synchronises before each search, a search that raced with
\* nothing asks an index of exactly the published objects.
THEOREM SearchesAreFresh == Spec => []FreshWhenAlone
<1> DEFINE Inv == On("search") => SearchInv
<1>1. Init => Inv
  BY SearchInit DEF Init, On
<1>2. Inv /\ [Next]_vars => Inv'
  <2> SUFFICES ASSUME Inv, [Next]_vars, part' = "search" PROVE SearchInv'
    BY DEF On
  <2> QED BY OnePart, SearchNext, SearchStutters DEF On
<1>3. Inv => FreshWhenAlone
  BY DEF SearchInv, Undisturbed, RequestHolds, Working, FreshWhenAlone, Search!FreshWhenAlone
<1> QED BY <1>1, <1>2, <1>3, PTL DEF Spec

-----------------------------------------------------------------------------
(* Context coverage and orchestration.                                     *)

Shown(who) == {m \in Coverage!OfTenant(who) : ~Coverage!Excluded(who, m)}

\* What the world can be, as far as the proof looks at it.
WorldTyped ==
    /\ pack \in Packs \cup {NoCurrent}
    /\ health \in [Sources -> Healths]
    /\ marks \subseteq {"current", "lagging", "unavailable"}

Fields == {"pc", "who", "question", "fit", "pack", "withheld", "memory",
           "asked", "receipt", "at", "proceed", "qualified"}

SessionTyped == DOMAIN session = Fields /\ session = [f \in Fields |-> session[f]]

\* What the answer and the receipt show is shown to the principal, and a
\* receipt that qualifies nothing was made of a world that earns it.
CoverageInv ==
    /\ WorldTyped
    /\ SessionTyped
    /\ session.pc \in {"classify", "query", "failed"} => session.asked = {}
    /\ session.pc = "cover" => session.asked = {} /\ session.memory \subseteq Shown(session.who)
    /\ Coverage!NoLeak
    /\ Coverage!UnqualifiedIsEarned

LEMMA QueryIsShown ==
  ASSUME NEW who, NEW table, NEW ask
  PROVE  Coverage!Query(who, table, ask) \subseteq Shown(who)
BY DEF Coverage!Query, Shown

\* Whatever the partition and whatever the graph returns.
LEMMA PartitionIsShown ==
  ASSUME NEW who, NEW partition \in Coverage!Partitions, NEW table, NEW q, NEW filters, NEW hits
  PROVE  Coverage!PartitionMemories(who, partition, table, q, filters, hits) \subseteq Shown(who)
<1>1. CASE partition = "domain_pack"
  BY <1>1 DEF Coverage!PartitionMemories
<1>2. CASE partition = "current_memory"
  BY <1>2, QueryIsShown DEF Coverage!PartitionMemories
<1>3. CASE partition = "historical_memory"
  BY <1>3, QueryIsShown DEF Coverage!PartitionMemories
<1>4. CASE partition = "investigations"
  BY <1>4, QueryIsShown DEF Coverage!PartitionMemories
<1>5. CASE partition = "external_intelligence"
  BY <1>5, QueryIsShown DEF Coverage!PartitionMemories
<1>6. CASE partition = "graph"
  BY <1>6, QueryIsShown DEF Coverage!PartitionMemories, Coverage!QueryWithGraph
<1>7. CASE partition = "metric_timeline"
  <2> DEFINE Ask(metric) == Coverage!Asks({}, [Coverage!NoFilters EXCEPT !.metrics = {metric}], {},
                                     Coverage!HistoricalStatuses, TRUE)
  <2>1. Coverage!PartitionMemories(who, partition, table, q, filters, hits)
          = UNION {Coverage!Query(who, table, Ask(metric)) : metric \in filters.metrics}
    BY <1>7 DEF Coverage!PartitionMemories
  <2>2. \A metric \in filters.metrics : Coverage!Query(who, table, Ask(metric)) \subseteq Shown(who)
    BY QueryIsShown
  <2> HIDE DEF Ask
  <2> QED BY <2>1, <2>2
<1>8. CASE partition = "entity_timeline"
  <2> DEFINE Ask(entity) == Coverage!Asks({}, [Coverage!NoFilters EXCEPT !.entities = {entity}], {},
                                     Coverage!HistoricalStatuses, TRUE)
  <2>1. Coverage!PartitionMemories(who, partition, table, q, filters, hits)
          = UNION {Coverage!Query(who, table, Ask(entity)) : entity \in filters.entities}
    BY <1>8 DEF Coverage!PartitionMemories
  <2>2. \A entity \in filters.entities : Coverage!Query(who, table, Ask(entity)) \subseteq Shown(who)
    BY QueryIsShown
  <2> HIDE DEF Ask
  <2> QED BY <2>1, <2>2
<1> QED BY <1>1, <1>2, <1>3, <1>4, <1>5, <1>6, <1>7, <1>8 DEF Coverage!Partitions

LEMMA Requested ==
  ASSUME NEW s
  PROVE  /\ Coverage!RequestedPartitions(s) \subseteq Coverage!Partitions
         /\ {"current_memory", "graph"} \subseteq Coverage!RequestedPartitions(s)
BY DEF Coverage!RequestedPartitions, Coverage!Partitions

\* A receipt shows what the principal may see; one that says complete had a pack
\* in force, its sources healthy, its indexes current, nothing withheld, and
\* something to show without a conflict.
LEMMA ReceiptIsEarned ==
  ASSUME WorldTyped, NEW who, NEW table, NEW q, NEW filters, NEW hits,
         NEW requested, requested \subseteq Coverage!Partitions,
         {"current_memory", "graph"} \subseteq requested,
         NEW receipt,
         receipt = Coverage!Receipt(who, pack, table, health, marks, q, filters, requested, hits)
  PROVE  /\ receipt.visible \subseteq Shown(who)
         /\ receipt.overall = "complete" =>
              /\ pack # NoCurrent
              /\ \A source \in pack.sources :
                    source.required /\ source.partitions \cap requested # {}
                    => health[source.id] = "healthy"
              /\ marks \subseteq {"current"}
              /\ \A m \in receipt.visible : table[m].is # "conflicting"
              /\ \A m \in Coverage!OfTenant(who) : ~Coverage!Excluded(who, m)
              /\ receipt.visible # {}
<1> DEFINE Part(p) == Coverage!PartitionMemories(who, p, table, q, filters, hits)
           visible == UNION {Part(p) : p \in requested}
           excluded == \/ /\ Coverage!PolicyExclusions(who)
                          /\ \E p \in requested : Coverage!Queries(p, filters)
                       \/ /\ "graph" \in requested
                          /\ Coverage!Strays(who, table, Coverage!AsksNow(q, filters, {}), hits)
           sources == IF pack = NoCurrent THEN {}
                      ELSE Coverage!UnavailableSources(pack, requested, health)
           stale == /\ pack # NoCurrent
                    /\ \E s \in Coverage!RequiredSources(pack, requested) : health[s] = "stale"
           conflicts == {m \in visible : table[m].is = "conflicting" \/ table[m].group}
<1>1. /\ receipt.visible = visible
      /\ receipt.overall = "complete" =>
           /\ pack # NoCurrent /\ sources = {} /\ ~stale
           /\ "unavailable" \notin marks /\ "lagging" \notin marks
           /\ conflicts = {} /\ ~excluded
           /\ ~(requested \ {"domain_pack"} # {} /\ visible = {})
  <2> HIDE DEF Part
  <2>1. receipt.visible = visible
    BY DEF Coverage!Receipt, Part
  <2>2. receipt.overall =
            IF pack = NoCurrent \/ requested = {} THEN "unavailable"
            ELSE IF excluded /\ visible = {} THEN "denied"
            ELSE IF sources # {} \/ "unavailable" \in marks THEN "partial"
            ELSE IF stale \/ "lagging" \in marks THEN "stale"
            ELSE IF conflicts # {} \/ excluded
                    \/ (requested \ {"domain_pack"} # {} /\ visible = {}) THEN "partial"
            ELSE "complete"
    BY DEF Coverage!Receipt, Part
  <2> HIDE DEF visible, excluded, sources, stale, conflicts
  <2> QED BY <2>1, <2>2
<1>2. visible \subseteq Shown(who)
  <2>1. \A p \in requested : Part(p) \subseteq Shown(who)
    BY PartitionIsShown
  <2> HIDE DEF Part
  <2> QED BY <2>1
<1>3. ASSUME receipt.overall = "complete", NEW source \in pack.sources, source.required,
             source.partitions \cap requested # {}
      PROVE  health[source.id] = "healthy"
  <2>1. pack \in Packs /\ source.id \in Coverage!RequiredSources(pack, requested)
    BY <1>1, <1>3 DEF WorldTyped, Coverage!RequiredSources
  <2>2. health[source.id] \notin {"none", "partial", "failed", "unavailable"}
    BY <1>1, <1>3, <2>1 DEF Coverage!UnavailableSources
  <2>3. health[source.id] # "stale"
    BY <1>1, <1>3, <2>1
  <2>4. health[source.id] \in Healths
    BY <2>1, SourcesAssumption DEF WorldTyped
  <2> QED BY <2>2, <2>3, <2>4, SourcesAssumption
<1>4. ASSUME receipt.overall = "complete"
      PROVE  \A m \in Coverage!OfTenant(who) : ~Coverage!Excluded(who, m)
  <2>1. Coverage!Queries("current_memory", filters)
    BY DEF Coverage!Queries
  <2>2. ~Coverage!PolicyExclusions(who)
    BY <1>1, <1>4, <2>1
  <2> QED BY <2>2 DEF Coverage!PolicyExclusions
<1>5. ASSUME receipt.overall = "complete"
      PROVE  /\ marks \subseteq {"current"}
             /\ \A m \in visible : table[m].is # "conflicting"
             /\ visible # {}
  <2> HIDE DEF visible
  <2> QED BY <1>1, <1>5 DEF WorldTyped
<1> HIDE DEF visible, excluded, sources, stale, conflicts
<1> QED BY <1>1, <1>2, <1>3, <1>4, <1>5

LEMMA CoverageInit == Coverage!Init => CoverageInv
<1> SUFFICES ASSUME Coverage!Init PROVE CoverageInv
  OBVIOUS
<1>1. WorldTyped
  BY DEF Coverage!Init, WorldTyped
<1>2. SessionTyped /\ session.pc = "classify" /\ session.asked = {}
  <2>1. PICK who \in Principals, question \in Questions :
          session = [pc |-> "classify", who |-> who, question |-> question,
                     fit |-> "none", pack |-> NoCurrent,
                     withheld |-> FALSE, memory |-> {},
                     asked |-> {}, receipt |-> <<>>, at |-> <<>>,
                     proceed |-> FALSE, qualified |-> FALSE]
    BY DEF Coverage!Init
  <2>2. DOMAIN session = Fields /\ session.pc = "classify" /\ session.asked = {}
    BY <2>1 DEF Fields
  <2>3. session = [f \in Fields |-> session[f]]
    BY <2>1 DEF Fields
  <2> QED BY <2>2, <2>3 DEF SessionTyped
<1> QED BY <1>1, <1>2 DEF CoverageInv, Coverage!NoLeak, Coverage!UnqualifiedIsEarned, Coverage!Covered

LEMMA CoverageWorld ==
  ASSUME CoverageInv, Coverage!WorldChanges
  PROVE  CoverageInv'
<1>1. UNCHANGED session
  BY DEF Coverage!WorldChanges
<1>2. WorldTyped'
  BY DEF CoverageInv, WorldTyped, Coverage!WorldChanges
<1> QED BY <1>1, <1>2 DEF CoverageInv, SessionTyped, Shown, Coverage!NoLeak,
      Coverage!UnqualifiedIsEarned, Coverage!Covered, Coverage!OfTenant, Coverage!Excluded

LEMMA CoverageClassify ==
  ASSUME CoverageInv, Coverage!ClassifyStep
  PROVE  CoverageInv'
<1>1. WorldTyped'
  BY DEF CoverageInv, WorldTyped, Coverage!ClassifyStep, Coverage!world
<1>2. /\ SessionTyped'
      /\ session'.asked = {} /\ session'.pc \in {"failed", "decided", "query"}
  BY DEF CoverageInv, SessionTyped, Fields, Coverage!ClassifyStep
<1> QED BY <1>1, <1>2 DEF CoverageInv, Coverage!NoLeak,
      Coverage!UnqualifiedIsEarned, Coverage!Covered

LEMMA CoverageQuery ==
  ASSUME CoverageInv, Coverage!QueryStep
  PROVE  CoverageInv'
<1>1. WorldTyped'
  BY DEF CoverageInv, WorldTyped, Coverage!QueryStep, Coverage!world
<1>2. PICK hits, ask :
        session' = [session EXCEPT
          !.pc = "cover",
          !.withheld = \/ Coverage!PolicyExclusions(session.who)
                       \/ Coverage!Strays(session.who, status, ask, hits),
          !.memory = Coverage!QueryWithGraph(session.who, status, ask, hits)]
  BY DEF Coverage!QueryStep
<1>3. session.asked = {}
  BY DEF CoverageInv, Coverage!QueryStep
<1>4. /\ SessionTyped'
      /\ session'.asked = {} /\ session'.pc = "cover" /\ session'.who = session.who
      /\ session'.memory = Coverage!QueryWithGraph(session.who, status, ask, hits)
  BY <1>2, <1>3 DEF CoverageInv, SessionTyped, Fields
<1>5. session'.memory \subseteq Shown(session'.who)
  BY <1>4, QueryIsShown DEF Coverage!QueryWithGraph
<1> QED BY <1>1, <1>4, <1>5 DEF CoverageInv, Shown, Coverage!NoLeak, Coverage!OfTenant,
      Coverage!Excluded, Coverage!UnqualifiedIsEarned, Coverage!Covered

LEMMA CoverageCover ==
  ASSUME CoverageInv, Coverage!CoverStep
  PROVE  CoverageInv'
<1> DEFINE asked == Coverage!RequestedPartitions(session)
           Made(hits) == Coverage!Receipt(session.who, pack, status, health, marks,
                           session.question, Coverage!Filters(session), asked, hits)
<1>1. WorldTyped'
  BY DEF CoverageInv, WorldTyped, Coverage!CoverStep, Coverage!world
<1>2. PICK hits :
        session' = [session EXCEPT
          !.pc = "decided", !.asked = asked, !.receipt = Made(hits), !.at = Coverage!world,
          !.proceed = Made(hits).overall \notin {"denied", "unavailable"},
          !.qualified = Coverage!Qualified(session, Made(hits))]
  BY DEF Coverage!CoverStep
<1>3. PICK receipt : receipt = Made(hits)
  OBVIOUS
<1>4. asked \subseteq Coverage!Partitions /\ {"current_memory", "graph"} \subseteq asked
  BY Requested
<1>5. session.memory \subseteq Shown(session.who)
  BY DEF CoverageInv, Coverage!CoverStep
<1>6. PICK requested : requested = asked
  OBVIOUS
<1>7. /\ receipt.visible \subseteq Shown(session.who)
      /\ receipt.overall = "complete" =>
           /\ pack # NoCurrent
           /\ \A source \in pack.sources :
                 source.required /\ source.partitions \cap requested # {}
                 => health[source.id] = "healthy"
           /\ marks \subseteq {"current"}
           /\ \A m \in receipt.visible : status[m].is # "conflicting"
           /\ \A m \in Coverage!OfTenant(session.who) : ~Coverage!Excluded(session.who, m)
           /\ receipt.visible # {}
  BY <1>3, <1>4, <1>6, ReceiptIsEarned DEF CoverageInv
<1> HIDE DEF asked, Made
<1>8. /\ SessionTyped'
      /\ session'.pc = "decided" /\ session'.who = session.who
      /\ session'.memory = session.memory /\ session'.asked = requested
      /\ session'.receipt = receipt /\ session'.at = <<pack, status, health, marks, graphFails>>
      /\ session'.qualified = Coverage!Qualified(session, receipt)
  BY <1>2, <1>3, <1>6 DEF CoverageInv, SessionTyped, Fields, Coverage!world
<1>9. Coverage!NoLeak'
  BY <1>5, <1>7, <1>8 DEF Coverage!NoLeak, Shown, Coverage!OfTenant, Coverage!Excluded
<1>10. Coverage!UnqualifiedIsEarned'
  <2>1. ~session'.qualified => receipt.overall = "complete"
    BY <1>8 DEF Coverage!Qualified
  <2> QED BY <1>7, <1>8, <2>1 DEF Coverage!UnqualifiedIsEarned, Coverage!OfTenant, Coverage!Excluded
<1> QED BY <1>1, <1>8, <1>9, <1>10 DEF CoverageInv

\* What is shown, and what proceeds without qualification.
LEMMA CoverageHolds == Spec => [](On("coverage") => CoverageInv)
<1>1. Init => (On("coverage") => CoverageInv)
  BY CoverageInit DEF Init, On
<1>2. (On("coverage") => CoverageInv) /\ [Next]_vars => (On("coverage") => CoverageInv)'
  <2> SUFFICES ASSUME On("coverage") => CoverageInv, [Next]_vars, On("coverage")'
               PROVE  CoverageInv'
    OBVIOUS
  <2>1. CoverageInv /\ (Coverage!Next \/ UNCHANGED coverageVars)
    BY OnePart DEF On
  <2>2. CASE UNCHANGED coverageVars
    BY <2>1, <2>2 DEF coverageVars, CoverageInv, WorldTyped, SessionTyped, Shown,
       Coverage!NoLeak, Coverage!UnqualifiedIsEarned, Coverage!Covered,
       Coverage!OfTenant, Coverage!Excluded
  <2> QED BY <2>1, <2>2, CoverageWorld, CoverageClassify, CoverageQuery, CoverageCover
          DEF Coverage!Next
<1> QED BY <1>1, <1>2, PTL DEF Spec

\* Neither the answer nor the receipt shows a memory that is not the tenant's
\* or that policy withholds, whatever the graph returns and whatever changes
\* between the three calls.
THEOREM NothingLeaks == Spec => []NoLeak
<1>1. (On("coverage") => CoverageInv) => NoLeak
  BY DEF CoverageInv, NoLeak
<1> QED BY <1>1, CoverageHolds, PTL

\* A decision to proceed without qualification is earned.
THEOREM ProceedIsEarned == Spec => []UnqualifiedIsEarned
<1>1. (On("coverage") => CoverageInv) => UnqualifiedIsEarned
  BY DEF CoverageInv, UnqualifiedIsEarned
<1> QED BY <1>1, CoverageHolds, PTL

=============================================================================
