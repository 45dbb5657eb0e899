---------------------------- MODULE DomainPacks ----------------------------
(***************************************************************************)
(* The versioned Domain Packs of one tenant: create_domain_pack and        *)
(* current_domain_pack of Talk2DataService over the pack table, which has  *)
(* a unique index on tenant and version.                                   *)
(*                                                                         *)
(* add_domain_pack puts the object into the dict, which all threads see,   *)
(* and then commits its row; the two are separate steps here, because what *)
(* memory shows between them, and after the row is refused, matters.       *)
(***************************************************************************)
EXTENDS Naturals, FiniteSets

CONSTANTS
    PackIds,        \* domain_pack_id
    PackHandlers,   \* requests that may run at the same time
    PackTimes,      \* bound: effective times, 1 .. n
    PackStatuses,   \* the statuses requests ask for
    NoPack,         \* no identifier
    MaxPackCrashes  \* bound on process crashes

VARIABLES
    packs,          \* store.domain_packs: identifier -> object in memory
    packRows,       \* the table
    creating,       \* what each request is doing
    created,        \* history: the packs whose creation was answered with 201
    overlapped,     \* history: two requests were once under way together
    presuperseded,  \* history: a request asked for a pack that is superseded already
    packCrashes

vars == <<packs, packRows, creating, created, overlapped, presuperseded, packCrashes>>

Unbounded == Cardinality(PackTimes) + 1

\* What the service reads of a TenantDomainPack.
Pack == [version : Nat \ {0}, status : {"draft", "approved", "superseded"},
         from : PackTimes, to : PackTimes \cup {Unbounded},
         by : PackIds \cup {NoPack}]

Init ==
    /\ packs = [p \in {} |-> {}]
    /\ packRows = packs
    /\ creating = [h \in PackHandlers |-> [pc |-> "idle"]]
    /\ created = {}
    /\ overlapped = FALSE
    /\ presuperseded = FALSE
    /\ packCrashes = 0

With(table, id, pack) ==
    [p \in DOMAIN table \cup {id} |-> IF p = id THEN pack ELSE table[p]]

Effective(pack, at) ==
    /\ pack.status \in {"approved", "superseded"}
    /\ pack.from <= at /\ at < pack.to

\* current_domain_pack: of the packs in force at a time, the highest version,
\* and among those the latest start; more than one when all is equal.
CurrentPacks(table, at) ==
    LET inForce == {p \in DOMAIN table : Effective(table[p], at)}
        NotAfter(p, q) == \/ table[p].version < table[q].version
                          \/ /\ table[p].version = table[q].version
                             /\ table[p].from <= table[q].from
    IN {p \in inForce : \A q \in inForce : NotAfter(q, p)}

\* The one version a request may ask for: the highest in memory, plus one.
ExpectedVersions ==
    {v \in {1} \cup {packs[p].version + 1 : p \in DOMAIN packs} :
        \A p \in DOMAIN packs : packs[p].version < v}

\* The table's unique index refuses a second row with the same version.
Refused(id) ==
    \E q \in DOMAIN packRows \ {id} : packRows[q].version = packs[id].version

Goto(h, pc) == creating' = [creating EXCEPT ![h].pc = pc]

Fail(h) == creating' = [creating EXCEPT ![h] = [pc |-> "idle"]]

\* The request passes the version check; any other version is answered 409.  A pack
\* may be approved, a draft, or superseded from the start: only an approved one
\* looks for the pack in force.
\* Identifiers are taken to be fresh, as their default is; the code would let a
\* request name one that is in use, and replace the version it belongs to.
Check(h, id, status, from, to) ==
    /\ creating[h].pc = "idle"
    /\ id \notin DOMAIN packs \cup DOMAIN packRows
    /\ \A k \in PackHandlers : creating[k].pc # "idle" => creating[k].id # id
    /\ from < to
    /\ \E version \in ExpectedVersions :
          creating' = [creating EXCEPT ![h] =
            [pc |-> IF status = "approved" THEN "close" ELSE "add", id |-> id,
             prior |-> NoPack,
             new |-> [version |-> version, status |-> status, from |-> from,
                      to |-> to, by |-> NoPack]]]
    /\ overlapped' = (overlapped \/ \E k \in PackHandlers : creating[k].pc # "idle")
    /\ presuperseded' = (presuperseded \/ status = "superseded")
    /\ UNCHANGED <<packs, packRows, created, packCrashes>>

\* Mutant: the prior version keeps its interval.
CloseLeavesInterval(h) ==
    LET new == creating[h].new
        prior == CurrentPacks(packs, new.from)
    IN /\ creating[h].pc = "close"
       /\ \/ prior = {} /\ Goto(h, "add") /\ UNCHANGED packs
          \/ \E p \in prior :
                /\ packs' = [packs EXCEPT ![p].status = "superseded",
                                          ![p].by = creating[h].id]
                /\ creating' = [creating EXCEPT ![h].pc = "closeRow", ![h].prior = p]
       /\ UNCHANGED <<packRows, created, overlapped, presuperseded, packCrashes>>

\* An approved pack closes the one in force when it takes effect.  Nothing
\* relates its start to the start of the interval it closes.
Close(h) ==
    LET new == creating[h].new
        prior == CurrentPacks(packs, new.from)
    IN /\ creating[h].pc = "close"
       /\ \/ prior = {} /\ Goto(h, "add") /\ UNCHANGED packs
          \/ prior # {} /\ Fail(h) /\ UNCHANGED packs   \* it names another pack
          \/ \E p \in prior :
                /\ packs' = [packs EXCEPT ![p].status = "superseded",
                                          ![p].by = creating[h].id,
                                          ![p].to = new.from]
                /\ creating' = [creating EXCEPT ![h].pc = "closeRow", ![h].prior = p]
       /\ UNCHANGED <<packRows, created, overlapped, presuperseded, packCrashes>>

\* The closed pack's row is merged, or the index refuses it.
CloseRow(h) ==
    LET prior == creating[h].prior
    IN /\ creating[h].pc = "closeRow"
       /\ IF Refused(prior)
          THEN Fail(h) /\ UNCHANGED packRows
          ELSE Goto(h, "add") /\ packRows' = With(packRows, prior, packs[prior])
       /\ UNCHANGED <<packs, created, overlapped, presuperseded, packCrashes>>

\* add_domain_pack(candidate), its dict entry.
Add(h) ==
    /\ creating[h].pc = "add"
    /\ packs' = With(packs, creating[h].id, creating[h].new)
    /\ Goto(h, "addRow")
    /\ UNCHANGED <<packRows, created, overlapped, presuperseded, packCrashes>>

\* Its row.  When the index refuses it, the request fails and the object stays
\* in memory.
AddRow(h) ==
    LET id == creating[h].id
    IN /\ creating[h].pc = "addRow"
       /\ IF Refused(id)
          THEN UNCHANGED <<packRows, created>>
          ELSE /\ packRows' = With(packRows, id, packs[id])
               /\ created' = created \cup {id}
       /\ Fail(h)
       /\ UNCHANGED <<packs, overlapped, presuperseded, packCrashes>>

\* The process dies; it comes up again if reload accepts every row: a pack may
\* not end before it begins.
Restart ==
    /\ packCrashes < MaxPackCrashes
    /\ \A p \in DOMAIN packRows : packRows[p].from < packRows[p].to
    /\ packs' = packRows
    /\ creating' = [h \in PackHandlers |-> [pc |-> "idle"]]
    /\ packCrashes' = packCrashes + 1
    /\ UNCHANGED <<packRows, created, overlapped, presuperseded>>

Next ==
    \/ Restart
    \/ \E h \in PackHandlers :
          \/ \E id \in PackIds, status \in PackStatuses, from \in PackTimes,
                to \in PackTimes \cup {Unbounded} : Check(h, id, status, from, to)
          \/ Close(h)
          \/ CloseRow(h)
          \/ Add(h)
          \/ AddRow(h)

Spec == Init /\ [][Next]_vars

-----------------------------------------------------------------------------
(* Properties.                                                             *)

\* Of requests that create the same version at the same time, one is answered
\* 201: two created packs never share a version, over crashes as well.
VersionsOnce ==
    \A p, q \in created :
       p # q => packRows[p].version # packRows[q].version

InOrder(table) ==
    \A p, q \in DOMAIN table :
       table[p].version < table[q].version => table[p].from <= table[q].from

OneAtATime(table) ==
    \A p, q \in DOMAIN table, t \in PackTimes :
       Effective(table[p], t) /\ Effective(table[q], t) => p = q

\* As long as requests do not overlap, none asks for a pack that is superseded
\* already, and versions take effect in the order of their numbers, at most one
\* stored pack is in force at any time: whatever request fails or is cut short
\* between closing the prior version and storing the next.
IntervalsDisjoint ==
    ~overlapped /\ ~presuperseded /\ InOrder(packRows) => OneAtATime(packRows)

\* The versions of a tenant's pack are one line of history: created once each, and,
\* under those conditions, in force one after the other.
HistoryIsLinear == VersionsOnce /\ IntervalsDisjoint

=============================================================================
