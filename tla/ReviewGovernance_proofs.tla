----------------------- MODULE ReviewGovernance_proofs -----------------------
(***************************************************************************)
(* Theorems about ReviewGovernance, for every number of items, handlers,   *)
(* revisions, crashes and failed transactions.                             *)
(***************************************************************************)
EXTENDS ReviewGovernance, TLAPS

-----------------------------------------------------------------------------
(* Type correctness.                                                       *)

LEMMA IdleType == Idle \in Hand
  BY ReviewAssumption
     DEF Idle, Hand, Steps, Ops, Requests, Copies, Item, NoItem, Statuses

LEMMA NoItemType == NoItem \in Item
  BY DEF NoItem, Item, Statuses

LEMMA OutcomeType ==
  ASSUME NEW op, NEW status \in Statuses
  PROVE  Outcome(op, status) \in Statuses
  BY DEF Outcome, Statuses

LEMMA ChangedType ==
  ASSUME TypeOK, NEW h \in Handlers, hand[h].item \in Items, NEW c \in Contents \cup {None}
  PROVE  Changed(h, c) \in Item
<1> DEFINE old == heap[hand[h].item][hand[h].ref]
<1>1. old \in Item
  BY DEF TypeOK, Hand
<1>2. Outcome(hand[h].op, old.status) \in Statuses
  BY <1>1, OutcomeType DEF Item
<1>3. old.revision + 1 \in Nat
  BY <1>1 DEF Item
<1> QED
  BY <1>2, <1>3 DEF Changed, Item

\* What every step may rely on about the request it serves.
Busy(h) == hand[h].pc # "idle" => hand[h].item \in Items

TypeInv == TypeOK /\ \A h \in Handlers : Busy(h)

LEMMA GotoType ==
  ASSUME TypeInv, NEW h \in Handlers, hand[h].pc # "idle", NEW s \in Steps, Goto(h, s)
  PROVE  /\ hand' \in [Handlers -> Hand]
         /\ \A g \in Handlers : Busy(g)'
<1>1. hand \in [Handlers -> Hand] /\ hand[h].item \in Items
  BY DEF TypeInv, TypeOK, Busy
<1>2. hand' = [hand EXCEPT ![h] = [hand[h] EXCEPT !.pc = s]]
  BY DEF Goto
<1>3. [hand[h] EXCEPT !.pc = s] \in Hand
  BY <1>1 DEF Hand
<1>4. hand' \in [Handlers -> Hand]
  BY <1>1, <1>2, <1>3
<1>5. ASSUME NEW g \in Handlers PROVE Busy(g)'
  BY <1>1, <1>2, <1>5 DEF TypeInv, Busy, Hand
<1> QED
  BY <1>4, <1>5

LEMMA FinishType ==
  ASSUME TypeInv, NEW h \in Handlers, Finish(h)
  PROVE  /\ hand' \in [Handlers -> Hand]
         /\ \A g \in Handlers : Busy(g)'
  BY IdleType DEF TypeInv, TypeOK, Finish, Busy, Idle

LEMMA PayloadType ==
  ASSUME TypeInv, NEW h \in Handlers, hand[h].pc # "idle", NEW s \in Steps,
         NEW it \in Item, hand' = [hand EXCEPT ![h].pc = s, ![h].row = it]
  PROVE  /\ hand' \in [Handlers -> Hand]
         /\ \A g \in Handlers : Busy(g)'
<1>1. hand \in [Handlers -> Hand] /\ hand[h].item \in Items
  BY DEF TypeInv, TypeOK, Busy
<1>2. hand' = [hand EXCEPT ![h] = [hand[h] EXCEPT !.pc = s, !.row = it]]
  OBVIOUS
<1>3. [hand[h] EXCEPT !.pc = s, !.row = it] \in Hand
  BY <1>1 DEF Hand
<1>4. hand' \in [Handlers -> Hand]
  BY <1>1, <1>2, <1>3
<1>5. ASSUME NEW g \in Handlers PROVE Busy(g)'
  BY <1>1, <1>2, <1>5 DEF TypeInv, Busy, Hand
<1> QED
  BY <1>4, <1>5

LEMMA TypeStep ==
  ASSUME TypeInv, [Next]_vars
  PROVE  TypeInv'
<1> USE DEF memory, rows, faults
<1>0. /\ TypeOK
      /\ hand \in [Handlers -> Hand]
      /\ \A h \in Handlers : Busy(h)
  BY DEF TypeInv, TypeOK
<1>1. ASSUME NEW h \in Handlers, NEW i \in Items, NEW c \in Contents,
             NEW op \in {"submit", "quality_submit"}, Submit(h, i, c, op)
      PROVE  TypeInv'
  <2> DEFINE new == [status |-> "human_review_required", revision |-> 1, content |-> c]
  <2>1. new \in Item
    BY DEF Item, Statuses
  <2>2. heap' \in [Items -> [Copies -> Item]]
    BY <1>1, <2>1 DEF Submit, TypeInv, TypeOK
  <2>3. hand' = [hand EXCEPT ![h] = [Idle EXCEPT !.pc = "reviewRow", !.op = op,
                                       !.item = i, !.ref = "detached", !.row = new]]
    BY <1>1 DEF Submit
  <2>4. [Idle EXCEPT !.pc = "reviewRow", !.op = op,
                     !.item = i, !.ref = "detached", !.row = new] \in Hand
    BY <2>1, IdleType DEF Hand, Steps, Ops, Copies
  <2>5. /\ hand' \in [Handlers -> Hand]
        /\ \A g \in Handlers : Busy(g)'
    BY <1>0, <2>3, <2>4 DEF Busy
  <2>6. cell' \in [Items -> Copies \cup {"none"}]
    BY <1>1 DEF Submit, TypeInv, TypeOK, Copies
  <2> QED
    BY <1>1, <2>2, <2>5, <2>6 DEF Submit, TypeInv, TypeOK
<1>2. ASSUME NEW h \in Handlers, NEW i \in Items, NEW op \in Requests,
             NEW guarded \in BOOLEAN, Begin(h, i, op, guarded)
      PROVE  TypeInv'
  <2>1. PICK current \in Replaced(op, i) :
          hand' = [hand EXCEPT ![h] =
                     [Idle EXCEPT !.pc = "checked", !.op = op, !.item = i,
                        !.ref = cell[i], !.base = heap[i][cell[i]].revision,
                        !.guarded = guarded, !.current = current]]
    BY <1>2 DEF Begin
  <2>2. current \in Nat
    BY <2>1 DEF Replaced, TypeInv, TypeOK
  <2>3. cell[i] \in Copies /\ heap[i][cell[i]].revision \in Nat
    BY <1>2 DEF Begin, TypeInv, TypeOK, Item
  <2>4. [Idle EXCEPT !.pc = "checked", !.op = op, !.item = i,
           !.ref = cell[i], !.base = heap[i][cell[i]].revision,
           !.guarded = guarded, !.current = current] \in Hand
    BY <2>2, <2>3, IdleType DEF Hand, Steps, Ops
  <2>5. /\ hand' \in [Handlers -> Hand]
        /\ \A g \in Handlers : Busy(g)'
    BY <1>0, <2>1, <2>4, IdleType DEF Busy, Hand
  <2> QED
    BY <1>2, <2>5 DEF Begin, TypeInv, TypeOK
<1>3. ASSUME NEW h \in Handlers, Apply(h) PROVE TypeInv'
  <2>1. PICK c \in Contents :
          /\ heap' = [heap EXCEPT ![hand[h].item][hand[h].ref] = Changed(h, c)]
          /\ hand' = [hand EXCEPT ![h].pc = "reviewRow", ![h].row = Changed(h, c)]
          /\ approvals' = IF hand[h].op = "approve"
                          THEN approvals \cup {<<hand[h].item, c>>} ELSE approvals
    BY <1>3 DEF Apply
  <2>2. hand[h].item \in Items /\ hand[h].ref \in Copies
    BY <1>3, <1>0 DEF Apply, Busy, Hand
  <2>3. Changed(h, c) \in Item
    BY <1>0, <2>2, ChangedType
  <2>4. heap' \in [Items -> [Copies -> Item]]
    BY <2>1, <2>2, <2>3 DEF TypeInv, TypeOK
  <2>5. /\ hand' \in [Handlers -> Hand]
        /\ \A g \in Handlers : Busy(g)'
    BY <1>0, <1>3, <2>1, <2>3, PayloadType DEF Steps, Apply
  <2>6. approvals' \subseteq Items \X Contents
    BY <2>1, <2>2 DEF TypeInv, TypeOK
  <2>7. cell' \in [Items -> Copies \cup {"none"}]
    BY <1>3, <2>2 DEF Apply, TypeInv, TypeOK
  <2> QED
    BY <1>3, <2>4, <2>5, <2>6, <2>7 DEF Apply, TypeInv, TypeOK
<1>4. ASSUME NEW h \in Handlers, Assign(h) PROVE TypeInv'
  <2> DEFINE new == Changed(h, heap[hand[h].item][hand[h].ref].content)
  <2>1. hand[h].item \in Items /\ hand[h].ref \in Copies
    BY <1>4, <1>0 DEF Assign, Busy, Hand
  <2>2. new \in Item
    BY <2>1, ChangedType DEF TypeInv, TypeOK, Item
  <2>3. heap' \in [Items -> [Copies -> Item]]
    BY <1>4, <2>1, <2>2 DEF Assign, TypeInv, TypeOK
  <2>4. /\ hand' \in [Handlers -> Hand]
        /\ \A g \in Handlers : Busy(g)'
    BY <1>4, <2>2, PayloadType DEF Assign, Steps
  <2>5. cell' \in [Items -> Copies \cup {"none"}]
    BY <1>4, <2>1 DEF Assign, TypeInv, TypeOK
  <2>6. active' \in [Items -> SUBSET Nat]
    BY <1>4, <2>1 DEF Assign, TypeInv, TypeOK
  <2> QED
    BY <1>4, <2>3, <2>4, <2>5, <2>6 DEF Assign, TypeInv, TypeOK
<1>5. ASSUME NEW h \in Handlers, AddAssignment(h) PROVE TypeInv'
  <2>1. /\ hand' \in [Handlers -> Hand]
        /\ \A g \in Handlers : Busy(g)'
    BY <1>5, FinishType DEF AddAssignment
  <2>2. hand[h].item \in Items /\ issued + 1 \in Nat
    BY <1>5, <1>0 DEF AddAssignment, Busy, TypeOK
  <2>3. active[hand[h].item] \cup {issued + 1} \in SUBSET Nat
    BY <2>2 DEF TypeInv, TypeOK
  <2>4. active' \in [Items -> SUBSET Nat]
    BY <1>5, <2>2, <2>3 DEF AddAssignment, TypeInv, TypeOK
  <2> QED
    BY <1>5, <2>1, <2>2, <2>4 DEF AddAssignment, TypeInv, TypeOK
<1>6. ASSUME NEW h \in Handlers, PublishCandidate(h) PROVE TypeInv'
  <2> DEFINE new == Changed(h, heap[hand[h].item][hand[h].ref].content)
  <2>1. hand[h].item \in Items /\ hand[h].ref \in Copies
    BY <1>6, <1>0 DEF PublishCandidate, Busy, Hand
  <2>2. new \in Item
    BY <2>1, ChangedType DEF TypeInv, TypeOK, Item
  <2>3. heap' \in [Items -> [Copies -> Item]]
    BY <1>6, <2>1, <2>2 DEF PublishCandidate, TypeInv, TypeOK
  <2>4. /\ hand' \in [Handlers -> Hand]
        /\ \A g \in Handlers : Busy(g)'
    BY <1>6, <2>2, PayloadType DEF PublishCandidate, Steps
  <2>5. object' \in [Items -> [from : Copies \cup {"none", "copy"},
                              content : Contents \cup {None}]]
    BY <1>6, <2>1 DEF PublishCandidate, TypeInv, TypeOK
  <2> QED
    BY <1>6, <2>3, <2>4, <2>5 DEF PublishCandidate, TypeInv, TypeOK
<1>7. ASSUME NEW h \in Handlers, PublishCopy(h) PROVE TypeInv'
  <2> DEFINE live == heap[hand[h].item][hand[h].ref]
  <2>1. hand[h].item \in Items /\ hand[h].ref \in Copies
    BY <1>7, <1>0 DEF PublishCopy, Busy, Hand
  <2>2. live \in Item /\ live.content \in Contents \cup {None}
    BY <2>1 DEF TypeInv, TypeOK, Item
  <2>3. /\ hand' \in [Handlers -> Hand]
        /\ \A g \in Handlers : Busy(g)'
    BY <1>7, <2>2, PayloadType DEF PublishCopy, Steps
  <2>4. object' \in [Items -> [from : Copies \cup {"none", "copy"},
                              content : Contents \cup {None}]]
    BY <1>7, <2>1, <2>2 DEF PublishCopy, TypeInv, TypeOK
  <2> QED
    BY <1>7, <2>3, <2>4 DEF PublishCopy, TypeInv, TypeOK
<1>8. ASSUME NEW h \in Handlers, CommitReviewRow(h) PROVE TypeInv'
  <2>1. /\ hand' \in [Handlers -> Hand]
        /\ \A g \in Handlers : Busy(g)'
    <3>1. AfterReviewRow(hand[h].op) \in Steps
      BY DEF AfterReviewRow, Steps
    <3> QED
      BY <1>8, <3>1, GotoType, FinishType DEF CommitReviewRow
  <2>2. reviewRow' \in [Items -> Item]
    BY <1>0, <1>8 DEF CommitReviewRow, TypeOK, Hand
  <2> QED
    BY <1>8, <2>1, <2>2 DEF CommitReviewRow, TypeInv, TypeOK
<1>9. ASSUME NEW h \in Handlers, CommitObjectRow(h) PROVE TypeInv'
  <2>1. hand[h].item \in Items /\ hand[h].ref \in Copies /\ hand[h].row \in Item
    BY <1>9, <1>0 DEF CommitObjectRow, Busy, Hand
  <2>2. heap[hand[h].item][hand[h].ref] \in Item
    BY <2>1 DEF TypeInv, TypeOK
  <2>3. /\ hand' \in [Handlers -> Hand]
        /\ \A g \in Handlers : Busy(g)'
    BY <1>9, <2>2, PayloadType, GotoType DEF CommitObjectRow, Steps
  <2>4. cell' \in [Items -> Copies \cup {"none"}]
    BY <1>9, <2>1 DEF CommitObjectRow, TypeInv, TypeOK
  <2>5. objectRow' \in [Items -> Contents \cup {None}]
    BY <1>9, <2>1 DEF CommitObjectRow, TypeInv, TypeOK, Item
  <2> QED
    BY <1>9, <2>3, <2>4, <2>5 DEF CommitObjectRow, TypeInv, TypeOK
<1>10. ASSUME NEW h \in Handlers, AddLinks(h) PROVE TypeInv'
  <2>1. /\ hand' \in [Handlers -> Hand]
        /\ \A g \in Handlers : Busy(g)'
    BY <1>10, GotoType DEF AddLinks, Steps
  <2>2. hand[h].item \in Items
    BY <1>10, <1>0 DEF AddLinks, Busy
  <2>3. edges' \in [Items -> Nat]
    BY <1>10, <2>2 DEF AddLinks, TypeInv, TypeOK
  <2> QED
    BY <1>10, <2>1, <2>3 DEF AddLinks, TypeInv, TypeOK
<1>11. ASSUME NEW h \in Handlers, AuditPublication(h) PROVE TypeInv'
  BY <1>11, FinishType DEF AuditPublication, TypeInv, TypeOK, Busy
<1>12. ASSUME NEW h \in Handlers, Audit(h) PROVE TypeInv'
  BY <1>12, FinishType, GotoType DEF Audit, TypeInv, TypeOK, Steps
<1>13. ASSUME NEW h \in Handlers, Stamp(h) PROVE TypeInv'
  <2>1. hand[h].item \in Items /\ heap[hand[h].item]["detached"] \in Item
    BY <1>13, <1>0 DEF Stamp, Busy, TypeOK, Copies
  <2>2. hand' = [hand EXCEPT ![h] = [hand[h] EXCEPT !.pc = "reviewRow", !.op = "stamp",
                                       !.row = heap[hand[h].item]["detached"]]]
    BY <1>13 DEF Stamp
  <2>3. [hand[h] EXCEPT !.pc = "reviewRow", !.op = "stamp",
                        !.row = heap[hand[h].item]["detached"]] \in Hand
    BY <1>0, <2>1 DEF Hand, Steps, Ops
  <2>4. /\ hand' \in [Handlers -> Hand]
        /\ \A g \in Handlers : Busy(g)'
    BY <1>0, <2>1, <2>2, <2>3 DEF Busy, Hand
  <2>5. cell' \in [Items -> Copies \cup {"none"}]
    BY <1>13 DEF Stamp, TypeInv, TypeOK, Copies
  <2> QED
    BY <1>13, <2>4, <2>5 DEF Stamp, TypeInv, TypeOK
<1>14. ASSUME NEW h \in Handlers, DbError(h) PROVE TypeInv'
  BY <1>14, FinishType DEF DbError, TypeInv, TypeOK
<1>15. CASE Restart
  <2>1. /\ hand' \in [Handlers -> Hand]
        /\ \A g \in Handlers : Busy(g)'
    BY <1>15, IdleType DEF Restart, Busy, Idle
  <2>2. heap' \in [Items -> [Copies -> Item]]
    BY <1>15, NoItemType DEF Restart, TypeInv, TypeOK
  <2>3. cell' \in [Items -> Copies \cup {"none"}]
    BY <1>15 DEF Restart, Copies
  <2>4. object' \in [Items -> [from : Copies \cup {"none", "copy"},
                              content : Contents \cup {None}]]
    BY <1>15 DEF Restart, TypeInv, TypeOK, NoObject
  <2> QED
    BY <1>15, <2>1, <2>2, <2>3, <2>4 DEF Restart, TypeInv, TypeOK
<1>16. CASE UNCHANGED vars
  BY <1>16 DEF vars, TypeInv, TypeOK, Busy
<1> QED
  BY <1>1, <1>2, <1>3, <1>4, <1>5, <1>6, <1>7, <1>8, <1>9, <1>10, <1>11, <1>12,
     <1>13, <1>14, <1>15, <1>16 DEF Next, HandlerStep

LEMMA TypeInit == Init => TypeInv
<1> SUFFICES ASSUME Init PROVE TypeInv
  OBVIOUS
<1>1. hand \in [Handlers -> Hand] /\ \A h \in Handlers : Busy(h)
  BY IdleType DEF Init, Busy, Idle
<1>2. heap \in [Items -> [Copies -> Item]] /\ reviewRow \in [Items -> Item]
  BY NoItemType DEF Init
<1>3. cell \in [Items -> Copies \cup {"none"}]
  BY DEF Init
<1>4. object \in [Items -> [from : Copies \cup {"none", "copy"},
                          content : Contents \cup {None}]]
  BY DEF Init, NoObject
<1> QED
  BY <1>1, <1>2, <1>3, <1>4 DEF Init, TypeInv, TypeOK

LEMMA TypeInvariance == Spec => []TypeInv
BY TypeInit, TypeStep, PTL DEF Spec

\* Every variable keeps its type, and no request ever leaves an item in a
\* status that the workflow does not use, such as publication_pending.
THEOREM TypeCorrectness == Spec => []TypeOK
<1>1. TypeInv => TypeOK
  BY DEF TypeInv
<1> QED
  BY <1>1, TypeInvariance, PTL

-----------------------------------------------------------------------------
(* Nothing becomes official that no reviewer approved, and no publication  *)
(* is announced before its object is durable.  Both need to know what the  *)
(* handlers carry between their steps: a decided status is always backed   *)
(* by an approval, whether it is in memory, in a row, or in a payload that *)
(* some handler has serialised and not committed yet.                      *)

Real(it) == it.status # "absent" /\ it.content \in Contents

Decided(it) == it.status \in {"approved", "published"}

Approved(i) == \E c \in Contents : <<i, c>> \in approvals

ItemSafe(i) ==
    /\ \A k \in Copies : heap[i][k] = NoItem \/ Real(heap[i][k])
    /\ cell[i] # "none" => Real(heap[i][cell[i]])
    /\ reviewRow[i] = NoItem \/ Real(reviewRow[i])
    /\ \A k \in Copies : Decided(heap[i][k]) => Approved(i)
    /\ Decided(reviewRow[i]) => Approved(i)
    /\ objectRow[i] # None => Approved(i)
    /\ i \in audit \/ edges[i] > 0 => objectRow[i] # None

HandSafe(h) ==
    LET me == hand[h]
        i == me.item
    IN me.pc # "idle" =>
         /\ Real(heap[i][me.ref])
         /\ me.op \in {"submit", "quality_submit", "stamp"} => me.ref = "detached"
         /\ me.pc \in {"reviewRow", "objectRow"} => Real(me.row)
         /\ me.pc = "reviewRow" /\ Decided(me.row) => Approved(i)
         /\ me.op = "publish" \/ me.pc = "objectRow" => Approved(i)
         /\ me.pc = "reviewRow" /\ me.op = "publish" => objectRow[i] # None
         /\ me.pc \in {"links", "publicationAudit"} => objectRow[i] # None
         /\ me.op = "approve" /\ me.pc # "checked" => Approved(i)
         /\ me.pc = "copy" => me.op = "approve"
         /\ me.pc = "stamp" => me.op = "quality_submit"

ApprovalInv ==
    /\ TypeInv
    /\ \A i \in Items : ItemSafe(i)
    /\ \A h \in Handlers : HandSafe(h)

\* What no step takes away from a handler that is waiting for its turn.
Grows ==
    /\ approvals \subseteq approvals'
    /\ \A i \in Items : \A k \in Copies : Real(heap[i][k]) => Real(heap'[i][k])
    /\ \A i \in Items : objectRow[i] # None => objectRow'[i] # None

LEMMA WaitingHandSafe ==
  ASSUME ApprovalInv, Grows, NEW g \in Handlers, hand'[g] = hand[g]
  PROVE  HandSafe(g)'
<1>1. HandSafe(g) /\ Busy(g)
  BY DEF ApprovalInv, TypeInv
<1>2. hand[g].ref \in Copies
  BY DEF ApprovalInv, TypeInv, TypeOK, Hand
<1>3. CASE hand[g].pc = "idle"
  BY <1>3 DEF HandSafe
<1>4. CASE hand[g].pc # "idle"
  <2>1. hand[g].item \in Items
    BY <1>1, <1>4 DEF Busy
  <2>2. Real(heap'[hand[g].item][hand[g].ref])
    BY <1>1, <1>2, <1>4, <2>1 DEF HandSafe, Grows
  <2>3. Approved(hand[g].item) => Approved(hand[g].item)'
    BY DEF Approved, Grows
  <2> QED
    BY <1>1, <1>4, <2>1, <2>2, <2>3 DEF HandSafe, Grows
<1> QED
  BY <1>3, <1>4

\* One handler moves: the others wait.
LEMMA HandsSafe ==
  ASSUME ApprovalInv, Grows, NEW h \in Handlers, HandSafe(h)',
         \A g \in Handlers \ {h} : hand'[g] = hand[g]
  PROVE  \A g \in Handlers : HandSafe(g)'
BY WaitingHandSafe

LEMMA ChangedReal ==
  ASSUME NEW h \in Handlers, NEW c \in Contents,
         Real(heap[hand[h].item][hand[h].ref])
  PROVE  Real(Changed(h, c))
BY DEF Changed, Real, Outcome

\* A request leaves a decided item only where the item was decided already,
\* or where the request is the decision.
LEMMA ChangedDecided ==
  ASSUME NEW h \in Handlers, NEW c, Decided(Changed(h, c))
  PROVE  \/ hand[h].op \in {"approve", "publish"}
         \/ Decided(heap[hand[h].item][hand[h].ref])
BY DEF Changed, Decided, Outcome

LEMMA ApprovalInit == Init => ApprovalInv
<1> SUFFICES ASSUME Init PROVE ApprovalInv
  OBVIOUS
<1>1. ~Decided(NoItem)
  BY DEF NoItem, Decided
<1>2. ASSUME NEW i \in Items PROVE ItemSafe(i)
  <2>1. /\ \A k \in Copies : heap[i][k] = NoItem
        /\ reviewRow[i] = NoItem /\ cell[i] = "none" /\ objectRow[i] = None
    BY DEF Init
  <2>2. i \notin audit /\ ~(edges[i] > 0)
    BY DEF Init
  <2> QED
    BY <1>1, <2>1, <2>2 DEF ItemSafe
<1>3. \A h \in Handlers : HandSafe(h)
  BY DEF Init, HandSafe, Idle
<1> QED
  BY <1>2, <1>3, TypeInit DEF ApprovalInv

LEMMA ApprovalStep ==
  ASSUME ApprovalInv, [Next]_vars
  PROVE  ApprovalInv'
<1> USE DEF memory, rows, faults
<1>0. /\ TypeInv /\ TypeInv' /\ TypeOK
      /\ \A i \in Items : ItemSafe(i)
      /\ \A h \in Handlers : HandSafe(h) /\ Busy(h)
  BY TypeStep DEF ApprovalInv, TypeInv
<1> DEFINE Safe == (\A i \in Items : ItemSafe(i)') /\ (\A h \in Handlers : HandSafe(h)')
<1>1. ASSUME NEW h \in Handlers, NEW i \in Items, NEW c \in Contents,
             NEW op \in {"submit", "quality_submit"}, Submit(h, i, c, op)
      PROVE  Safe
  <2> DEFINE new == [status |-> "human_review_required", revision |-> 1, content |-> c]
  <2>1. Real(new) /\ ~Decided(new)
    BY DEF Real, Decided
  <2>2. heap' = [heap EXCEPT ![i] = [k \in Copies |-> new]]
    BY <1>1 DEF Submit
  <2>3. Grows
    BY <1>1, <2>1, <2>2, <1>0 DEF Submit, Grows, TypeOK
  <2>4. \A j \in Items : ItemSafe(j)'
    <3>1. ASSUME NEW j \in Items PROVE ItemSafe(j)'
      <4>1. \A k \in Copies : heap'[j][k] = IF j = i THEN new ELSE heap[j][k]
        BY <1>0, <2>2 DEF TypeOK
      <4>2. cell'[j] = IF j = i THEN "stored" ELSE cell[j]
        BY <1>0, <1>1 DEF Submit, TypeOK
      <4>3. ItemSafe(j) /\ "stored" \in Copies
        BY <1>0 DEF Copies
      <4>4. cell[j] # "none" => cell[j] \in Copies
        BY <1>0 DEF TypeOK
      <4> HIDE DEF new
      <4> QED
        BY <1>1, <2>1, <4>1, <4>2, <4>3, <4>4 DEF Submit, ItemSafe, Approved
    <3> QED
      BY <3>1
  <2>5. /\ hand'[h].pc = "reviewRow" /\ hand'[h].op = op /\ hand'[h].item = i
        /\ hand'[h].ref = "detached" /\ hand'[h].row = new
    BY <1>1, <1>0 DEF Submit, TypeOK, Idle
  <2>6. HandSafe(h)'
    BY <2>1, <2>2, <2>5, <1>0 DEF HandSafe, TypeOK, Copies
  <2>7. \A g \in Handlers \ {h} : hand'[g] = hand[g]
    BY <1>1, <1>0 DEF Submit, TypeOK
  <2> QED
    BY <2>3, <2>4, <2>6, <2>7, HandsSafe
<1>2. ASSUME NEW h \in Handlers, NEW i \in Items, NEW op \in Requests,
             NEW guarded \in BOOLEAN, Begin(h, i, op, guarded)
      PROVE  Safe
  <2>1. Grows
    BY <1>2 DEF Begin, Grows
  <2>2. \A j \in Items : ItemSafe(j)'
    BY <1>2, <1>0 DEF Begin, ItemSafe, Approved
  <2>3. /\ hand'[h].pc = "checked" /\ hand'[h].op = op /\ hand'[h].item = i
        /\ hand'[h].ref = cell[i]
    BY <1>2, <1>0 DEF Begin, TypeOK, Idle
  <2>4. \A g \in Handlers \ {h} : hand'[g] = hand[g]
    BY <1>2, <1>0 DEF Begin, TypeOK
  <2>5. op = "publish" => Decided(heap[i][cell[i]])
    BY <1>2 DEF Begin, Allowed, Decided
  <2>6. cell[i] \in Copies
    BY <1>2, <1>0 DEF Begin, TypeOK
  <2>7. HandSafe(h)'
    BY <1>2, <1>0, <2>3, <2>5, <2>6 DEF Begin, HandSafe, ItemSafe, Requests, Approved
  <2> QED
    BY <2>1, <2>2, <2>4, <2>7, HandsSafe
<1>3. ASSUME NEW h \in Handlers, hand[h].pc = "checked", NEW new, NEW s \in Steps,
             \E c \in Contents : new = Changed(h, c),
             heap' = [heap EXCEPT ![hand[h].item][hand[h].ref] = new],
             hand' = [hand EXCEPT ![h].pc = s, ![h].row = new],
             UNCHANGED <<reviewRow, objectRow, edges, audit>>,
             \/ cell' = [cell EXCEPT ![hand[h].item] = hand[h].ref]
                /\ s = "reviewRow" /\ hand[h].op # "publish"
             \/ UNCHANGED cell /\ s = "objectRow" /\ hand[h].op = "publish",
             approvals \subseteq approvals',
             hand[h].op = "approve" => Approved(hand[h].item)'
      PROVE  Safe
  <2> DEFINE i == hand[h].item
  <2>1. /\ i \in Items /\ hand[h].ref \in Copies /\ Real(heap[i][hand[h].ref])
        /\ hand \in [Handlers -> Hand]
    BY <1>0, <1>3 DEF TypeOK, Hand, Busy, HandSafe
  <2>2. Real(new)
    BY <1>3, <2>1, ChangedReal
  <2>3. \A j \in Items : Approved(j) => Approved(j)'
    BY <1>3 DEF Approved
  <2>4. Decided(new) => Approved(i)'
    BY <1>3, <1>0, <2>1, <2>3, ChangedDecided DEF ItemSafe, HandSafe
  <2>5. Grows
    BY <1>3, <2>1, <2>2, <1>0 DEF Grows, TypeOK
  <2>6. \A j \in Items : ItemSafe(j)'
    <3>1. ASSUME NEW j \in Items, NEW k \in Copies
          PROVE  /\ heap'[j][k] = NoItem \/ Real(heap'[j][k])
                 /\ Decided(heap'[j][k]) => Approved(j)'
      BY <1>3, <1>0, <2>1, <2>2, <2>3, <2>4 DEF ItemSafe, TypeOK
    <3>2. ASSUME NEW j \in Items PROVE cell'[j] # "none" => Real(heap'[j][cell'[j]])
      BY <1>3, <1>0, <2>1, <2>2, <2>5 DEF ItemSafe, TypeOK, Grows
    <3> QED
      BY <1>3, <1>0, <2>3, <3>1, <3>2 DEF ItemSafe
  <2>7. /\ hand'[h].pc = s /\ hand'[h].row = new /\ hand'[h].ref = hand[h].ref
        /\ hand'[h].op = hand[h].op /\ hand'[h].item = i
    BY <1>3, <2>1 DEF Hand
  <2>8. Real(heap'[i][hand[h].ref])
    BY <2>1, <2>5 DEF Grows
  <2>9. HandSafe(h)'
    BY <1>3, <1>0, <2>1, <2>2, <2>3, <2>4, <2>7, <2>8 DEF HandSafe
  <2>10. \A g \in Handlers \ {h} : hand'[g] = hand[g]
    BY <1>3, <2>1
  <2> QED
    BY <2>5, <2>6, <2>9, <2>10, HandsSafe
<1>4. ASSUME NEW h \in Handlers, Apply(h) PROVE Safe
  <2>1. hand[h].item \in Items
    BY <1>4, <1>0 DEF Apply, Busy
  <2>2. PICK c \in Contents :
          /\ heap' = [heap EXCEPT ![hand[h].item][hand[h].ref] = Changed(h, c)]
          /\ hand' = [hand EXCEPT ![h].pc = "reviewRow", ![h].row = Changed(h, c)]
          /\ approvals' = IF hand[h].op = "approve"
                          THEN approvals \cup {<<hand[h].item, c>>} ELSE approvals
    BY <1>4 DEF Apply
  <2>3. approvals \subseteq approvals'
    BY <2>2
  <2>4. hand[h].op = "approve" => Approved(hand[h].item)'
    <3>1. hand'[h].item = hand[h].item
      BY <2>2, <1>0 DEF TypeOK, Hand
    <3> QED
      BY <2>2, <3>1 DEF Approved
  <2> QED
    BY <1>3, <1>4, <2>2, <2>3, <2>4 DEF Apply, Steps
<1>5. ASSUME NEW h \in Handlers, Assign(h) \/ PublishCandidate(h) PROVE Safe
  <2> DEFINE c == heap[hand[h].item][hand[h].ref].content
  <2>1. hand[h].pc = "checked"
    BY <1>5 DEF Assign, PublishCandidate
  <2>2. c \in Contents
    BY <2>1, <1>0 DEF HandSafe, Real
  <2> QED
    BY <1>3, <1>5, <2>1, <2>2 DEF Assign, PublishCandidate, Steps
<1>6. ASSUME NEW h \in Handlers, Finish(h), Grows, \A i \in Items : ItemSafe(i)'
      PROVE  Safe
  <2>1. \A g \in Handlers \ {h} : hand'[g] = hand[g]
    BY <1>6, <1>0 DEF Finish, TypeOK
  <2>2. HandSafe(h)'
    BY <1>6, <1>0 DEF Finish, TypeOK, HandSafe, Idle
  <2> QED
    BY <1>6, <2>1, <2>2, HandsSafe
<1>7. ASSUME NEW h \in Handlers,
             \/ AddAssignment(h)
             \/ AuditPublication(h)
             \/ DbError(h)
      PROVE  Safe
  <2>1. Finish(h) /\ Grows
    BY <1>7 DEF AddAssignment, AuditPublication, DbError, Grows
  <2>2. \A i \in Items : ItemSafe(i)'
    BY <1>7, <1>0
       DEF AddAssignment, AuditPublication, DbError, ItemSafe, Approved, HandSafe
  <2> QED
    BY <1>6, <2>1, <2>2
<1>8. ASSUME NEW h \in Handlers, hand[h].pc # "idle", NEW s \in Steps, Goto(h, s), Grows,
             \A i \in Items : ItemSafe(i)',
             s \in {"links", "publicationAudit"} => objectRow'[hand[h].item] # None,
             s = "copy" => hand[h].op = "approve" /\ hand[h].pc # "checked",
             s = "stamp" => hand[h].op = "quality_submit",
             s \in {"links", "publicationAudit", "audit", "copy", "stamp", "assign"},
             s \in {"links", "publicationAudit", "audit", "assign"} => hand[h].pc # "checked"
      PROVE  Safe
  <2>1. hand \in [Handlers -> Hand] /\ hand[h].item \in Items /\ hand[h].ref \in Copies
    BY <1>8, <1>0 DEF TypeOK, Busy, Hand
  <2>2. /\ hand'[h].pc = s /\ hand'[h].row = hand[h].row /\ hand'[h].ref = hand[h].ref
        /\ hand'[h].op = hand[h].op /\ hand'[h].item = hand[h].item
    BY <1>8, <2>1 DEF Goto, Hand
  <2>3. Real(heap'[hand[h].item][hand[h].ref])
    BY <1>8, <1>0, <2>1 DEF Grows, HandSafe
  <2>4. Approved(hand[h].item) => Approved(hand[h].item)'
    BY <1>8, <2>2 DEF Approved, Grows
  <2>5. HandSafe(h)'
    BY <1>8, <1>0, <2>2, <2>3, <2>4 DEF HandSafe
  <2>6. \A g \in Handlers \ {h} : hand'[g] = hand[g]
    BY <1>8, <2>1 DEF Goto
  <2> QED
    BY <1>8, <2>5, <2>6, HandsSafe
<1>9. ASSUME NEW h \in Handlers, AddLinks(h) PROVE Safe
  <2>1. Grows /\ Goto(h, "publicationAudit")
    BY <1>9 DEF AddLinks, Grows
  <2>2. objectRow'[hand[h].item] # None
    BY <1>9, <1>0 DEF AddLinks, HandSafe
  <2>3. \A i \in Items : ItemSafe(i)'
    BY <1>9, <1>0, <2>2 DEF AddLinks, ItemSafe, Approved, TypeOK
  <2> QED
    BY <1>8, <1>9, <2>1, <2>2, <2>3 DEF AddLinks, Steps
<1>10. ASSUME NEW h \in Handlers, Audit(h) PROVE Safe
  <2>1. Grows
    BY <1>10 DEF Audit, Grows
  <2>2. \A i \in Items : ItemSafe(i)'
    BY <1>10, <1>0 DEF Audit, ItemSafe, Approved
  <2> QED
    BY <1>6, <1>8, <1>10, <2>1, <2>2 DEF Audit, Steps
<1>11. ASSUME NEW h \in Handlers, CommitReviewRow(h) PROVE Safe
  <2> DEFINE i == hand[h].item
  <2>1. i \in Items /\ Real(hand[h].row) /\ (Decided(hand[h].row) => Approved(i))
    BY <1>11, <1>0 DEF CommitReviewRow, Busy, HandSafe
  <2>2. Grows
    BY <1>11 DEF CommitReviewRow, Grows
  <2>3. \A j \in Items : ItemSafe(j)'
    BY <1>11, <1>0, <2>1 DEF CommitReviewRow, ItemSafe, Approved, TypeOK
  <2>4. hand[h].op = "publish" => objectRow'[i] # None
    BY <1>11, <1>0 DEF CommitReviewRow, HandSafe
  <2>5. CASE hand[h].op = "stamp"
    BY <1>6, <1>11, <2>2, <2>3, <2>5 DEF CommitReviewRow
  <2>6. CASE hand[h].op # "stamp"
    <3>1. AfterReviewRow(hand[h].op) \in {"links", "assign", "audit"}
          /\ (AfterReviewRow(hand[h].op) = "links" => hand[h].op = "publish")
      BY DEF AfterReviewRow
    <3> QED
      BY <1>8, <1>11, <2>2, <2>3, <2>4, <2>6, <3>1 DEF CommitReviewRow, Steps
  <2> QED
    BY <2>5, <2>6
<1>12. ASSUME NEW h \in Handlers, CommitObjectRow(h) PROVE Safe
  <2> DEFINE i == hand[h].item
             live == heap[i][hand[h].ref]
  <2>1. /\ i \in Items /\ hand[h].ref \in Copies /\ hand \in [Handlers -> Hand]
        /\ Real(hand[h].row) /\ Real(live) /\ Approved(i)
    BY <1>12, <1>0 DEF CommitObjectRow, TypeOK, Hand, Busy, HandSafe
  <2>2. objectRow'[i] # None
    BY <1>12, <1>0, <2>1, ReviewAssumption DEF CommitObjectRow, TypeOK, Real
  <2>3. Grows
    BY <1>12, <1>0, <2>2 DEF CommitObjectRow, Grows, TypeOK
  <2>4. \A j \in Items : ItemSafe(j)'
    BY <1>12, <1>0, <2>1, <2>2 DEF CommitObjectRow, ItemSafe, Approved, TypeOK
  <2>5. CASE hand[h].op # "publish"
    BY <1>8, <1>12, <2>2, <2>3, <2>4, <2>5 DEF CommitObjectRow, Steps
  <2>6. CASE hand[h].op = "publish"
    <3>1. /\ hand'[h].pc = "reviewRow" /\ hand'[h].row = live /\ hand'[h].ref = hand[h].ref
          /\ hand'[h].op = hand[h].op /\ hand'[h].item = i
      BY <1>12, <2>1, <2>6 DEF CommitObjectRow, Hand
    <3>2. Real(heap'[i][hand[h].ref]) /\ Approved(i)'
      BY <1>12, <2>1, <3>1 DEF CommitObjectRow, Approved
    <3>3. HandSafe(h)'
      BY <2>1, <2>2, <2>6, <3>1, <3>2 DEF HandSafe
    <3>4. \A g \in Handlers \ {h} : hand'[g] = hand[g]
      BY <1>12, <2>1, <2>6 DEF CommitObjectRow
    <3> QED
      BY <2>3, <2>4, <3>3, <3>4, HandsSafe
  <2> QED
    BY <2>5, <2>6
<1>13. ASSUME NEW h \in Handlers, PublishCopy(h) PROVE Safe
  <2> DEFINE i == hand[h].item
             live == heap[i][hand[h].ref]
  <2>1. /\ i \in Items /\ hand \in [Handlers -> Hand]
        /\ hand[h].op = "approve" /\ Real(live) /\ Approved(i)
    BY <1>13, <1>0 DEF PublishCopy, TypeOK, Hand, Busy, HandSafe
  <2>2. Grows
    BY <1>13 DEF PublishCopy, Grows
  <2>3. \A j \in Items : ItemSafe(j)'
    BY <1>13, <1>0 DEF PublishCopy, ItemSafe, Approved
  <2>4. /\ hand'[h].pc = "objectRow" /\ hand'[h].row = live /\ hand'[h].ref = hand[h].ref
        /\ hand'[h].op = hand[h].op /\ hand'[h].item = i
    BY <1>13, <2>1 DEF PublishCopy, Hand
  <2>5. Real(heap'[i][hand[h].ref]) /\ Approved(i)'
    BY <1>13, <2>1, <2>4 DEF PublishCopy, Approved
  <2>6. HandSafe(h)'
    BY <2>1, <2>4, <2>5 DEF HandSafe
  <2>7. \A g \in Handlers \ {h} : hand'[g] = hand[g]
    BY <1>13, <2>1 DEF PublishCopy
  <2> QED
    BY <2>2, <2>3, <2>6, <2>7, HandsSafe
<1>14. ASSUME NEW h \in Handlers, Stamp(h) PROVE Safe
  <2> DEFINE i == hand[h].item
             live == heap[i]["detached"]
  <2>1. /\ i \in Items /\ hand \in [Handlers -> Hand] /\ "detached" \in Copies
        /\ hand[h].ref = "detached" /\ Real(live)
    BY <1>14, <1>0 DEF Stamp, TypeOK, Hand, Busy, HandSafe, Copies
  <2>2. Decided(live) => Approved(i)
    BY <1>0, <2>1 DEF ItemSafe
  <2>3. Grows
    BY <1>14 DEF Stamp, Grows
  <2>4. \A j \in Items : ItemSafe(j)'
    BY <1>14, <1>0, <2>1 DEF Stamp, ItemSafe, Approved, TypeOK
  <2>5. /\ hand'[h].pc = "reviewRow" /\ hand'[h].row = live /\ hand'[h].ref = "detached"
        /\ hand'[h].op = "stamp" /\ hand'[h].item = i
    BY <1>14, <2>1 DEF Stamp, Hand
  <2>6. Real(heap'[i]["detached"]) /\ (Approved(i) => Approved(i)')
    BY <1>14, <2>1, <2>5 DEF Stamp, Approved
  <2>7. HandSafe(h)'
    BY <2>1, <2>2, <2>5, <2>6 DEF HandSafe
  <2>8. \A g \in Handlers \ {h} : hand'[g] = hand[g]
    BY <1>14, <2>1 DEF Stamp
  <2> QED
    BY <2>3, <2>4, <2>7, <2>8, HandsSafe
<1>15. ASSUME Restart PROVE Safe
  <2>1. \A h \in Handlers : HandSafe(h)'
    BY <1>15 DEF Restart, HandSafe, Idle
  <2>2. \A i \in Items : ItemSafe(i)'
    BY <1>15, <1>0 DEF Restart, ItemSafe, Approved, Copies, Decided, NoItem
  <2> QED
    BY <2>1, <2>2
<1>16. ASSUME UNCHANGED vars PROVE Safe
  <2>1. \A i \in Items : ItemSafe(i)'
    BY <1>16, <1>0 DEF vars, ItemSafe, Approved
  <2>2. \A h \in Handlers : HandSafe(h)'
    BY <1>16, <1>0 DEF vars, HandSafe, Approved
  <2> QED
    BY <2>1, <2>2
<1> QED
  <2>1. Safe
    BY <1>1, <1>2, <1>4, <1>5, <1>7, <1>9, <1>10, <1>11, <1>12, <1>13, <1>14,
       <1>15, <1>16 DEF Next, HandlerStep
  <2> QED
    BY <1>0, <2>1 DEF ApprovalInv

LEMMA ApprovalInvariance == Spec => []ApprovalInv
BY ApprovalInit, ApprovalStep, PTL DEF Spec

\* For any number of handlers, crashes and failing transactions, every
\* official object belongs to an item that a reviewer approved.
THEOREM OnlyApprovedIsOfficial == Spec => []ObjectWasApproved
<1>1. ApprovalInv => ObjectWasApproved
  BY DEF ApprovalInv, ItemSafe, Approved, ObjectWasApproved
<1> QED
  BY <1>1, ApprovalInvariance, PTL

\* Relationships and the audit event of a publication never precede the
\* durable object they speak of.
THEOREM EffectsAreOrdered == Spec => []EffectsFollowObject
<1>1. ApprovalInv => EffectsFollowObject
  BY DEF ApprovalInv, ItemSafe, EffectsFollowObject
<1> QED
  BY <1>1, ApprovalInvariance, PTL

=============================================================================
