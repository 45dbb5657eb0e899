----------------------- MODULE ReviewWorkflow_proofs -----------------------
(***************************************************************************)
(* The review workflow as ReviewContract states it, for every number of    *)
(* items, handlers, revisions and crashes.  Two requests for one item are  *)
(* known to race (SeenDecisionsStand and GuardedRevisionHolds are          *)
(* violated), and a failed transaction is known to break publication, so   *)
(* these theorems speak of behaviours without either.                      *)
(***************************************************************************)
EXTENDS ReviewGovernance_proofs

-----------------------------------------------------------------------------
(* What holds as long as the requests for one item come one after the      *)
(* other and transactions succeed: requests for different items may        *)
(* interleave at every step, and the process may die anywhere.             *)

OneByOne ==
    /\ dbErrors = 0
    /\ \A g, h \in Handlers :
          /\ hand[g].pc # "idle" /\ hand[h].pc # "idle"
          /\ hand[g].item = hand[h].item
          => g = h

\* What the rows of an item say of each other.
RowsAgree(i) ==
    /\ Decided(reviewRow[i]) => <<i, reviewRow[i].content>> \in approvals
    /\ reviewRow[i].status = "published" => objectRow[i] # None
    /\ objectRow[i] # None => Decided(reviewRow[i]) /\ objectRow[i] = reviewRow[i].content

\* The store knows an item exactly if it has a row or is about to get one; a
\* published object is its own candidate only as the store knows it.
StoreAgrees(i) ==
    /\ cell[i] = "none" => reviewRow[i] = NoItem /\ object[i] = NoObject
    /\ object[i].from \in Copies => object[i].from = cell[i]
    /\ \A a, b \in active[i] : a = b

Settled(i) ==
    /\ reviewRow[i] = IF cell[i] = "none" THEN NoItem ELSE heap[i][cell[i]]
    /\ objectRow[i] = ServedContent(i)

\* A handler has changed the item in memory and not committed all of it yet.
Unsettled(i) ==
    \E h \in Handlers : hand[h].item = i /\ hand[h].pc \in {"reviewRow", "objectRow"}

ItemAgrees(i) ==
    /\ RowsAgree(i)
    /\ StoreAgrees(i)
    /\ ~Unsettled(i) => Settled(i)

\* What the commit of a review row will do to the item.
Commits(op, i, row) ==
    LET old == reviewRow[i]
    IN /\ op # "none"
       /\ op \in {"submit", "quality_submit"} =>
             /\ old = NoItem /\ object[i] = NoObject
             /\ row.status = "human_review_required"
       /\ op = "stamp" => row = old
       /\ op \in Requests =>
             /\ old.status \in Allowed(op)
             /\ row.status = Outcome(op, old.status)
             /\ op # "revise" => row.content = old.content
       /\ op = "approve" => <<i, row.content>> \in approvals
       /\ op = "publish" => objectRow[i] = row.content

HandAgrees(h) ==
    LET me == hand[h]
        i == me.item
    IN /\ me.pc = "checked" =>
             /\ me.op \in Requests
             /\ me.ref = cell[i]
             /\ reviewRow[i].status \in Allowed(me.op)
             /\ me.op = "assign" => active[i] \subseteq {me.current}
       /\ me.pc = "objectRow" =>
             /\ me.op \in {"publish", "approve"}
             /\ me.ref = cell[i] /\ heap[i][cell[i]] = me.row
             /\ ServedContent(i) = me.row.content
             /\ reviewRow[i].status = "approved"
             /\ IF me.op = "publish"
                THEN me.row.status = "published" /\ me.row.content = reviewRow[i].content
                ELSE me.row = reviewRow[i]
       /\ me.pc = "reviewRow" =>
             /\ cell[i] # "none" /\ heap[i][cell[i]] = me.row
             /\ objectRow[i] = ServedContent(i)
             /\ Commits(me.op, i, me.row)
             /\ me.op \in Requests => me.ref = cell[i]
             /\ me.op = "assign" => active[i] = {}
             /\ me.op = "quality_submit" => heap[i]["detached"] = me.row
       /\ me.pc = "assign" => active[i] = {}
       /\ me.pc \in {"audit", "copy"} /\ me.op = "approve" =>
             me.ref = cell[i] /\ reviewRow[i].status = "approved"
       /\ me.pc \in {"audit", "stamp"} /\ me.op = "quality_submit" =>
             heap[i]["detached"] = reviewRow[i] /\ object[i] = NoObject

WorkflowInv ==
    /\ \A i \in Items : ItemAgrees(i)
    /\ \A h \in Handlers : HandAgrees(h)


-----------------------------------------------------------------------------
(* One handler moves, on one item.                                         *)

\* Nothing that the invariant says of item j changes.
Same(j) ==
    /\ heap'[j] = heap[j] /\ cell'[j] = cell[j] /\ object'[j] = object[j]
    /\ reviewRow'[j] = reviewRow[j] /\ objectRow'[j] = objectRow[j]
    /\ active'[j] = active[j]

LEMMA SameItem ==
  ASSUME NEW j \in Items, Same(j), approvals \subseteq approvals'
  PROVE  /\ RowsAgree(j) => RowsAgree(j)'
         /\ StoreAgrees(j) => StoreAgrees(j)'
         /\ Settled(j) => Settled(j)'
BY DEF Same, RowsAgree, StoreAgrees, Settled, ServedContent, Decided

LEMMA SameHand ==
  ASSUME NEW g \in Handlers, hand'[g] = hand[g], hand[g].item \in Items,
         Same(hand[g].item), approvals \subseteq approvals', HandAgrees(g)
  PROVE  HandAgrees(g)'
<1> DEFINE i == hand[g].item
<1>1. ServedContent(i)' = ServedContent(i)
  BY DEF Same, ServedContent
<1>2. Commits(hand[g].op, i, hand[g].row) => Commits(hand[g].op, i, hand[g].row)'
  BY DEF Same, Commits
<1> QED
  BY <1>1, <1>2 DEF Same, HandAgrees

\* hand[h] is on item i before or after the step, and on no other item.
OnlyOn(h, i) ==
    /\ hand[h].pc # "idle" => hand[h].item = i
    /\ hand'[h].pc # "idle" => hand'[h].item = i
    /\ hand[h].pc # "idle" \/ hand'[h].pc # "idle"
    /\ \A g \in Handlers \ {h} : hand'[g] = hand[g]

\* No other handler is at that item.
LEMMA Alone ==
  ASSUME OneByOne, OneByOne', NEW h \in Handlers, NEW i \in Items, OnlyOn(h, i),
         NEW g \in Handlers \ {h}, hand[g].pc # "idle"
  PROVE  hand[g].item # i
BY DEF OneByOne, OnlyOn

LEMMA SettledBefore ==
  ASSUME WorkflowInv, OneByOne, OneByOne', NEW h \in Handlers, NEW i \in Items, OnlyOn(h, i),
         hand[h].pc \notin {"reviewRow", "objectRow"}
  PROVE  Settled(i)
<1>1. \A g \in Handlers \ {h} : hand[g].pc # "idle" => hand[g].item # i
  BY Alone
<1>2. ~Unsettled(i)
  BY <1>1 DEF Unsettled
<1> QED
  BY <1>2 DEF WorkflowInv, ItemAgrees

LEMMA Frame ==
  ASSUME TypeInv, WorkflowInv, OneByOne, OneByOne',
         NEW h \in Handlers, NEW i \in Items, OnlyOn(h, i),
         \A j \in Items \ {i} : Same(j),
         approvals \subseteq approvals',
         RowsAgree(i)', StoreAgrees(i)',
         hand'[h].pc \notin {"reviewRow", "objectRow"} => Settled(i)',
         HandAgrees(h)'
  PROVE  WorkflowInv'
<1>1. \A g \in Handlers \ {h} : hand[g].pc # "idle" => hand[g].item # i
  BY Alone
<1>2. ASSUME NEW g \in Handlers \ {h} PROVE HandAgrees(g)'
  <2>1. CASE hand[g].pc = "idle"
    BY <2>1 DEF OnlyOn, HandAgrees
  <2>2. CASE hand[g].pc # "idle"
    <3>1. hand[g].item \in Items /\ hand[g].item # i
      BY <1>1, <2>2 DEF TypeInv, Busy
    <3>2. Same(hand[g].item)
      BY <3>1
    <3> QED
      BY <3>1, <3>2, SameHand DEF OnlyOn, WorkflowInv
  <2> QED
    BY <2>1, <2>2
<1>3. ASSUME NEW j \in Items, j # i PROVE ItemAgrees(j)'
  <2>1. Unsettled(j) => Unsettled(j)'
    BY <1>3 DEF Unsettled, OnlyOn
  <2> QED
    BY <1>3, <2>1, SameItem DEF WorkflowInv, ItemAgrees
<1>4. ItemAgrees(i)'
  <2>1. hand'[h].pc \in {"reviewRow", "objectRow"} => Unsettled(i)'
    BY DEF Unsettled, OnlyOn
  <2> QED
    BY <2>1 DEF ItemAgrees
<1> QED
  BY <1>2, <1>3, <1>4 DEF WorkflowInv

-----------------------------------------------------------------------------
(* The steps of a request.                                                 *)

Ready ==
    /\ ApprovalInv /\ ApprovalInv'
    /\ WorkflowInv
    /\ OneByOne /\ OneByOne'

\* What ApprovalInv and TypeOK say of a handler and of the item it is at.
LEMMA BusyFacts ==
  ASSUME ApprovalInv, NEW h \in Handlers, hand[h].pc # "idle"
  PROVE  /\ hand[h].item \in Items /\ hand[h].ref \in Copies /\ hand[h] \in Hand
         /\ Real(heap[hand[h].item][hand[h].ref])
         /\ heap[hand[h].item] \in [Copies -> Item]
         /\ heap[hand[h].item][hand[h].ref] \in Item
         /\ hand \in [Handlers -> Hand]
         /\ heap \in [Items -> [Copies -> Item]]
         /\ cell \in [Items -> Copies \cup {"none"}]
BY DEF ApprovalInv, TypeInv, TypeOK, Busy, Hand, HandSafe

\* The live item at rest is its row.
LEMMA LiveIsRow ==
  ASSUME ApprovalInv, NEW i \in Items, Settled(i), cell[i] # "none"
  PROVE  /\ heap[i][cell[i]] = reviewRow[i] /\ Real(reviewRow[i])
         /\ reviewRow[i] # NoItem
         /\ objectRow[i] = ServedContent(i)
BY DEF Settled, ApprovalInv, ItemSafe, Real, NoItem

LEMMA SubmitWorks ==
  ASSUME Ready, NEW h \in Handlers, NEW i \in Items, NEW c \in Contents,
         NEW op \in {"submit", "quality_submit"}, Submit(h, i, c, op)
  PROVE  WorkflowInv'
<1> DEFINE new == [status |-> "human_review_required", revision |-> 1, content |-> c]
<1>1. /\ TypeInv /\ hand \in [Handlers -> Hand] /\ heap \in [Items -> [Copies -> Item]]
      /\ cell \in [Items -> Copies \cup {"none"}]
  BY DEF Ready, ApprovalInv, TypeInv, TypeOK
<1>2. /\ hand'[h].pc = "reviewRow" /\ hand'[h].op = op /\ hand'[h].item = i
      /\ hand'[h].row = new
      /\ \A g \in Handlers \ {h} : hand'[g] = hand[g]
  BY <1>1 DEF Submit, Idle
<1>3. /\ \A k \in Copies : heap'[i][k] = new
      /\ cell'[i] = "stored" /\ "stored" \in Copies /\ "detached" \in Copies
      /\ \A j \in Items \ {i} : Same(j)
  BY <1>1 DEF Submit, rows, Same, Copies
<1>4. UNCHANGED <<object, reviewRow, objectRow, active, approvals>>
  BY DEF Submit, rows
<1>5. OnlyOn(h, i) /\ hand[h].pc = "idle" /\ cell[i] = "none"
  BY <1>2 DEF OnlyOn, Submit
<1>6. StoreAgrees(i) /\ RowsAgree(i) /\ Settled(i)
  BY <1>5, SettledBefore DEF Ready, WorkflowInv, ItemAgrees
<1>7. reviewRow[i] = NoItem /\ object[i] = NoObject /\ objectRow[i] = None
  BY <1>5, <1>6 DEF StoreAgrees, Settled, ServedContent, NoObject, Copies
<1>8. RowsAgree(i)' /\ StoreAgrees(i)'
  BY <1>3, <1>4, <1>6, <1>7 DEF RowsAgree, StoreAgrees, NoItem, Decided, NoObject, Copies
<1>9. HandAgrees(h)'
  <2>1. ServedContent(i)' = None
    BY <1>4, <1>7 DEF ServedContent, NoObject, Copies
  <2>2. Commits(op, i, new)'
    BY <1>4, <1>7 DEF Commits, Requests
  <2> QED
    BY <1>2, <1>3, <1>4, <1>7, <2>1, <2>2 DEF HandAgrees, Requests
<1> QED
  BY <1>1, <1>2, <1>3, <1>4, <1>5, <1>8, <1>9, Frame DEF Ready

LEMMA BeginWorks ==
  ASSUME Ready, NEW h \in Handlers, NEW i \in Items, NEW op \in Requests,
         NEW guarded \in BOOLEAN, Begin(h, i, op, guarded)
  PROVE  WorkflowInv'
<1>1. /\ TypeInv /\ hand \in [Handlers -> Hand]
      /\ active \in [Items -> SUBSET Nat]
  BY DEF Ready, ApprovalInv, TypeInv, TypeOK
<1>2. PICK current \in Replaced(op, i) :
        hand' = [hand EXCEPT ![h] =
                   [Idle EXCEPT !.pc = "checked", !.op = op, !.item = i,
                      !.ref = cell[i], !.base = heap[i][cell[i]].revision,
                      !.guarded = guarded, !.current = current]]
  BY DEF Begin
<1>3. /\ hand'[h].pc = "checked" /\ hand'[h].op = op /\ hand'[h].item = i
      /\ hand'[h].ref = cell[i] /\ hand'[h].current = current
      /\ \A g \in Handlers \ {h} : hand'[g] = hand[g]
  BY <1>1, <1>2 DEF Idle
<1>4. /\ UNCHANGED <<heap, cell, object, reviewRow, objectRow, active, approvals>>
      /\ \A j \in Items : Same(j)
  BY DEF Begin, rows, memory, Same
<1>5. OnlyOn(h, i) /\ hand[h].pc = "idle" /\ cell[i] # "none"
  BY <1>3 DEF OnlyOn, Begin
<1>6. StoreAgrees(i) /\ RowsAgree(i) /\ Settled(i)
  BY <1>5, SettledBefore DEF Ready, WorkflowInv, ItemAgrees
<1>7. StoreAgrees(i)' /\ RowsAgree(i)' /\ Settled(i)'
  BY <1>4, <1>6, SameItem
<1>8. reviewRow[i].status \in Allowed(op)
  BY <1>5, <1>6 DEF Settled, Begin
<1>9. op = "assign" => active[i] \subseteq {current}
  BY <1>1, <1>2, <1>6 DEF StoreAgrees, Replaced
<1>10. HandAgrees(h)'
  BY <1>3, <1>4, <1>8, <1>9 DEF HandAgrees
<1> QED
  BY <1>1, <1>3, <1>4, <1>5, <1>7, <1>10, Frame DEF Ready

\* What a request on a checked item finds.
LEMMA CheckedFacts ==
  ASSUME Ready, NEW h \in Handlers, hand[h].pc = "checked",
         NEW i \in Items, i = hand[h].item, OnlyOn(h, i)
  PROVE  /\ RowsAgree(i) /\ StoreAgrees(i) /\ Settled(i)
         /\ hand[h].op \in Requests /\ hand[h].ref = cell[i] /\ cell[i] # "none"
         /\ heap[i][cell[i]] = reviewRow[i] /\ objectRow[i] = ServedContent(i)
         /\ Real(reviewRow[i])
         /\ reviewRow[i].status \in Allowed(hand[h].op)
         /\ hand[h].op = "assign" => active[i] \subseteq {hand[h].current}
<1>1. hand[h].ref \in Copies
  BY BusyFacts DEF Ready
<1>2. HandAgrees(h) /\ ItemAgrees(i)
  BY <1>1 DEF Ready, WorkflowInv
<1>3. hand[h].ref = cell[i] /\ cell[i] # "none"
  BY <1>1, <1>2 DEF HandAgrees, Copies
<1>4. Settled(i)
  BY <1>1, SettledBefore DEF Ready
<1> QED
  BY <1>1, <1>2, <1>3, <1>4, LiveIsRow DEF HandAgrees, ItemAgrees, Ready

\* A request other than publish changes the object in its hand and serialises
\* it; nothing else of the item changes but the assignment it cancels.
LEMMA ChangeWorks ==
  ASSUME Ready, NEW h \in Handlers, hand[h].pc = "checked", hand[h].op # "publish",
         NEW i \in Items, i = hand[h].item, NEW c \in Contents,
         c = heap[i][hand[h].ref].content \/ hand[h].op = "revise",
         NEW new, new = Changed(h, c),
         heap' = [heap EXCEPT ![i][hand[h].ref] = new],
         cell' = [cell EXCEPT ![i] = hand[h].ref],
         hand' = [hand EXCEPT ![h].pc = "reviewRow", ![h].row = new],
         UNCHANGED <<object, reviewRow, objectRow>>,
         IF hand[h].op = "assign"
         THEN active' = [active EXCEPT ![i] = @ \ {hand[h].current}]
         ELSE active' = active,
         approvals \subseteq approvals',
         hand[h].op = "approve" => <<i, c>> \in approvals'
  PROVE  WorkflowInv'
<1>1. /\ hand[h].ref \in Copies /\ hand \in [Handlers -> Hand]
      /\ heap \in [Items -> [Copies -> Item]] /\ cell \in [Items -> Copies \cup {"none"}]
      /\ TypeInv /\ active \in [Items -> SUBSET Nat]
  BY BusyFacts DEF Ready, ApprovalInv, TypeInv, TypeOK
<1>2. /\ hand'[h].pc = "reviewRow" /\ hand'[h].op = hand[h].op /\ hand'[h].item = i
      /\ hand'[h].ref = hand[h].ref /\ hand'[h].row = new
      /\ \A g \in Handlers \ {h} : hand'[g] = hand[g]
  BY <1>1 DEF Hand
<1>3. OnlyOn(h, i)
  BY <1>2 DEF OnlyOn
<1>4. /\ RowsAgree(i) /\ StoreAgrees(i) /\ Settled(i)
      /\ hand[h].op \in Requests /\ hand[h].ref = cell[i] /\ cell[i] # "none"
      /\ heap[i][cell[i]] = reviewRow[i] /\ objectRow[i] = ServedContent(i)
      /\ reviewRow[i].status \in Allowed(hand[h].op) /\ Real(reviewRow[i])
      /\ hand[h].op = "assign" => active[i] \subseteq {hand[h].current}
  BY <1>3, CheckedFacts
<1>5. /\ new.status = Outcome(hand[h].op, reviewRow[i].status)
      /\ new.content = c
      /\ hand[h].op # "revise" => c = reviewRow[i].content
  BY <1>4 DEF Changed
<1>6. /\ heap'[i][cell[i]] = new /\ cell'[i] = cell[i]
      /\ \A j \in Items \ {i} : Same(j)
  BY <1>1, <1>4 DEF Same
<1>7. active'[i] \subseteq active[i] /\ (hand[h].op = "assign" => active'[i] = {})
  BY <1>1, <1>4
<1>8. RowsAgree(i)' /\ StoreAgrees(i)'
  BY <1>4, <1>6, <1>7 DEF RowsAgree, StoreAgrees, Decided
<1>9. hand[h].op = "revise" => objectRow[i] = None
  BY <1>4 DEF RowsAgree, Decided, Allowed
<1>10. objectRow'[i] = ServedContent(i)'
  <2>1. object[i].from \in Copies => object[i].from = cell[i]
    BY <1>4 DEF StoreAgrees
  <2>2. objectRow[i] = IF object[i].from \in Copies THEN reviewRow[i].content
                       ELSE object[i].content
    BY <1>4, <2>1 DEF ServedContent
  <2>3. reviewRow[i].content # None
    BY <1>4, ReviewAssumption DEF Real
  <2>4. CASE hand[h].op = "revise"
    BY <1>9, <2>2, <2>3, <2>4 DEF ServedContent
  <2>5. CASE hand[h].op # "revise"
    BY <1>5, <1>6, <2>1, <2>2, <2>5 DEF ServedContent
  <2> QED
    BY <2>4, <2>5
<1>11. Commits(hand[h].op, i, new)'
  BY <1>2, <1>4, <1>5 DEF Commits, Requests
<1>12. HandAgrees(h)'
  BY <1>2, <1>4, <1>6, <1>7, <1>10, <1>11 DEF HandAgrees, Requests
<1> QED
  BY <1>1, <1>2, <1>3, <1>6, <1>8, <1>12, Frame DEF Ready

LEMMA ApplyWorks ==
  ASSUME Ready, NEW h \in Handlers, Apply(h)
  PROVE  WorkflowInv'
<1>1. PICK c \in Contents :
        /\ hand[h].op = "revise" \/ c = heap[hand[h].item][hand[h].ref].content
        /\ heap' = [heap EXCEPT ![hand[h].item][hand[h].ref] = Changed(h, c)]
        /\ cell' = [cell EXCEPT ![hand[h].item] = hand[h].ref]
        /\ hand' = [hand EXCEPT ![h].pc = "reviewRow", ![h].row = Changed(h, c)]
        /\ approvals' = IF hand[h].op = "approve"
                        THEN approvals \cup {<<hand[h].item, c>>} ELSE approvals
  BY DEF Apply
<1>2. /\ hand[h].pc = "checked" /\ hand[h].op \notin {"publish", "assign"}
      /\ UNCHANGED <<object, reviewRow, objectRow, active>>
  BY DEF Apply, rows
<1>3. hand[h].item \in Items
  BY <1>2, BusyFacts DEF Ready
<1> QED
  BY <1>1, <1>2, <1>3, ChangeWorks

LEMMA AssignWorks ==
  ASSUME Ready, NEW h \in Handlers, Assign(h)
  PROVE  WorkflowInv'
<1>1. hand[h].pc = "checked"
  BY DEF Assign
<1>2. hand[h].item \in Items /\ heap[hand[h].item][hand[h].ref].content \in Contents
  BY <1>1, BusyFacts DEF Ready, Real
<1> QED
  BY <1>1, <1>2, ChangeWorks DEF Assign

\* publish changes the object in its hand and makes it the published object.
LEMMA PublishCandidateWorks ==
  ASSUME Ready, NEW h \in Handlers, PublishCandidate(h)
  PROVE  WorkflowInv'
<1>1. PICK i \in Items : i = hand[h].item
  BY BusyFacts DEF Ready, PublishCandidate
<1>2. PICK new : new = Changed(h, heap[i][hand[h].ref].content)
  OBVIOUS
<1>3. /\ hand[h].pc = "checked" /\ hand[h].op = "publish"
      /\ heap' = [heap EXCEPT ![i][hand[h].ref] = new]
      /\ object' = [object EXCEPT ![i] = [from |-> hand[h].ref, content |-> None]]
      /\ hand' = [hand EXCEPT ![h].pc = "objectRow", ![h].row = new]
      /\ UNCHANGED <<cell, reviewRow, objectRow, active, approvals>>
  BY <1>1, <1>2 DEF PublishCandidate, rows
<1>4. /\ hand[h].ref \in Copies /\ hand \in [Handlers -> Hand]
      /\ heap \in [Items -> [Copies -> Item]]
      /\ TypeInv /\ DOMAIN object = Items
  BY <1>3, BusyFacts DEF Ready, ApprovalInv, TypeInv, TypeOK
<1>5. /\ hand'[h].pc = "objectRow" /\ hand'[h].op = "publish" /\ hand'[h].item = i
      /\ hand'[h].ref = hand[h].ref /\ hand'[h].row = new
      /\ \A g \in Handlers \ {h} : hand'[g] = hand[g]
  BY <1>1, <1>3, <1>4 DEF Hand
<1>6. OnlyOn(h, i)
  BY <1>1, <1>5 DEF OnlyOn
<1>7. /\ RowsAgree(i) /\ StoreAgrees(i)
      /\ hand[h].ref = cell[i] /\ cell[i] # "none" /\ heap[i][cell[i]] = reviewRow[i]
      /\ reviewRow[i].status = "approved"
  BY <1>1, <1>3, <1>6, CheckedFacts DEF Allowed
<1>8. new.status = "published" /\ new.content = reviewRow[i].content
  BY <1>1, <1>2, <1>3, <1>7 DEF Changed, Outcome
<1>9. /\ heap'[i][cell[i]] = new /\ object'[i] = [from |-> cell[i], content |-> None]
      /\ \A j \in Items \ {i} : Same(j)
  BY <1>3, <1>4, <1>7 DEF Same
<1>10. RowsAgree(i)' /\ StoreAgrees(i)'
  BY <1>3, <1>7, <1>9 DEF RowsAgree, StoreAgrees, Decided
<1>11. ServedContent(i)' = new.content
  BY <1>4, <1>7, <1>9 DEF ServedContent
<1>12. HandAgrees(h)'
  BY <1>3, <1>5, <1>7, <1>8, <1>9, <1>11 DEF HandAgrees
<1> QED
  BY <1>3, <1>4, <1>5, <1>6, <1>9, <1>10, <1>12, Frame DEF Ready

\* The legacy copy of an approved item has the content of its row.
LEMMA PublishCopyWorks ==
  ASSUME Ready, NEW h \in Handlers, PublishCopy(h)
  PROVE  WorkflowInv'
<1>1. PICK i \in Items : i = hand[h].item
  BY BusyFacts DEF Ready, PublishCopy
<1>2. PICK live : live = heap[i][hand[h].ref]
  OBVIOUS
<1>3. /\ hand[h].pc = "copy"
      /\ object' = [object EXCEPT ![i] = [from |-> "copy", content |-> live.content]]
      /\ hand' = [hand EXCEPT ![h].pc = "objectRow", ![h].row = live]
      /\ UNCHANGED <<heap, cell, reviewRow, objectRow, active, approvals>>
  BY <1>1, <1>2 DEF PublishCopy, rows
<1>4. /\ hand[h].ref \in Copies /\ hand \in [Handlers -> Hand]
      /\ TypeInv /\ DOMAIN object = Items /\ hand[h].op = "approve"
  BY <1>3, BusyFacts DEF Ready, ApprovalInv, TypeInv, TypeOK, HandSafe
<1>5. /\ hand'[h].pc = "objectRow" /\ hand'[h].op = "approve" /\ hand'[h].item = i
      /\ hand'[h].ref = hand[h].ref /\ hand'[h].row = live
      /\ \A g \in Handlers \ {h} : hand'[g] = hand[g]
  BY <1>1, <1>3, <1>4 DEF Hand
<1>6. OnlyOn(h, i)
  BY <1>1, <1>5 DEF OnlyOn
<1>7. /\ RowsAgree(i) /\ StoreAgrees(i) /\ Settled(i)
      /\ hand[h].ref = cell[i] /\ reviewRow[i].status = "approved"
  BY <1>1, <1>3, <1>4, <1>6, SettledBefore DEF Ready, WorkflowInv, ItemAgrees, HandAgrees
<1>8. cell[i] # "none" /\ live = reviewRow[i]
  BY <1>2, <1>4, <1>7 DEF Settled, Copies
<1>9. /\ object'[i] = [from |-> "copy", content |-> live.content]
      /\ \A j \in Items \ {i} : Same(j)
  BY <1>3, <1>4 DEF Same
<1>10. RowsAgree(i)' /\ StoreAgrees(i)'
  BY <1>3, <1>7, <1>8, <1>9 DEF RowsAgree, StoreAgrees, Copies
<1>11. ServedContent(i)' = live.content
  BY <1>9 DEF ServedContent, Copies
<1>12. HandAgrees(h)'
  BY <1>2, <1>3, <1>5, <1>7, <1>8, <1>9, <1>11 DEF HandAgrees
<1> QED
  BY <1>3, <1>4, <1>5, <1>6, <1>9, <1>10, <1>12, Frame DEF Ready

\* The commit of a review row does to the item what Commits says.
LEMMA CommittedRowAgrees ==
  ASSUME NEW i \in Items, RowsAgree(i), NEW op, NEW row, Real(row), Commits(op, i, row),
         op \in Ops, reviewRow'[i] = row,
         objectRow' = objectRow, approvals' = approvals,
         object[i] = NoObject => objectRow[i] = None
  PROVE  RowsAgree(i)'
<1>1. CASE op \in {"submit", "quality_submit"}
  BY <1>1 DEF RowsAgree, Commits, Decided
<1>2. CASE op = "stamp"
  BY <1>2 DEF RowsAgree, Commits
<1>3. CASE op \in {"approve", "reject", "request_changes", "revise"}
  <2>1. objectRow[i] = None
    BY <1>3 DEF RowsAgree, Commits, Decided, Allowed, Requests
  <2> QED
    BY <1>3, <2>1 DEF RowsAgree, Commits, Decided, Outcome, Requests
<1>4. CASE op = "publish"
  <2>1. row.content # None
    BY ReviewAssumption DEF Real
  <2> QED
    BY <1>4, <2>1 DEF RowsAgree, Commits, Decided, Outcome, Requests, Allowed
<1>5. CASE op \in {"enrich", "assign"}
  BY <1>5 DEF RowsAgree, Commits, Decided, Outcome, Requests
<1> QED
  BY <1>1, <1>2, <1>3, <1>4, <1>5 DEF Ops, Requests, Commits

LEMMA CommitReviewRowWorks ==
  ASSUME Ready, NEW h \in Handlers, CommitReviewRow(h)
  PROVE  WorkflowInv'
<1>1. PICK i \in Items : i = hand[h].item
  BY BusyFacts DEF Ready, CommitReviewRow
<1>2. PICK row : row = hand[h].row
  OBVIOUS
<1>3. /\ hand[h].pc = "reviewRow"
      /\ reviewRow' = [reviewRow EXCEPT ![i] = row]
      /\ UNCHANGED <<heap, cell, object, objectRow, active, approvals>>
      /\ IF hand[h].op = "stamp" THEN Finish(h) ELSE Goto(h, AfterReviewRow(hand[h].op))
  BY <1>1, <1>2 DEF CommitReviewRow, memory
<1>4. /\ hand[h].ref \in Copies /\ hand \in [Handlers -> Hand] /\ hand[h].op \in Ops
      /\ TypeInv /\ DOMAIN reviewRow = Items /\ Real(row)
  BY <1>2, <1>3, BusyFacts DEF Ready, ApprovalInv, TypeInv, TypeOK, HandSafe, Hand
<1>5. /\ RowsAgree(i) /\ StoreAgrees(i) /\ Commits(hand[h].op, i, row)
      /\ cell[i] # "none" /\ heap[i][cell[i]] = row /\ objectRow[i] = ServedContent(i)
      /\ hand[h].op \in Requests => hand[h].ref = cell[i]
      /\ hand[h].op = "assign" => active[i] = {}
      /\ hand[h].op = "quality_submit" => heap[i]["detached"] = row
  BY <1>1, <1>2, <1>3 DEF Ready, WorkflowInv, ItemAgrees, HandAgrees
<1>6. /\ \A g \in Handlers \ {h} : hand'[g] = hand[g]
      /\ IF hand[h].op = "stamp" THEN hand'[h] = Idle
         ELSE /\ hand'[h].pc = AfterReviewRow(hand[h].op) /\ hand'[h].op = hand[h].op
              /\ hand'[h].item = i /\ hand'[h].ref = hand[h].ref
  BY <1>1, <1>3, <1>4 DEF Finish, Goto, Hand
<1>7. OnlyOn(h, i)
  BY <1>1, <1>3, <1>6 DEF OnlyOn, Idle
<1>8. reviewRow'[i] = row /\ \A j \in Items \ {i} : Same(j)
  BY <1>3, <1>4 DEF Same
<1>9. object[i] = NoObject => objectRow[i] = None
  BY <1>5 DEF ServedContent, NoObject, Copies
<1>10. RowsAgree(i)'
  BY <1>3, <1>4, <1>5, <1>8, <1>9, CommittedRowAgrees
<1>11. StoreAgrees(i)' /\ Settled(i)'
  BY <1>3, <1>5, <1>8 DEF StoreAgrees, Settled, ServedContent
<1>12. HandAgrees(h)'
  <2>1. CASE hand[h].op = "stamp"
    BY <1>6, <2>1 DEF HandAgrees, Idle
  <2>2. CASE hand[h].op # "stamp"
    <3>1. hand[h].op = "approve" => row.status = "approved"
      BY <1>5 DEF Commits, Outcome, Requests
    <3>2. hand[h].op = "quality_submit" => object[i] = NoObject
      BY <1>5 DEF Commits
    <3>3. AfterReviewRow(hand[h].op) = "assign" => hand[h].op = "assign"
      BY DEF AfterReviewRow
    <3>4. hand'[h].pc \in {"links", "assign", "audit"}
      BY <1>6, <2>2 DEF AfterReviewRow
    <3> QED
      BY <1>3, <1>5, <1>6, <1>8, <2>2, <3>1, <3>2, <3>3, <3>4 DEF HandAgrees, Requests
  <2> QED
    BY <2>1, <2>2
<1> QED
  BY <1>3, <1>4, <1>6, <1>7, <1>8, <1>10, <1>11, <1>12, Frame DEF Ready

LEMMA CommitObjectRowWorks ==
  ASSUME Ready, NEW h \in Handlers, CommitObjectRow(h)
  PROVE  WorkflowInv'
<1>1. PICK i \in Items : i = hand[h].item
  BY BusyFacts DEF Ready, CommitObjectRow
<1>2. PICK row : row = hand[h].row
  OBVIOUS
<1>3. /\ hand[h].pc = "objectRow"
      /\ objectRow' = [objectRow EXCEPT ![i] = row.content]
      /\ UNCHANGED <<heap, object, reviewRow, active, approvals>>
      /\ IF hand[h].op = "publish"
         THEN /\ cell' = [cell EXCEPT ![i] = hand[h].ref]
              /\ hand' = [hand EXCEPT ![h].pc = "reviewRow", ![h].row = heap[i][hand[h].ref]]
         ELSE Goto(h, "links") /\ UNCHANGED cell
  BY <1>1, <1>2 DEF CommitObjectRow
<1>4. /\ hand[h].ref \in Copies /\ hand \in [Handlers -> Hand]
      /\ cell \in [Items -> Copies \cup {"none"}] /\ DOMAIN objectRow = Items /\ TypeInv
  BY <1>3, BusyFacts DEF Ready, ApprovalInv, TypeInv, TypeOK
<1>5. /\ RowsAgree(i) /\ StoreAgrees(i)
      /\ hand[h].op \in {"publish", "approve"} /\ hand[h].ref = cell[i]
      /\ heap[i][cell[i]] = row /\ ServedContent(i) = row.content
      /\ reviewRow[i].status = "approved"
      /\ IF hand[h].op = "publish"
         THEN row.status = "published" /\ row.content = reviewRow[i].content
         ELSE row = reviewRow[i]
  BY <1>1, <1>2, <1>3 DEF Ready, WorkflowInv, ItemAgrees, HandAgrees
<1>6. /\ \A g \in Handlers \ {h} : hand'[g] = hand[g]
      /\ hand'[h].op = hand[h].op /\ hand'[h].item = i /\ hand'[h].ref = hand[h].ref
      /\ IF hand[h].op = "publish" THEN hand'[h].pc = "reviewRow" /\ hand'[h].row = row
         ELSE hand'[h].pc = "links"
  BY <1>1, <1>3, <1>4, <1>5 DEF Goto, Hand
<1>7. OnlyOn(h, i)
  BY <1>1, <1>3, <1>6 DEF OnlyOn
<1>8. /\ objectRow'[i] = row.content /\ cell'[i] = cell[i] /\ cell[i] # "none"
      /\ \A j \in Items \ {i} : Same(j)
  BY <1>3, <1>4, <1>5 DEF Same, Copies
<1>9. RowsAgree(i)' /\ StoreAgrees(i)'
  BY <1>3, <1>5, <1>8 DEF RowsAgree, StoreAgrees, Decided
<1>10. objectRow'[i] = ServedContent(i)'
  BY <1>3, <1>5, <1>8 DEF ServedContent
<1>11. hand[h].op = "approve" => Settled(i)'
  BY <1>3, <1>5, <1>8, <1>10 DEF Settled
<1>12. HandAgrees(h)'
  <2>1. hand[h].op = "publish" => Commits("publish", i, row)'
    BY <1>3, <1>5, <1>8, <1>6 DEF Commits, Requests, Allowed, AnyStatus, Statuses, Outcome
  <2> QED
    BY <1>3, <1>5, <1>6, <1>8, <1>10, <2>1 DEF HandAgrees
<1> QED
  BY <1>3, <1>4, <1>5, <1>6, <1>7, <1>8, <1>9, <1>11, <1>12, Frame DEF Ready

\* Steps that write something beside the item and its object.
LEMMA QuietWorks ==
  ASSUME Ready, NEW h \in Handlers,
         hand[h].pc \in {"links", "publicationAudit", "audit", "assign"},
         NEW i \in Items, i = hand[h].item, OnlyOn(h, i),
         UNCHANGED <<heap, cell, object, reviewRow, objectRow, approvals>>,
         \A j \in Items \ {i} : active'[j] = active[j],
         \A a, b \in active'[i] : a = b,
         HandAgrees(h)'
  PROVE  WorkflowInv'
<1>1. RowsAgree(i) /\ StoreAgrees(i) /\ Settled(i)
  BY SettledBefore DEF Ready, WorkflowInv, ItemAgrees
<1>2. RowsAgree(i)' /\ StoreAgrees(i)' /\ Settled(i)'
  BY <1>1 DEF RowsAgree, StoreAgrees, Settled, ServedContent
<1>3. \A j \in Items \ {i} : Same(j)
  BY DEF Same
<1> QED
  BY <1>2, <1>3, Frame DEF Ready, ApprovalInv, OnlyOn

LEMMA AfterwardsWorks ==
  ASSUME Ready, NEW h \in Handlers,
         AddAssignment(h) \/ AddLinks(h) \/ AuditPublication(h) \/ Audit(h)
  PROVE  WorkflowInv'
<1>1. PICK i \in Items : i = hand[h].item
  BY BusyFacts DEF Ready, AddAssignment, AddLinks, AuditPublication, Audit
<1>2. /\ hand[h].pc \in {"links", "publicationAudit", "audit", "assign"}
      /\ UNCHANGED <<heap, cell, object, reviewRow, objectRow, approvals>>
  BY DEF AddAssignment, AddLinks, AuditPublication, Audit, memory, rows
<1>3. /\ hand \in [Handlers -> Hand] /\ DOMAIN active = Items
      /\ HandAgrees(h) /\ StoreAgrees(i)
  BY DEF Ready, ApprovalInv, TypeInv, TypeOK, WorkflowInv, ItemAgrees
<1>4. \/ Finish(h)
      \/ \E s \in {"publicationAudit", "copy", "stamp"} :
            /\ Goto(h, s)
            /\ s = "copy" => hand[h].pc = "audit" /\ hand[h].op = "approve"
            /\ s = "stamp" => hand[h].pc = "audit" /\ hand[h].op = "quality_submit"
  BY DEF AddAssignment, AddLinks, AuditPublication, Audit
<1>5. /\ \A g \in Handlers \ {h} : hand'[g] = hand[g]
      /\ \/ hand'[h] = Idle
         \/ /\ hand'[h].pc \in {"publicationAudit", "copy", "stamp"}
            /\ hand'[h].op = hand[h].op /\ hand'[h].item = i /\ hand'[h].ref = hand[h].ref
            /\ hand'[h].pc = "copy" => hand[h].pc = "audit" /\ hand[h].op = "approve"
            /\ hand'[h].pc = "stamp" => hand[h].pc = "audit" /\ hand[h].op = "quality_submit"
  BY <1>1, <1>3, <1>4 DEF Finish, Goto, Hand
<1>6. OnlyOn(h, i)
  BY <1>1, <1>2, <1>5 DEF OnlyOn, Idle
<1>7. /\ \A j \in Items \ {i} : active'[j] = active[j]
      /\ \A a, b \in active'[i] : a = b
  <2>1. CASE AddAssignment(h)
    BY <1>1, <1>3, <2>1 DEF AddAssignment, HandAgrees
  <2>2. CASE ~AddAssignment(h)
    BY <1>3, <2>2 DEF AddLinks, AuditPublication, Audit, rows, StoreAgrees
  <2> QED
    BY <2>1, <2>2
<1>8. HandAgrees(h)'
  BY <1>1, <1>2, <1>3, <1>5 DEF HandAgrees, Idle
<1> QED
  BY <1>1, <1>2, <1>6, <1>7, <1>8, QuietWorks

\* The stamp replaces the object in the dict by one that equals it.
LEMMA StampWorks ==
  ASSUME Ready, NEW h \in Handlers, Stamp(h)
  PROVE  WorkflowInv'
<1>1. PICK i \in Items : i = hand[h].item
  BY BusyFacts DEF Ready, Stamp
<1>2. PICK row : row = heap[i]["detached"]
  OBVIOUS
<1>3. /\ hand[h].pc = "stamp"
      /\ cell' = [cell EXCEPT ![i] = "detached"]
      /\ hand' = [hand EXCEPT ![h].pc = "reviewRow", ![h].op = "stamp", ![h].row = row]
      /\ UNCHANGED <<heap, object, reviewRow, objectRow, active, approvals>>
  BY <1>1, <1>2 DEF Stamp, rows
<1>4. /\ hand \in [Handlers -> Hand] /\ TypeInv /\ DOMAIN cell = Items
      /\ hand[h].op = "quality_submit"
  BY <1>3 DEF Ready, ApprovalInv, TypeInv, TypeOK, HandSafe
<1>5. /\ hand'[h].pc = "reviewRow" /\ hand'[h].op = "stamp" /\ hand'[h].item = i
      /\ hand'[h].row = row
      /\ \A g \in Handlers \ {h} : hand'[g] = hand[g]
  BY <1>1, <1>3, <1>4 DEF Hand
<1>6. OnlyOn(h, i)
  BY <1>1, <1>5 DEF OnlyOn
<1>7. /\ RowsAgree(i) /\ StoreAgrees(i) /\ Settled(i)
      /\ row = reviewRow[i] /\ object[i] = NoObject
  BY <1>1, <1>2, <1>3, <1>4, <1>6, SettledBefore
     DEF Ready, WorkflowInv, ItemAgrees, HandAgrees
<1>8. cell'[i] = "detached" /\ \A j \in Items \ {i} : Same(j)
  BY <1>3, <1>4 DEF Same
<1>9. RowsAgree(i)' /\ StoreAgrees(i)'
  BY <1>3, <1>7, <1>8 DEF RowsAgree, StoreAgrees, NoObject, Copies
<1>10. objectRow'[i] = ServedContent(i)'
  BY <1>3, <1>7 DEF Settled, ServedContent, NoObject, Copies
<1>11. Commits("stamp", i, row)'
  BY <1>3, <1>7, <1>5 DEF Commits, Requests
<1>12. HandAgrees(h)'
  BY <1>2, <1>3, <1>5, <1>8, <1>10, <1>11 DEF HandAgrees, Requests
<1> QED
  BY <1>3, <1>4, <1>5, <1>6, <1>8, <1>9, <1>12, Frame DEF Ready

\* A new process finds in memory what the rows hold.
LEMMA RestartWorks ==
  ASSUME Ready, Restart
  PROVE  WorkflowInv'
<1>1. \A h \in Handlers : hand'[h] = Idle
  BY DEF Restart
<1>2. \A h \in Handlers : HandAgrees(h)'
  BY <1>1 DEF HandAgrees, Idle
<1>3. ASSUME NEW i \in Items PROVE ItemAgrees(i)'
  <2>1. RowsAgree(i) /\ StoreAgrees(i)
    BY DEF Ready, WorkflowInv, ItemAgrees
  <2>2. /\ UNCHANGED <<reviewRow, objectRow, active, approvals>>
        /\ heap'[i]["stored"] = reviewRow[i]
        /\ cell'[i] = IF reviewRow[i] = NoItem THEN "none" ELSE "stored"
        /\ object'[i] = IF objectRow[i] = None THEN NoObject
                        ELSE [from |-> "copy", content |-> objectRow[i]]
    BY DEF Restart, rows, Copies
  <2>3. RowsAgree(i)'
    BY <2>1, <2>2 DEF RowsAgree
  <2>4. reviewRow[i] = NoItem => objectRow[i] = None
    BY <2>1 DEF RowsAgree, Decided, NoItem
  <2>5. StoreAgrees(i)'
    BY <2>1, <2>2, <2>4 DEF StoreAgrees, NoObject, Copies
  <2>6. Settled(i)'
    BY <2>2 DEF Settled, ServedContent, NoObject, Copies
  <2> QED
    BY <2>3, <2>5, <2>6 DEF ItemAgrees
<1> QED
  BY <1>2, <1>3 DEF WorkflowInv

-----------------------------------------------------------------------------
(* The invariant, and what it says of the database.                        *)

LEMMA WorkflowInit == Init => WorkflowInv
<1> SUFFICES ASSUME Init PROVE WorkflowInv
  OBVIOUS
<1>1. \A h \in Handlers : HandAgrees(h)
  BY DEF Init, Idle, HandAgrees
<1>2. \A i \in Items : ItemAgrees(i)
  BY DEF Init, ItemAgrees, RowsAgree, StoreAgrees, Settled, ServedContent,
         NoObject, NoItem, Decided, Copies
<1> QED
  BY <1>1, <1>2 DEF WorkflowInv

LEMMA StutterWorks ==
  ASSUME WorkflowInv, UNCHANGED vars
  PROVE  WorkflowInv'
<1> USE DEF vars, memory, rows, faults
<1>1. ASSUME NEW i \in Items PROVE ItemAgrees(i)'
  BY DEF WorkflowInv, ItemAgrees, RowsAgree, StoreAgrees, Settled, Unsettled,
         ServedContent
<1>2. ASSUME NEW h \in Handlers PROVE HandAgrees(h)'
  <2>1. HandAgrees(h) /\ UNCHANGED <<heap, cell, object, reviewRow, objectRow,
                                    active, approvals, hand>>
    BY DEF WorkflowInv
  <2>2. ServedContent(hand[h].item)' = ServedContent(hand[h].item)
    BY <2>1 DEF ServedContent
  <2>3. Commits(hand[h].op, hand[h].item, hand[h].row)'
          = Commits(hand[h].op, hand[h].item, hand[h].row)
    BY <2>1 DEF Commits
  <2> QED
    BY <2>1, <2>2, <2>3 DEF HandAgrees
<1> QED
  BY <1>1, <1>2 DEF WorkflowInv

LEMMA WorkflowStep ==
  ASSUME Ready, [Next]_vars
  PROVE  WorkflowInv'
<1>1. CASE Restart
  BY <1>1, RestartWorks
<1>2. CASE UNCHANGED vars
  BY <1>2, StutterWorks DEF Ready
<1>3. ASSUME NEW h \in Handlers, HandlerStep(h) PROVE WorkflowInv'
  <2>1. CASE \E i \in Items, c \in Contents, op \in {"submit", "quality_submit"} :
               Submit(h, i, c, op)
    BY <2>1, SubmitWorks
  <2>2. CASE \E i \in Items, op \in Requests, guarded \in BOOLEAN : Begin(h, i, op, guarded)
    BY <2>2, BeginWorks
  <2>3. CASE Apply(h)
    BY <2>3, ApplyWorks
  <2>4. CASE Assign(h)
    BY <2>4, AssignWorks
  <2>5. CASE AddAssignment(h) \/ AddLinks(h) \/ AuditPublication(h) \/ Audit(h)
    BY <2>5, AfterwardsWorks
  <2>6. CASE PublishCandidate(h)
    BY <2>6, PublishCandidateWorks
  <2>7. CASE PublishCopy(h)
    BY <2>7, PublishCopyWorks
  <2>8. CASE CommitReviewRow(h)
    BY <2>8, CommitReviewRowWorks
  <2>9. CASE CommitObjectRow(h)
    BY <2>9, CommitObjectRowWorks
  <2>10. CASE Stamp(h)
    BY <2>10, StampWorks
  <2>11. ~DbError(h)
    BY DEF Ready, OneByOne, DbError
  <2> QED
    BY <1>3, <2>1, <2>2, <2>3, <2>4, <2>5, <2>6, <2>7, <2>8, <2>9, <2>10, <2>11
       DEF HandlerStep
<1> QED
  BY <1>1, <1>2, <1>3 DEF Next

LEMMA WorkflowInvariance == Spec /\ []OneByOne => [](ApprovalInv /\ WorkflowInv)
<1>1. ApprovalInv /\ ApprovalInv' /\ WorkflowInv /\ OneByOne /\ OneByOne' /\ [Next]_vars
        => WorkflowInv'
  BY WorkflowStep DEF Ready
<1> QED
  BY <1>1, WorkflowInit, ApprovalInvariance, PTL DEF Spec

\* With one handler and no failing transaction every behaviour is OneByOne:
\* the instance that TLC checks is a case of the theorems below.
LEMMA OneHandler ==
  ASSUME MaxDbErrors = 0, \A g, h \in Handlers : g = h
  PROVE  Spec => []OneByOne
<1>1. Init => OneByOne
  BY DEF Init, OneByOne
<1>2. TypeInv /\ OneByOne /\ [Next]_vars => OneByOne'
  <2> SUFFICES ASSUME TypeInv, OneByOne, [Next]_vars PROVE dbErrors' = 0
    BY DEF OneByOne
  <2>1. ASSUME NEW h \in Handlers, HandlerStep(h) PROVE faults' = faults
    <3>1. ASSUME NEW i \in Items, NEW c \in Contents, NEW op, Submit(h, i, c, op)
          PROVE  faults' = faults
      BY <3>1 DEF Submit
    <3>2. ASSUME NEW i \in Items, NEW op, NEW guarded, Begin(h, i, op, guarded)
          PROVE  faults' = faults
      BY <3>2 DEF Begin
    <3>3. Apply(h) \/ Assign(h) \/ AddAssignment(h) \/ Stamp(h) => faults' = faults
      BY DEF Apply, Assign, AddAssignment, Stamp
    <3>4. PublishCandidate(h) \/ PublishCopy(h) => faults' = faults
      BY DEF PublishCandidate, PublishCopy
    <3>5. CommitReviewRow(h) \/ CommitObjectRow(h) => faults' = faults
      BY DEF CommitReviewRow, CommitObjectRow
    <3>6. AddLinks(h) \/ AuditPublication(h) \/ Audit(h) => faults' = faults
      BY DEF AddLinks, AuditPublication, Audit
    <3>7. ~DbError(h)
      BY DEF OneByOne, DbError
    <3> QED
      BY <2>1, <3>1, <3>2, <3>3, <3>4, <3>5, <3>6, <3>7 DEF HandlerStep
  <2>2. Restart => dbErrors' = dbErrors
    BY DEF Restart
  <2> QED
    BY <2>1, <2>2 DEF Next, OneByOne, vars, faults
<1>3. ApprovalInv => TypeInv
  BY DEF ApprovalInv
<1> QED
  BY <1>1, <1>2, <1>3, ApprovalInvariance, PTL DEF Spec

\* A crash between publish's two transactions never leaves a review that the
\* database calls published without its object.
THEOREM PublicationIsDurable == Spec /\ []OneByOne => []PublishedHasObject
<1>1. WorkflowInv => PublishedHasObject
  BY DEF WorkflowInv, ItemAgrees, RowsAgree, PublishedHasObject
<1> QED
  BY <1>1, WorkflowInvariance, PTL

\* Official content is, word for word, what a reviewer approved.
THEOREM OfficialIsVerbatim == Spec /\ []OneByOne => []OfficialContentApproved
<1>1. WorkflowInv => OfficialContentApproved
  BY DEF WorkflowInv, ItemAgrees, RowsAgree, OfficialContentApproved
<1> QED
  BY <1>1, WorkflowInvariance, PTL

\* When no request is running, a restart finds what memory shows.
THEOREM AnswersLast == Spec /\ []OneByOne => []AnswersAreDurable
<1>1. WorkflowInv => AnswersAreDurable
  BY DEF WorkflowInv, ItemAgrees, Unsettled, Settled, AnswersAreDurable
<1> QED
  BY <1>1, WorkflowInvariance, PTL

\* assign_review replaces: no review has two active assignments.
THEOREM AssignmentsReplace == Spec /\ []OneByOne => []OneActiveAssignment
<1>1. WorkflowInv => OneActiveAssignment
  BY DEF WorkflowInv, ItemAgrees, StoreAgrees, OneActiveAssignment
<1> QED
  BY <1>1, WorkflowInvariance, PTL

-----------------------------------------------------------------------------
(* The steps as ReviewContract sees them.                                  *)

\* The commit of a review row is one step of the contract, or none.
RowStep(i, old, row) ==
    \/ /\ old.status = "absent" /\ row.status = "human_review_required"
    \/ /\ old.status \in Workflow!Open /\ row.status = "human_review_required"
    \/ /\ old.status = "human_review_required" /\ row.content = old.content
       /\ row.status \in {"approved", "changes_requested", "rejected"}
    \/ /\ old.status = "changes_requested" /\ row.status = "rejected"
       /\ row.content = old.content
    \/ /\ old.status = "approved" /\ row.status = "published"
       /\ row.content = old.content /\ objectRow[i] = old.content
    \/ /\ row.status = old.status /\ row.content = old.content

LEMMA CommitIsRowStep ==
  ASSUME Ready, NEW h \in Handlers, CommitReviewRow(h)
  PROVE  \E i \in Items, row \in Item :
            /\ reviewRow' = [reviewRow EXCEPT ![i] = row]
            /\ objectRow' = objectRow
            /\ row.content \in Contents
            /\ RowStep(i, reviewRow[i], row)
<1>1. PICK i \in Items : i = hand[h].item
  BY BusyFacts DEF Ready, CommitReviewRow
<1>2. PICK row \in Item : row = hand[h].row
  BY BusyFacts DEF Ready, CommitReviewRow, Hand
<1>3. /\ hand[h].pc = "reviewRow" /\ objectRow' = objectRow
      /\ reviewRow' = [reviewRow EXCEPT ![i] = row]
  BY <1>1, <1>2 DEF CommitReviewRow
<1>4. hand[h].op \in Ops /\ Real(row)
  BY <1>2, <1>3, BusyFacts DEF Ready, ApprovalInv, HandSafe, Hand
<1>5. Commits(hand[h].op, i, row)
  BY <1>1, <1>2, <1>3 DEF Ready, WorkflowInv, HandAgrees
<1>6. PICK op \in Ops : op = hand[h].op
  BY <1>4
<1>7. RowStep(i, reviewRow[i], row)
  <2>1. CASE op \in {"submit", "quality_submit"}
    BY <1>5, <1>6, <2>1 DEF Commits, RowStep, NoItem
  <2>2. CASE op = "stamp"
    BY <1>5, <1>6, <2>2 DEF Commits, RowStep
  <2>3. CASE op \in {"approve", "reject", "request_changes", "publish"}
    BY <1>5, <1>6, <2>3 DEF Commits, RowStep, Allowed, Outcome, Requests
  <2>4. CASE op = "revise"
    BY <1>5, <1>6, <2>4 DEF Commits, RowStep, Allowed, Outcome, Requests, Workflow!Open
  <2>5. CASE op \in {"enrich", "assign"}
    BY <1>5, <1>6, <2>5 DEF Commits, RowStep, Outcome, Requests
  <2> QED
    BY <1>5, <1>6, <2>1, <2>2, <2>3, <2>4, <2>5 DEF Ops, Requests, Commits
<1> QED
  BY <1>3, <1>4, <1>7 DEF Real

\* Every other step leaves the review rows alone, and only the commit of an
\* object row touches those.
LEMMA OtherSteps ==
  ASSUME Ready, [Next]_vars,
         \A h \in Handlers : ~CommitReviewRow(h)
  PROVE  /\ reviewRow' = reviewRow
         /\ (\A h \in Handlers : ~CommitObjectRow(h)) => objectRow' = objectRow
<1>1. ASSUME NEW h \in Handlers, HandlerStep(h)
      PROVE  /\ reviewRow' = reviewRow
             /\ CommitObjectRow(h) \/ objectRow' = objectRow
  <2> DEFINE Kept == UNCHANGED <<reviewRow, objectRow>>
  <2>1. ASSUME NEW i \in Items, NEW c \in Contents, NEW op, Submit(h, i, c, op) PROVE Kept
    BY <2>1 DEF Submit, rows
  <2>2. ASSUME NEW i \in Items, NEW op, NEW guarded, Begin(h, i, op, guarded) PROVE Kept
    BY <2>2 DEF Begin, rows
  <2>3. Apply(h) \/ Assign(h) \/ AddAssignment(h) \/ Stamp(h) => Kept
    BY DEF Apply, Assign, AddAssignment, Stamp, rows
  <2>4. PublishCandidate(h) \/ PublishCopy(h) => Kept
    BY DEF PublishCandidate, PublishCopy, rows
  <2>5. CommitObjectRow(h) => reviewRow' = reviewRow
    BY DEF CommitObjectRow
  <2>6. AddLinks(h) \/ AuditPublication(h) \/ Audit(h) \/ DbError(h) => Kept
    BY DEF AddLinks, AuditPublication, Audit, DbError, rows
  <2> QED
    BY <1>1, <2>1, <2>2, <2>3, <2>4, <2>5, <2>6 DEF HandlerStep
<1>2. Restart => UNCHANGED <<reviewRow, objectRow>>
  BY DEF Restart, rows
<1> QED
  BY <1>1, <1>2 DEF Next, vars, rows

LEMMA DecisionStep ==
  ASSUME Ready, [Next]_vars, NEW i \in Items
  PROVE  /\ reviewRow[i].status = "approved" =>
               reviewRow'[i].status \in {"approved", "published"}
         /\ reviewRow[i].status \in {"rejected", "published"} =>
               reviewRow'[i].status = reviewRow[i].status
<1>1. CASE \E h \in Handlers : CommitReviewRow(h)
  <2>1. PICK j \in Items, row \in Item :
          /\ reviewRow' = [reviewRow EXCEPT ![j] = row]
          /\ RowStep(j, reviewRow[j], row)
    BY <1>1, CommitIsRowStep
  <2>2. DOMAIN reviewRow = Items
    BY DEF Ready, ApprovalInv, TypeInv, TypeOK
  <2> QED
    BY <2>1, <2>2 DEF RowStep, Workflow!Open
<1>2. CASE \A h \in Handlers : ~CommitReviewRow(h)
  BY <1>2, OtherSteps
<1> QED
  BY <1>1, <1>2

\* In the database a decision is final: an approved review can only become
\* published, a rejected or published one stays as it is.
THEOREM DecisionsAreFinal == Spec /\ []OneByOne => DecisionsStand
<1>1. ApprovalInv /\ ApprovalInv' /\ WorkflowInv /\ OneByOne /\ OneByOne' /\ [Next]_vars
        => [\A i \in Items :
              /\ reviewRow[i].status = "approved" =>
                    reviewRow'[i].status \in {"approved", "published"}
              /\ reviewRow[i].status \in {"rejected", "published"} =>
                    reviewRow'[i].status = reviewRow[i].status]_vars
  BY DecisionStep DEF Ready
<1> QED
  BY <1>1, WorkflowInvariance, PTL DEF Spec, DecisionsStand

LEMMA ContractStarts == Init => Workflow!ContractInit
BY DEF Init, Workflow!ContractInit, NoItem

LEMMA ContractSteps ==
  ASSUME Ready, [Next]_vars
  PROVE  [Workflow!ContractNext]_(Workflow!contractVars)
<1> DEFINE stage(r) == [i \in Items |-> r[i].status]
           candidate(r) == [i \in Items |-> r[i].content]
<1>1. CASE \E h \in Handlers : CommitReviewRow(h)
  <2>1. PICK i \in Items, row \in Item :
          /\ reviewRow' = [reviewRow EXCEPT ![i] = row]
          /\ objectRow' = objectRow /\ row.content \in Contents
          /\ RowStep(i, reviewRow[i], row)
    BY <1>1, CommitIsRowStep
  <2>2. DOMAIN reviewRow = Items
    BY DEF Ready, ApprovalInv, TypeInv, TypeOK
  <2>3. /\ stage(reviewRow') = [stage(reviewRow) EXCEPT ![i] = row.status]
        /\ candidate(reviewRow') = [candidate(reviewRow) EXCEPT ![i] = row.content]
    BY <2>1, <2>2
  <2>4. row.content = reviewRow[i].content => candidate(reviewRow') = candidate(reviewRow)
    BY <2>3
  <2>5. CASE /\ reviewRow[i].status = "absent" /\ row.status = "human_review_required"
    <3>1. Workflow!Submit(i, row.content)
      BY <2>1, <2>3, <2>5 DEF Workflow!Submit, Workflow!MoveTo
    <3> QED
      BY <2>1, <3>1 DEF Workflow!ContractNext
  <2>6. CASE /\ reviewRow[i].status \in Workflow!Open
             /\ row.status = "human_review_required"
    <3>1. Workflow!Revise(i, row.content)
      BY <2>1, <2>3, <2>6 DEF Workflow!Revise, Workflow!MoveTo
    <3> QED
      BY <2>1, <3>1 DEF Workflow!ContractNext
  <2>7. CASE /\ row.content = reviewRow[i].content
             /\ \/ /\ reviewRow[i].status = "human_review_required"
                   /\ row.status \in {"approved", "changes_requested", "rejected"}
                \/ reviewRow[i].status = "changes_requested" /\ row.status = "rejected"
    <3>1. Workflow!Decide(i, row.status)
      BY <2>1, <2>3, <2>4, <2>7 DEF Workflow!Decide, Workflow!MoveTo
    <3> QED
      BY <2>7, <3>1 DEF Workflow!ContractNext
  <2>8. CASE /\ reviewRow[i].status = "approved" /\ row.status = "published"
             /\ row.content = reviewRow[i].content
             /\ objectRow[i] = reviewRow[i].content
    <3>1. Workflow!Close(i)
      BY <2>1, <2>3, <2>4, <2>8 DEF Workflow!Close, Workflow!MoveTo
    <3> QED
      BY <3>1 DEF Workflow!ContractNext
  <2>9. CASE row.status = reviewRow[i].status /\ row.content = reviewRow[i].content
    BY <2>1, <2>3, <2>9 DEF Workflow!contractVars
  <2> QED
    BY <2>1, <2>5, <2>6, <2>7, <2>8, <2>9 DEF RowStep
<1>2. CASE /\ \A h \in Handlers : ~CommitReviewRow(h)
           /\ \E h \in Handlers : CommitObjectRow(h)
  <2>1. PICK h \in Handlers : CommitObjectRow(h)
    BY <1>2
  <2>2. PICK i \in Items : i = hand[h].item
    BY <2>1, BusyFacts DEF Ready, CommitObjectRow
  <2>3. /\ reviewRow' = reviewRow
        /\ objectRow' = [objectRow EXCEPT ![i] = hand[h].row.content]
    BY <1>2, <2>1, <2>2, OtherSteps DEF CommitObjectRow
  <2>4. /\ reviewRow[i].status = "approved"
        /\ hand[h].row.content = reviewRow[i].content
    BY <2>1, <2>2 DEF Ready, WorkflowInv, HandAgrees, CommitObjectRow
  <2>5. Workflow!MakeOfficial(i)
    BY <2>3, <2>4 DEF Workflow!MakeOfficial
  <2> QED
    BY <2>5 DEF Workflow!ContractNext
<1>3. CASE \A h \in Handlers : ~CommitReviewRow(h) /\ ~CommitObjectRow(h)
  <2>1. reviewRow' = reviewRow /\ objectRow' = objectRow
    BY <1>3, OtherSteps
  <2> QED
    BY <2>1 DEF Workflow!contractVars
<1> QED
  BY <1>1, <1>2, <1>3

\* The review and object rows implement the abstract workflow: submitted,
\* revised while open, decided once, official only with approved content,
\* closed only when official.
THEOREM ContractHolds == Spec /\ []OneByOne => RefinesContract
<1>1. ApprovalInv /\ ApprovalInv' /\ WorkflowInv /\ OneByOne /\ OneByOne' /\ [Next]_vars
        => [Workflow!ContractNext]_(Workflow!contractVars)
  BY ContractSteps DEF Ready
<1> QED
  BY <1>1, ContractStarts, WorkflowInvariance, PTL
     DEF Spec, RefinesContract, Workflow!Contract

=============================================================================
