-------------------------- MODULE ReviewGovernance --------------------------
(***************************************************************************)
(* Human review of candidates and their publication as official knowledge: *)
(* GovernanceService (services/governance.py), the application operations  *)
(* that change a review item (application.py), the knowledge-operations    *)
(* calls that rewrite one (knowledge_ops/service.py), and the write order  *)
(* of SqlAlchemyBrainStore, whose every call changes the Python object in  *)
(* memory first and then merges one row in a transaction of its own.       *)
(*                                                                         *)
(* REST handlers are synchronous functions of a thread pool that share the *)
(* store's Python objects without a lock, so a handler is a sequence of    *)
(* steps: its guards, its change in memory together with the payload that  *)
(* it serialises, and each commit.  hand[h] is handler h's local state.    *)
(*                                                                         *)
(* A submission makes two Python objects for one item: the deep copy that  *)
(* the store keeps ("stored") and the original that is handed back to the  *)
(* caller ("detached").  cell[i] is the one store.review_items refers to.  *)
(* Content is the candidate's title, summary, owner and attributes as one  *)
(* value; the contents in Owned name a responsible owner.                  *)
(***************************************************************************)
EXTENDS Naturals

CONSTANTS
    Items,          \* review items
    Handlers,       \* request handlers that may run at the same time
    Contents,       \* what a candidate may say
    Owned,          \* the contents that name an owner
    None,           \* no content, no item
    RequireOwner,   \* settings.require_owner_for_publish
    MaxRevision,    \* bound: no request starts at this revision
    MaxCrashes,     \* bound on process crashes
    MaxDbErrors     \* bound on failed transactions

ASSUME ReviewAssumption ==
    /\ Owned \subseteq Contents
    /\ None \notin Contents
    /\ None \notin Items
    /\ RequireOwner \in BOOLEAN
    /\ MaxRevision \in Nat /\ MaxCrashes \in Nat /\ MaxDbErrors \in Nat

VARIABLES
    heap,        \* the two Python objects of each item
    cell,        \* which of them the store's dict refers to ("none": no entry)
    object,      \* store.knowledge_objects: an alias of a candidate, or a copy
    reviewRow,   \* the committed review row
    objectRow,   \* the content of the committed knowledge object row
    edges,       \* how many times the object's relationship records were added
    active,      \* the item's active reviewer assignments
    issued,      \* how many assignments were ever created
    audit,       \* the items with a knowledge_published audit event
    approvals,   \* history: the content a reviewer approved, as <<item, content>>
    hand,        \* what each handler is doing
    crashes, dbErrors

memory == <<heap, cell, object>>
rows == <<reviewRow, objectRow, edges, active, issued, audit>>
faults == <<crashes, dbErrors>>
vars == <<memory, rows, approvals, hand, faults>>

Copies == {"stored", "detached"}

\* ReviewStatus, as far as any code assigns it to a review item; "absent" is
\* no item.  publication_pending is accepted by publish but never assigned.
Statuses == {"absent", "human_review_required", "changes_requested",
             "approved", "published", "rejected"}

Item == [status : Statuses, revision : Nat, content : Contents \cup {None}]

NoItem == [status |-> "absent", revision |-> 0, content |-> None]

Requests == {"approve", "reject", "request_changes", "revise", "publish",
             "enrich", "assign"}

Ops == Requests \cup {"none", "submit", "quality_submit", "stamp"}

Steps == {"idle", "checked", "reviewRow", "objectRow", "audit", "copy", "links",
          "publicationAudit", "assign", "stamp"}

\* pc: the next step; ref: the Python object the handler holds; base: the
\* revision it checked; guarded: the request named an expected revision; row:
\* the payload it serialised and has not committed; current: the assignment
\* it is about to replace (0: none).
Hand == [pc : Steps, op : Ops, item : Items \cup {None}, ref : Copies,
         base : Nat, guarded : BOOLEAN, row : Item, current : Nat]

Idle == [pc |-> "idle", op |-> "none", item |-> None, ref |-> "stored",
         base |-> 0, guarded |-> FALSE, row |-> NoItem, current |-> 0]

NoObject == [from |-> "none", content |-> None]

Init ==
    /\ heap = [i \in Items |-> [k \in Copies |-> NoItem]]
    /\ cell = [i \in Items |-> "none"]
    /\ object = [i \in Items |-> NoObject]
    /\ reviewRow = [i \in Items |-> NoItem]
    /\ objectRow = [i \in Items |-> None]
    /\ edges = [i \in Items |-> 0]
    /\ active = [i \in Items |-> {}]
    /\ issued = 0
    /\ audit = {}
    /\ approvals = {}
    /\ hand = [h \in Handlers |-> Idle]
    /\ crashes = 0 /\ dbErrors = 0

-----------------------------------------------------------------------------
(* What the guards and the transitions say.                                *)

AnyStatus == Statuses \ {"absent"}

\* Mutant: an approved item can still be rejected.
AllowedRejectApproved(op) ==
    {s \in AnyStatus :
        /\ op \in {"approve", "request_changes"} => s = "human_review_required"
        /\ op = "reject" =>
              s \in {"human_review_required", "changes_requested", "approved"}
        /\ op = "revise" => s \in {"human_review_required", "changes_requested"}
        /\ op = "publish" => s = "approved"}

\* Mutant: publish accepts an item that is still in review.
AllowedPublishUnapproved(op) ==
    {s \in AnyStatus :
        /\ op \in {"approve", "request_changes"} => s = "human_review_required"
        /\ op \in {"reject", "revise"} =>
              s \in {"human_review_required", "changes_requested"}
        /\ op = "publish" => s \in {"human_review_required", "approved"}}

\* The statuses each request is allowed in; enrich and assign check none.
Allowed(op) ==
    {s \in AnyStatus :
        /\ op \in {"approve", "request_changes"} => s = "human_review_required"
        /\ op \in {"reject", "revise"} =>
              s \in {"human_review_required", "changes_requested"}
        /\ op = "publish" => s = "approved"}

\* Mutant: approve leaves the item in publication_pending.
OutcomePending(op, status) ==
    IF op = "approve" THEN "publication_pending"
    ELSE IF op = "publish" THEN "published"
    ELSE IF op = "reject" THEN "rejected"
    ELSE IF op = "request_changes" THEN "changes_requested"
    ELSE IF op = "revise" THEN "human_review_required"
    ELSE status

\* The status each request leaves.
Outcome(op, status) ==
    IF op = "approve" THEN "approved"
    ELSE IF op = "publish" THEN "published"
    ELSE IF op = "reject" THEN "rejected"
    ELSE IF op = "request_changes" THEN "changes_requested"
    ELSE IF op = "revise" THEN "human_review_required"
    ELSE status

\* What assign_review replaces: next(...) over the assignments in insertion
\* order finds the oldest active one, or none (0).
Replaced(op, i) ==
    IF op = "assign" /\ active[i] # {}
    THEN {a \in active[i] : \A b \in active[i] : a <= b}
    ELSE {0}

Goto(h, step) == hand' = [hand EXCEPT ![h].pc = step]

Finish(h) == hand' = [hand EXCEPT ![h] = Idle]

-----------------------------------------------------------------------------
(* Submission.                                                             *)

\* submit_text and submit_parsed_batch: the store gets a deep copy.  The
\* evidence rows that precede the item do not touch review state.
Submit(h, i, c, op) ==
    /\ hand[h].pc = "idle"
    /\ cell[i] = "none"
    /\ LET new == [status |-> "human_review_required", revision |-> 1, content |-> c]
       IN /\ heap' = [heap EXCEPT ![i] = [k \in Copies |-> new]]
          /\ hand' = [hand EXCEPT ![h] = [Idle EXCEPT !.pc = "reviewRow", !.op = op,
                                            !.item = i, !.ref = "detached", !.row = new]]
    /\ cell' = [cell EXCEPT ![i] = "stored"]
    /\ UNCHANGED <<object, rows, approvals, faults>>

\* KnowledgeOperationsService.submit and run_subscription write the tenant
\* into the detached object and hand that one to update_review_item.
Stamp(h) ==
    /\ hand[h].pc = "stamp"
    /\ LET i == hand[h].item
       IN /\ cell' = [cell EXCEPT ![i] = "detached"]
          /\ hand' = [hand EXCEPT ![h].pc = "reviewRow", ![h].op = "stamp",
                                  ![h].row = heap[i]["detached"]]
    /\ UNCHANGED <<heap, object, rows, approvals, faults>>

-----------------------------------------------------------------------------
(* Requests on an existing item.                                           *)

\* _get, _check_revision, _require_state and the owner requirement.  A guarded
\* request that names another revision is refused and changes nothing.
Begin(h, i, op, guarded) ==
    /\ hand[h].pc = "idle"
    /\ cell[i] # "none"
    /\ LET it == heap[i][cell[i]]
       IN /\ it.status \in Allowed(op)
          /\ it.revision < MaxRevision
          /\ op = "publish" /\ RequireOwner => it.content \in Owned
          /\ op = "revise" => guarded
          /\ op \in {"enrich", "assign"} => ~guarded
          /\ \E current \in Replaced(op, i) :
                hand' = [hand EXCEPT ![h] =
                           [Idle EXCEPT !.pc = "checked", !.op = op, !.item = i,
                              !.ref = cell[i], !.base = it.revision,
                              !.guarded = guarded, !.current = current]]
    /\ UNCHANGED <<memory, rows, approvals, faults>>

\* The object in hand as the request leaves it, with content c.
Changed(h, c) ==
    LET old == heap[hand[h].item][hand[h].ref]
    IN [status |-> Outcome(hand[h].op, old.status),
        revision |-> old.revision + 1, content |-> c]

\* Mutant: enrichment rewrites the content, as a revision does.
ApplyEnrichEdits(h) ==
    /\ hand[h].pc = "checked"
    /\ hand[h].op \in Requests \ {"publish", "assign"}
    /\ LET i == hand[h].item
           old == heap[i][hand[h].ref]
       IN \E c \in Contents :
             /\ hand[h].op \in {"revise", "enrich"} \/ c = old.content
             /\ heap' = [heap EXCEPT ![i][hand[h].ref] = Changed(h, c)]
             /\ cell' = [cell EXCEPT ![i] = hand[h].ref]
             /\ hand' = [hand EXCEPT ![h].pc = "reviewRow", ![h].row = Changed(h, c)]
             /\ approvals' = IF hand[h].op = "approve"
                             THEN approvals \cup {<<i, c>>} ELSE approvals
    /\ UNCHANGED <<object, rows, faults>>

\* approve, reject, request_changes, revise and enrich_review: change the
\* object, put it into the dict, serialise its row.  Only revise edits content.
Apply(h) ==
    /\ hand[h].pc = "checked"
    /\ hand[h].op \in Requests \ {"publish", "assign"}
    /\ LET i == hand[h].item
           old == heap[i][hand[h].ref]
       IN \E c \in Contents :
             /\ hand[h].op = "revise" \/ c = old.content
             /\ heap' = [heap EXCEPT ![i][hand[h].ref] = Changed(h, c)]
             /\ cell' = [cell EXCEPT ![i] = hand[h].ref]
             /\ hand' = [hand EXCEPT ![h].pc = "reviewRow", ![h].row = Changed(h, c)]
             /\ approvals' = IF hand[h].op = "approve"
                             THEN approvals \cup {<<i, c>>} ELSE approvals
    /\ UNCHANGED <<object, rows, faults>>

\* Mutant: the replaced assignment is not cancelled.
AssignKeepsCurrent(h) ==
    /\ hand[h].pc = "checked"
    /\ hand[h].op = "assign"
    /\ LET i == hand[h].item
           new == Changed(h, heap[i][hand[h].ref].content)
       IN /\ heap' = [heap EXCEPT ![i][hand[h].ref] = new]
          /\ cell' = [cell EXCEPT ![i] = hand[h].ref]
          /\ hand' = [hand EXCEPT ![h].pc = "reviewRow", ![h].row = new]
    /\ UNCHANGED <<object, rows, approvals, faults>>

\* assign_review: cancel the assignment it found, then touch the item.
Assign(h) ==
    /\ hand[h].pc = "checked"
    /\ hand[h].op = "assign"
    /\ LET i == hand[h].item
           new == Changed(h, heap[i][hand[h].ref].content)
       IN /\ active' = [active EXCEPT ![i] = @ \ {hand[h].current}]
          /\ heap' = [heap EXCEPT ![i][hand[h].ref] = new]
          /\ cell' = [cell EXCEPT ![i] = hand[h].ref]
          /\ hand' = [hand EXCEPT ![h].pc = "reviewRow", ![h].row = new]
    /\ UNCHANGED <<object, reviewRow, objectRow, edges, issued, audit, approvals, faults>>

\* ... and add the new assignment after the item's row.
AddAssignment(h) ==
    /\ hand[h].pc = "assign"
    /\ issued' = issued + 1
    /\ active' = [active EXCEPT ![hand[h].item] = @ \cup {issued + 1}]
    /\ Finish(h)
    /\ UNCHANGED <<memory, reviewRow, objectRow, edges, audit, approvals, faults>>

\* publish: change the live candidate and make it the published object (the
\* store then holds the same Python object under both names).
PublishCandidate(h) ==
    /\ hand[h].pc = "checked"
    /\ hand[h].op = "publish"
    /\ LET i == hand[h].item
           new == Changed(h, heap[i][hand[h].ref].content)
       IN /\ heap' = [heap EXCEPT ![i][hand[h].ref] = new]
          /\ object' = [object EXCEPT ![i] = [from |-> hand[h].ref, content |-> None]]
          /\ hand' = [hand EXCEPT ![h].pc = "objectRow", ![h].row = new]
    /\ UNCHANGED <<cell, rows, approvals, faults>>

\* Mutant: the compatibility copy is announced without being stored.
PublishCopyUnstored(h) ==
    /\ hand[h].pc = "copy"
    /\ Goto(h, "links")
    /\ UNCHANGED <<memory, rows, approvals, faults>>

\* _publish_legacy_copy: an approval that named no expected revision publishes
\* an independent copy; no owner is required and the item stays approved.
PublishCopy(h) ==
    /\ hand[h].pc = "copy"
    /\ LET live == heap[hand[h].item][hand[h].ref]
       IN /\ object' = [object EXCEPT ![hand[h].item] =
                          [from |-> "copy", content |-> live.content]]
          /\ hand' = [hand EXCEPT ![h].pc = "objectRow", ![h].row = live]
    /\ UNCHANGED <<heap, cell, rows, approvals, faults>>

-----------------------------------------------------------------------------
(* Commits.                                                                *)

\* What follows the commit of a review row.
AfterReviewRow(op) ==
    IF op = "publish" THEN "links" ELSE IF op = "assign" THEN "assign" ELSE "audit"

\* Mutant: the row of an assignment is not merged.
CommitReviewRowNotAssign(h) ==
    /\ hand[h].pc = "reviewRow"
    /\ reviewRow' = IF hand[h].op = "assign" THEN reviewRow
                    ELSE [reviewRow EXCEPT ![hand[h].item] = hand[h].row]
    /\ IF hand[h].op = "stamp" THEN Finish(h) ELSE Goto(h, AfterReviewRow(hand[h].op))
    /\ UNCHANGED <<memory, objectRow, edges, active, issued, audit, approvals, faults>>

\* _merge of the review row that was serialised earlier.
CommitReviewRow(h) ==
    /\ hand[h].pc = "reviewRow"
    /\ reviewRow' = [reviewRow EXCEPT ![hand[h].item] = hand[h].row]
    /\ IF hand[h].op = "stamp" THEN Finish(h) ELSE Goto(h, AfterReviewRow(hand[h].op))
    /\ UNCHANGED <<memory, objectRow, edges, active, issued, audit, approvals, faults>>

\* Mutant: publish commits the review row in place of the object row.
CommitObjectRowLast(h) ==
    /\ hand[h].pc = "objectRow"
    /\ LET i == hand[h].item
       IN IF hand[h].op = "publish"
          THEN /\ cell' = [cell EXCEPT ![i] = hand[h].ref]
               /\ hand' = [hand EXCEPT ![h].pc = "reviewRow",
                                       ![h].row = heap[i][hand[h].ref]]
               /\ UNCHANGED objectRow
          ELSE /\ objectRow' = [objectRow EXCEPT ![i] = hand[h].row.content]
               /\ Goto(h, "links")
               /\ UNCHANGED cell
    /\ UNCHANGED <<heap, object, reviewRow, edges, active, issued, audit, approvals, faults>>

\* _merge of the knowledge object; publish then turns to the review row.
CommitObjectRow(h) ==
    /\ hand[h].pc = "objectRow"
    /\ LET i == hand[h].item
       IN /\ objectRow' = [objectRow EXCEPT ![i] = hand[h].row.content]
          /\ IF hand[h].op = "publish"
             THEN /\ cell' = [cell EXCEPT ![i] = hand[h].ref]
                  /\ hand' = [hand EXCEPT ![h].pc = "reviewRow",
                                          ![h].row = heap[i][hand[h].ref]]
             ELSE Goto(h, "links") /\ UNCHANGED cell
    /\ UNCHANGED <<heap, object, reviewRow, edges, active, issued, audit, approvals, faults>>

\* The relationship records of a published object, under fresh identifiers.
AddLinks(h) ==
    /\ hand[h].pc = "links"
    /\ edges' = [edges EXCEPT ![hand[h].item] = @ + 1]
    /\ Goto(h, "publicationAudit")
    /\ UNCHANGED <<memory, reviewRow, objectRow, active, issued, audit, approvals, faults>>

AuditPublication(h) ==
    /\ hand[h].pc = "publicationAudit"
    /\ audit' = audit \cup {hand[h].item}
    /\ Finish(h)
    /\ UNCHANGED <<memory, reviewRow, objectRow, edges, active, issued, approvals, faults>>

\* The audit event of every other operation (no property looks at it) is
\* committed, and the operation does what it still has to do.
Audit(h) ==
    /\ hand[h].pc = "audit"
    /\ \/ hand[h].op = "approve" /\ ~hand[h].guarded /\ Goto(h, "copy")
       \/ hand[h].op = "quality_submit" /\ Goto(h, "stamp")
       \/ /\ hand[h].op # "quality_submit"
          /\ hand[h].op = "approve" => hand[h].guarded
          /\ Finish(h)
    /\ UNCHANGED <<memory, rows, approvals, faults>>

-----------------------------------------------------------------------------
(* Faults.                                                                 *)

\* A transaction fails: the handler answers with an error, memory keeps the
\* change.  (audit, edges and active stand for the committed records.)
DbError(h) ==
    /\ dbErrors < MaxDbErrors
    /\ hand[h].pc \in {"reviewRow", "objectRow", "audit", "links",
                       "publicationAudit", "assign"}
    /\ dbErrors' = dbErrors + 1
    /\ Finish(h)
    /\ UNCHANGED <<memory, rows, approvals, crashes>>

\* The process dies between two steps; the next one loads the rows (reload).
Restart ==
    /\ crashes < MaxCrashes
    /\ crashes' = crashes + 1
    /\ hand' = [h \in Handlers |-> Idle]
    /\ heap' = [i \in Items |-> [k \in Copies |->
                  IF k = "stored" THEN reviewRow[i] ELSE NoItem]]
    /\ cell' = [i \in Items |-> IF reviewRow[i] = NoItem THEN "none" ELSE "stored"]
    /\ object' = [i \in Items |-> IF objectRow[i] = None THEN NoObject
                                  ELSE [from |-> "copy", content |-> objectRow[i]]]
    /\ UNCHANGED <<rows, approvals, dbErrors>>

-----------------------------------------------------------------------------

HandlerStep(h) ==
    \/ \E i \in Items, c \in Contents, op \in {"submit", "quality_submit"} :
          Submit(h, i, c, op)
    \/ \E i \in Items, op \in Requests, guarded \in BOOLEAN : Begin(h, i, op, guarded)
    \/ Apply(h)
    \/ Assign(h)
    \/ AddAssignment(h)
    \/ PublishCandidate(h)
    \/ PublishCopy(h)
    \/ CommitReviewRow(h)
    \/ CommitObjectRow(h)
    \/ AddLinks(h)
    \/ AuditPublication(h)
    \/ Audit(h)
    \/ Stamp(h)
    \/ DbError(h)

Next == Restart \/ \E h \in Handlers : HandlerStep(h)

Spec == Init /\ [][Next]_vars

-----------------------------------------------------------------------------
(* Properties.                                                             *)

\* Every variable keeps its type; in particular no operation ever puts an
\* item into publication_pending.
TypeOK ==
    /\ heap \in [Items -> [Copies -> Item]]
    /\ cell \in [Items -> Copies \cup {"none"}]
    /\ object \in [Items -> [from : Copies \cup {"none", "copy"},
                             content : Contents \cup {None}]]
    /\ reviewRow \in [Items -> Item]
    /\ objectRow \in [Items -> Contents \cup {None}]
    /\ edges \in [Items -> Nat]
    /\ active \in [Items -> SUBSET Nat]
    /\ issued \in Nat
    /\ audit \subseteq Items
    /\ approvals \subseteq Items \X Contents
    /\ hand \in [Handlers -> Hand]
    /\ crashes \in Nat /\ dbErrors \in Nat

\* There is no official object that no reviewer ever approved, however the
\* handlers interleave and wherever they crash or fail.
ObjectWasApproved ==
    \A i \in Items : objectRow[i] # None => \E c \in Contents : <<i, c>> \in approvals

\* An audit event of a publication, or a relationship of a published object,
\* is recorded only once the object itself is durable.
EffectsFollowObject ==
    \A i \in Items :
       i \in audit \/ edges[i] > 0 => objectRow[i] # None

\* A review that the database shows as published has its object row: a crash
\* between publish's two transactions leaves the review approved, so that the
\* publication can be repeated, and never published without an object.
PublishedHasObject ==
    \A i \in Items : reviewRow[i].status = "published" => objectRow[i] # None

\* Official content is content a reviewer approved, word for word: nothing can
\* edit a candidate between its approval and its publication.
OfficialContentApproved ==
    \A i \in Items : objectRow[i] # None => <<i, objectRow[i]>> \in approvals

\* A human decision is final in the database: an approved review can only
\* become published, a rejected or published one stays as it is.
DecisionsStand ==
    [][\A i \in Items :
         /\ reviewRow[i].status = "approved" =>
               reviewRow'[i].status \in {"approved", "published"}
         /\ reviewRow[i].status \in {"rejected", "published"} =>
               reviewRow'[i].status = reviewRow[i].status]_vars

\* What the store serves for an object that aliases a candidate, or is a copy.
ServedContent(i) ==
    IF object[i].from \in Copies THEN heap[i][object[i].from].content
    ELSE object[i].content

\* Whenever no handler is running, a restart would find exactly what memory
\* shows, review items and knowledge objects alike: every answer is durable.
AnswersAreDurable ==
    (\A h \in Handlers : hand[h].pc = "idle") =>
       \A i \in Items :
          /\ reviewRow[i] = IF cell[i] = "none" THEN NoItem ELSE heap[i][cell[i]]
          /\ objectRow[i] = ServedContent(i)

\* assign_review replaces: a review never has two active assignments.
OneActiveAssignment ==
    \A i \in Items : \A a, b \in active[i] : a = b

\* A decision that named an expected revision is applied to that revision.
GuardedRevisionHolds ==
    [][\A h \in Handlers :
         LET me == hand[h] IN
         me.pc = "checked" /\ me.guarded /\ hand'[h].pc \in {"reviewRow", "objectRow"} =>
            heap[me.item][me.ref].revision = me.base]_vars

\* While the process lives, what reviewers see of a decision stands: an item
\* that store.review_items shows as approved or rejected does not go back to
\* review because some other request was still in progress.
SeenDecisionsStand ==
    [][crashes' = crashes =>
         \A i \in Items : cell[i] # "none" =>
            (heap[i][cell[i]].status \in {"approved", "rejected", "published"} =>
             heap'[i][cell'[i]].status \in {"approved", "rejected", "published"})]_vars

Workflow == INSTANCE ReviewContract WITH
    stage <- [i \in Items |-> reviewRow[i].status],
    candidate <- [i \in Items |-> reviewRow[i].content],
    official <- objectRow

\* The rows implement the abstract review workflow.
RefinesContract == Workflow!Contract

=============================================================================
