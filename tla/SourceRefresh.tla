--------------------------- MODULE SourceRefresh ---------------------------
(***************************************************************************)
(* Scheduled refresh of one source subscription: run_subscription of       *)
(* KnowledgeOperationsService (knowledge_ops/service.py), the pause and    *)
(* resume routes, and add_subscription / add_refresh_run of the store.     *)
(*                                                                         *)
(* A run collects the source's documents, compares their digest with the   *)
(* one it remembers, submits every document as a review candidate when the *)
(* digest differs, and remembers the new digest last.  The subscription is *)
(* one Python object that all requests share (sub); its row (subRow) is    *)
(* written from a payload serialised earlier.  Every commit is a step, so  *)
(* that failures, a crash and other requests fall in between.              *)
(*                                                                         *)
(* The digest is that of the joined texts, without their places.  Where    *)
(* the code keeps a digest, the model keeps the collection that the digest *)
(* was taken from, so that properties can speak of it; the actions compare *)
(* digests only.  A text is a sequence of lines; consecutive_failures and  *)
(* the timestamps are only reported.                                       *)
(***************************************************************************)
EXTENDS Naturals, FiniteSets, SequencesExt

CONSTANTS
    Docs,           \* the places of the source's documents
    Texts,          \* what a document may say: sequences of lines
    NoDigest,       \* last_checksum None
    Handlers,       \* requests that may run at the same time
    MaxChanges,     \* bound: how often the source changes
    MaxRuns,        \* bound: how many runs are requested
    MaxTroubles     \* bound: pause and resume requests, failing calls and
                    \* transactions, and crashes of the process

\* The text of a document that is blank, or that the parser rejects.
Blank == <<"">>

Sources == [Docs -> Texts \cup {Blank}]

\* The connector reads folders and pages in no fixed order and skips, with a
\* warning, what it cannot read or has no room for.
Orders == {order \in SeqOf(Docs, Cardinality(Docs)) : IsInjective(order)}

\* "\n".join of the texts read: their lines one after the other, and no text at
\* all is the empty text.  Two texts with one hash are left out.
Joined(order, text) ==
    IF order = <<>> THEN Blank
    ELSE FlattenSeq([i \in 1 .. Len(order) |-> text[order[i]]])

Digests == {Joined(order, text) : order \in Orders, text \in Sources}

\* One collection: the text each place yielded, nothing for one that was skipped,
\* and the digest.
Collection == [text : Sources, digest : Digests]

Digest(c) == IF c = NoDigest THEN NoDigest ELSE c.digest

ASSUME RefreshAssumption ==
    /\ Blank \notin Texts
    /\ NoDigest \notin Collection \cup Digests
    /\ {MaxChanges, MaxRuns, MaxTroubles} \subseteq Nat

VARIABLES
    source,      \* external: what the source's documents say now
    sub,         \* the subscription in memory
    subRow,      \* its committed row
    candidates,  \* the review candidates, in order of creation
    runs,        \* the committed refresh runs
    job,         \* what each request is doing
    latest,      \* history: the digest of the last collection, of any request
    varied,      \* history: collections with another digest than the one before
    changes,     \* history: how often the source changed
    started,     \* history: the runs requested so far
    overlaps,    \* history: runs requested while another one was in progress
    batches,     \* history: runs that found a new digest
    pauses, errors, crashes

history == <<latest, varied, changes, started, overlaps, batches, pauses>>
vars == <<source, sub, subRow, candidates, runs, job, history, errors, crashes>>

SubscriptionStatuses == {"active", "paused", "failing"}

RunStatuses == {"skipped", "unchanged", "changed", "failed"}

Subscription == [status : SubscriptionStatuses, checksum : Collection \cup {NoDigest}]

Candidate == [doc : Docs, text : Texts, stamped : BOOLEAN]

Run == [status : RunStatuses, checksum : Collection \cup {NoDigest}, items : SUBSET Nat]

NoRun == [status |-> "skipped", checksum |-> NoDigest, items |-> {}]

Steps == {"idle", "collect", "compare", "submit", "commit", "run", "route"}

\* pc: the next step.  seen: what the run collected.  todo: the documents it
\* has still to submit.  made: its candidates.  row: the serialised
\* subscription.  run: the record to add last.  caught: the except branch ran.
Job == [pc : Steps, seen : Collection \cup {NoDigest}, todo : SUBSET Docs,
        made : SUBSET Nat, row : Subscription, run : Run, caught : BOOLEAN]

Idle == [pc |-> "idle", seen |-> NoDigest, todo |-> {}, made |-> {},
         row |-> [status |-> "active", checksum |-> NoDigest], run |-> NoRun,
         caught |-> FALSE]

\* create_subscription.
Init ==
    /\ source \in Sources
    /\ sub = [status |-> "active", checksum |-> NoDigest]
    /\ subRow = sub
    /\ candidates = <<>>
    /\ runs = <<>>
    /\ job = [h \in Handlers |-> Idle]
    /\ latest = NoDigest
    /\ varied = 0 /\ changes = 0
    /\ started = 0 /\ overlaps = 0 /\ batches = 0 /\ pauses = 0
    /\ errors = 0 /\ crashes = 0

-----------------------------------------------------------------------------

\* Somebody edits documents of the source.
SourceChanges ==
    /\ changes < MaxChanges
    /\ changes' = changes + 1
    /\ source' \in Sources \ {source}
    /\ UNCHANGED <<sub, subRow, candidates, runs, job, latest, varied, started,
                   overlaps, batches, pauses, errors, crashes>>

Running(h) == job[h].pc \notin {"idle", "route"}

\* A run is requested; a paused subscription is skipped.
Begin(h) ==
    /\ job[h].pc = "idle"
    /\ started < MaxRuns
    /\ started' = started + 1
    /\ overlaps' = IF \E g \in Handlers : Running(g) THEN overlaps + 1 ELSE overlaps
    /\ job' = [job EXCEPT ![h].pc = IF sub.status = "paused" THEN "run" ELSE "collect"]
    /\ UNCHANGED <<source, sub, subRow, candidates, runs, latest, varied, changes,
                   batches, pauses, errors, crashes>>

\* What a connector that reads these places, in this order, makes of the source.
Read(order) ==
    LET text == [d \in Docs |-> IF d \in Range(order) THEN source[d] ELSE Blank]
    IN [text |-> text, digest |-> Joined(order, text)]

\* _collect_subscription: the connector reads what it can of the source.
Collect(h, order) ==
    /\ job[h].pc = "collect"
    /\ job' = [job EXCEPT ![h].pc = "compare", ![h].seen = Read(order)]
    /\ latest' = Read(order).digest
    /\ varied' = IF latest # latest' THEN varied + 1 ELSE varied
    /\ UNCHANGED <<source, sub, subRow, candidates, runs, changes, started, overlaps,
                   batches, pauses, errors, crashes>>

\* Mutant: the comparison with the remembered digest is lost.
CompareNothing(h) ==
    /\ job[h].pc = "compare"
    /\ batches' = batches + 1
    /\ job' = [job EXCEPT ![h].pc = "submit",
                          ![h].todo = {d \in Docs : job[h].seen.text[d] # Blank},
                          ![h].run = [status |-> "changed", checksum |-> job[h].seen,
                                      items |-> {}]]
    /\ UNCHANGED <<source, sub, subRow, candidates, runs, latest, varied, changes,
                   started, overlaps, pauses, errors, crashes>>

\* The digest is compared with the last one; a new one starts a batch.
Compare(h) ==
    /\ job[h].pc = "compare"
    /\ LET seen == job[h].seen
           new == Digest(sub.checksum) # Digest(seen)
       IN /\ batches' = IF new THEN batches + 1 ELSE batches
          /\ job' = [job EXCEPT
                       ![h].pc = "submit",
                       ![h].todo = IF new THEN {d \in Docs : seen.text[d] # Blank}
                                ELSE {},
                       ![h].run = [status |-> IF new THEN "changed" ELSE "unchanged",
                                   checksum |-> seen, items |-> {}]]
    /\ UNCHANGED <<source, sub, subRow, candidates, runs, latest, varied, changes,
                   started, overlaps, pauses, errors, crashes>>

\* submit_parsed_batch: one more document becomes a candidate of its own.  The
\* candidate belongs to no tenant yet.
Submit(h, d) ==
    /\ job[h].pc = "submit"
    /\ d \in job[h].todo
    /\ candidates' = Append(candidates, [doc |-> d, text |-> job[h].seen.text[d],
                                         stamped |-> FALSE])
    /\ job' = [job EXCEPT ![h].todo = @ \ {d}, ![h].made = @ \cup {Len(candidates) + 1}]
    /\ UNCHANGED <<source, sub, subRow, runs, history, errors, crashes>>

\* Once all are submitted, tenant and subscription are written into each in turn.
Stamp(h, n) ==
    /\ job[h].pc = "submit"
    /\ job[h].todo = {}
    /\ n \in job[h].made
    /\ ~candidates[n].stamped
    /\ \A k \in job[h].made : candidates[k].stamped \/ n <= k
    /\ candidates' = [candidates EXCEPT ![n].stamped = TRUE]
    /\ UNCHANGED <<source, sub, subRow, runs, job, history, errors, crashes>>

\* Mutant: the digest is remembered before the batch is complete.
SettleEarly(h) ==
    /\ job[h].pc = "submit"
    /\ sub' = [status |-> "active", checksum |-> IF job[h].run.status = "changed"
                                                 THEN job[h].seen ELSE sub.checksum]
    /\ job' = [job EXCEPT ![h] = [Idle EXCEPT !.pc = "commit", !.row = sub',
                             !.run = [job[h].run EXCEPT !.items = job[h].made]]]
    /\ UNCHANGED <<source, subRow, candidates, runs, history, errors, crashes>>

\* Mutant: the run is settled before its candidates are stamped.
SettleUnstamped(h) ==
    /\ job[h].pc = "submit"
    /\ job[h].todo = {}
    /\ sub' = [status |-> "active", checksum |-> IF job[h].run.status = "changed"
                                                 THEN job[h].seen ELSE sub.checksum]
    /\ job' = [job EXCEPT ![h] = [Idle EXCEPT !.pc = "commit", !.row = sub',
                             !.run = [job[h].run EXCEPT !.items = job[h].made]]]
    /\ UNCHANGED <<source, subRow, candidates, runs, history, errors, crashes>>

\* The subscription remembers a new digest, and is active again whatever its
\* status became meanwhile.
Settle(h) ==
    /\ job[h].pc = "submit"
    /\ job[h].todo = {}
    /\ \A n \in job[h].made : candidates[n].stamped
    /\ sub' = [status |-> "active", checksum |-> IF job[h].run.status = "changed"
                                                 THEN job[h].seen ELSE sub.checksum]
    /\ job' = [job EXCEPT ![h] = [Idle EXCEPT !.pc = "commit", !.row = sub',
                             !.run = [job[h].run EXCEPT !.items = job[h].made]]]
    /\ UNCHANGED <<source, subRow, candidates, runs, history, errors, crashes>>

\* add_subscription's transaction, of a run or of a route.
Commit(h) ==
    /\ job[h].pc \in {"commit", "route"}
    /\ subRow' = job[h].row
    /\ job' = [job EXCEPT ![h] = IF job[h].pc = "route" THEN Idle
                                 ELSE [@ EXCEPT !.pc = "run"]]
    /\ UNCHANGED <<source, sub, candidates, runs, history, errors, crashes>>

\* add_refresh_run.
AddRun(h) ==
    /\ job[h].pc = "run"
    /\ runs' = Append(runs, job[h].run)
    /\ job' = [job EXCEPT ![h] = Idle]
    /\ UNCHANGED <<source, sub, subRow, candidates, history, errors, crashes>>

-----------------------------------------------------------------------------

\* There is room for one more trouble.
Undisturbed == pauses + errors + crashes < MaxTroubles

\* The pause and resume routes assign the status and write the subscription.
Route(h, status) ==
    /\ job[h].pc = "idle"
    /\ Undisturbed
    /\ pauses' = pauses + 1
    /\ sub' = [sub EXCEPT !.status = status]
    /\ job' = [job EXCEPT ![h] = [Idle EXCEPT !.pc = "route", !.row = sub']]
    /\ UNCHANGED <<source, subRow, candidates, runs, latest, varied, changes, started,
                   overlaps, batches, errors, crashes>>

\* The connector or a transaction raises inside the try block: the
\* subscription is failing, the run will be recorded as failed.  Candidates
\* that were made stay, and so does a digest that was already remembered.
Fail(h) ==
    /\ Undisturbed
    /\ job[h].pc \in {"collect", "submit", "commit"}
    /\ ~job[h].caught
    /\ errors' = errors + 1
    /\ sub' = [sub EXCEPT !.status = "failing"]
    /\ job' = [job EXCEPT ![h] =
                 [Idle EXCEPT !.pc = "commit", !.row = sub', !.caught = TRUE,
                              !.run = [NoRun EXCEPT !.status = "failed"]]]
    /\ UNCHANGED <<source, subRow, candidates, runs, history, crashes>>

\* A transaction raises where nothing catches it: the request just fails.
Abort(h) ==
    /\ Undisturbed
    /\ \/ job[h].pc \in {"run", "route"}
       \/ job[h].pc = "commit" /\ job[h].caught
    /\ errors' = errors + 1
    /\ job' = [job EXCEPT ![h] = Idle]
    /\ UNCHANGED <<source, sub, subRow, candidates, runs, history, crashes>>

\* The process dies; the next one loads the rows.
Restart ==
    /\ Undisturbed
    /\ crashes' = crashes + 1
    /\ sub' = subRow
    /\ job' = [h \in Handlers |-> Idle]
    /\ UNCHANGED <<source, subRow, candidates, runs, history, errors>>

Next ==
    \/ SourceChanges
    \/ Restart
    \/ \E h \in Handlers :
          \/ Begin(h)
          \/ \E order \in Orders : Collect(h, order)
          \/ Compare(h)
          \/ \E d \in Docs : Submit(h, d)
          \/ \E n \in 1 .. Len(candidates) : Stamp(h, n)
          \/ Settle(h)
          \/ Commit(h)
          \/ AddRun(h)
          \/ \E status \in {"paused", "active"} : Route(h, status)
          \/ Fail(h)
          \/ Abort(h)

Spec == Init /\ [][Next]_vars

-----------------------------------------------------------------------------
(* Properties.                                                             *)

\* Every variable keeps its type.
TypeOK ==
    /\ source \in Sources
    /\ sub \in Subscription /\ subRow \in Subscription
    /\ candidates \in Seq(Candidate)
    /\ runs \in Seq(Run)
    /\ job \in [Handlers -> Job]
    /\ latest \in Digests \cup {NoDigest}
    /\ \A h \in Handlers :
          /\ job[h].made \subseteq 1 .. Len(candidates)
          /\ job[h].pc \in {"compare", "submit"} => job[h].seen \in Collection

\* Some candidate in review says what document d said when it was collected.
Offered(c, d) ==
    \E n \in 1 .. Len(candidates) :
        candidates[n].doc = d /\ candidates[n].text = c.text[d]

\* A digest is remembered only of a collection that was submitted for review
\* whole, each of its readable documents, whatever failed, crashed or overlapped
\* before; in memory and in the row.
ChecksumIsCovered ==
    \A c \in {sub.checksum, subRow.checksum} \ {NoDigest} :
        \A d \in Docs : c.text[d] # Blank => Offered(c, d)

\* A run recorded as changed names exactly one candidate for each readable
\* document it collected, and each of them belongs to its tenant.
ChangedRunsAreComplete ==
    \A r \in 1 .. Len(runs) :
        runs[r].status = "changed" =>
            \A d \in {e \in Docs : runs[r].checksum.text[e] # Blank} :
                \E n \in runs[r].items :
                    /\ candidates[n].doc = d
                    /\ candidates[n].text = runs[r].checksum.text[d]
                    /\ candidates[n].stamped
                    /\ \A k \in runs[r].items : candidates[k].doc = d => k = n

\* Duplicates are bounded: a batch is submitted only when a collection has another
\* digest than the one before it, once more for each failure and each crash, and
\* at most twice more for each run that overlapped another.  A collection varies
\* with the source, and also when the connector skips a document or reads in
\* another order.
BatchesAreBounded == batches <= varied + errors + crashes + 2 * overlaps

=============================================================================
