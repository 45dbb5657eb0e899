--------------------------- MODULE IngestionBatch ---------------------------
(***************************************************************************)
(* The ingestion of a batch: the routes' upload limits, the parser's       *)
(* manifest, and BrainApplication.submit_parsed_batch, which preserves,    *)
(* enriches, stores and audits one item after the other, each write in a   *)
(* transaction of its own.  A client whose request failed or was cut off   *)
(* by a crash may submit the same batch again.                             *)
(***************************************************************************)
EXTENDS Naturals, Sequences, SequencesExt, FiniteSets

CONSTANTS
    Batches,       \* batches a client may submit: sequences of kinds of items
    MaxItems,      \* max_batch_files
    MaxAttempts,   \* bound: submissions
    MaxStops       \* bound: crashes

\* What a file can be to the parser.  "untitled" parses, but its name is too
\* short for a submission; "unsafe" stands for what makes a whole batch fail: a
\* path that leaves it, or an archive that is encrypted or expands too far.
Kinds == {"ready", "short", "empty", "huge", "unsupported", "broken", "blank",
          "unsafe", "untitled"}

Modes == {"files", "zip", "connector"}

Tables == {"sources", "versions", "chunks", "runs", "reviews", "audits"}

VARIABLES
    submission,  \* the submission in progress: its batch, its mode, its state
    position,    \* the item it is at
    written,     \* how many tables have rows of that item
    rows,        \* table -> <<attempt, position>> of its rows
    attempts,    \* submissions so far
    answered,    \* attempt -> the answer its client got, with the manifest
    stops        \* crashes so far

vars == <<submission, position, written, rows, attempts, answered, stops>>

Init ==
    /\ submission = [batch |-> <<>>, mode |-> "files", state |-> "none"]
    /\ position = 1
    /\ written = 0
    /\ rows = [t \in Tables |-> {}]
    /\ attempts = 0
    /\ answered = <<>>
    /\ stops = 0

-----------------------------------------------------------------------------
(* The parser.                                                             *)

\* parse_item: rejected items have no text.
Status(kind) ==
    CASE kind \in {"ready", "untitled"} -> "ready"
      [] kind = "short" -> "warning"
      [] OTHER -> "rejected"

Usable(kind) == Status(kind) # "rejected"

\* Mutant: the archive is left at its last permitted entry.
ExpandedToLimit(batch, mode) ==
    IF mode = "zip" /\ Len(batch) > MaxItems THEN SubSeq(batch, 1, MaxItems) ELSE batch

\* _expand_archives reads one entry more than a batch may have.
Expanded(batch, mode) ==
    IF mode = "zip" /\ Len(batch) > MaxItems + 1 THEN SubSeq(batch, 1, MaxItems + 1) ELSE batch

\* preview: the first items, with a warning that names the limit.
Manifest(batch, mode) ==
    LET expanded == Expanded(batch, mode)
    IN [items |-> IF Len(expanded) > MaxItems THEN SubSeq(expanded, 1, MaxItems) ELSE expanded,
        cut |-> Len(expanded) > MaxItems]

\* An unsafe path is an error of the whole batch; so are too many uploads and
\* an upload above the size limit.
Refused(batch, mode) ==
    \/ mode = "files" /\ (Len(batch) > MaxItems \/ "huge" \in ToSet(batch))
    \/ "unsafe" \in ToSet(IF mode = "zip" THEN Expanded(batch, mode) ELSE Manifest(batch, mode).items)

-----------------------------------------------------------------------------
(* The submission.                                                         *)

Answer(text, manifest) ==
    answered' = Append(answered,
        [text |-> text, batch |-> submission'.batch, items |-> manifest.items, cut |-> manifest.cut])

Nothing == [items |-> <<>>, cut |-> FALSE]

\* A client submits a batch, or the one that failed once more.
Submit ==
    /\ submission.state \in {"none", "failed"}
    /\ attempts < MaxAttempts
    /\ attempts' = attempts + 1
    /\ position' = 1 /\ written' = 0
    /\ \E batch \in Batches, mode \in Modes :
          /\ submission.state = "failed" => batch = submission.batch /\ mode = submission.mode
          /\ IF Refused(batch, mode)
             THEN /\ submission' = [batch |-> batch, mode |-> mode, state |-> "none"]
                  /\ Answer("refused", Nothing)
             ELSE /\ submission' = [batch |-> batch, mode |-> mode, state |-> "running"]
                  /\ UNCHANGED answered
    /\ UNCHANGED <<rows, stops>>

Items == Manifest(submission.batch, submission.mode).items
AtItem == submission.state = "running" /\ position <= Len(Items)

\* Rejected items are passed over.
Pass ==
    /\ AtItem
    /\ ~Usable(Items[position])
    /\ position' = position + 1
    /\ UNCHANGED <<submission, written, rows, attempts, answered, stops>>

\* The order of the writes of an item; mutant: the review before its evidence.
ReviewFirst == <<"sources", "reviews", "versions", "chunks", "runs", "audits">>
WriteOrder == <<"sources", "versions", "chunks", "runs", "reviews", "audits">>

\* compile_submission needs a title of three characters, and fails before the
\* first row of its item.
Writing == AtItem /\ Usable(Items[position]) /\ (written > 0 \/ Items[position] # "untitled")

\* The next row of the item; Enrichment says what the run records.
Write ==
    /\ Writing
    /\ rows' = [rows EXCEPT ![WriteOrder[written + 1]] = @ \cup {<<attempts, position>>}]
    /\ IF written + 1 = Len(WriteOrder)
       THEN written' = 0 /\ position' = position + 1
       ELSE written' = written + 1 /\ UNCHANGED position
    /\ UNCHANGED <<submission, attempts, answered, stops>>

\* An error ends the request; the items before it keep their rows, and so does
\* this one when enrichment fails as no provider's error does (Enrichment!Break).
FailItem ==
    /\ AtItem /\ Usable(Items[position])
    /\ ~Writing \/ WriteOrder[written + 1] = "runs"
    /\ submission' = [submission EXCEPT !.state = "failed"]
    /\ Answer("failed", Nothing)
    /\ UNCHANGED <<position, written, rows, attempts, stops>>

Finish ==
    /\ submission.state = "running" /\ position > Len(Items)
    /\ submission' = [submission EXCEPT !.state = "none"]
    /\ Answer(IF \E p \in DOMAIN Items : Usable(Items[p]) THEN "review_created" ELSE "blocked",
              Manifest(submission.batch, submission.mode))
    /\ UNCHANGED <<position, written, rows, attempts, stops>>

\* The process stops between two transactions; no client gets an answer.
Stop ==
    /\ submission.state = "running"
    /\ stops < MaxStops
    /\ stops' = stops + 1
    /\ submission' = [submission EXCEPT !.state = "failed"]
    /\ Answer("none", Nothing)
    /\ UNCHANGED <<position, written, rows, attempts>>

Next == Submit \/ Pass \/ Write \/ FailItem \/ Finish \/ Stop

Spec == Init /\ [][Next]_vars

-----------------------------------------------------------------------------
(* Properties.                                                             *)

\* Wherever the process stops, a stored review item has its source, its version,
\* its evidence and its enrichment stored, and an audit event its review item.
ReviewsHaveEvidence ==
    /\ \A t \in {"sources", "versions", "chunks", "runs"} : rows["reviews"] \subseteq rows[t]
    /\ rows["audits"] \subseteq rows["reviews"]

\* An answer says what was stored: exactly the usable items of the manifest have
\* a review and an audit event, and a batch that was cut says so.
AnswersAreTrue ==
    \A a \in DOMAIN answered : answered[a].text \in {"review_created", "blocked"} =>
        LET manifest == answered[a]
            usable == {p \in DOMAIN manifest.items : Usable(manifest.items[p])}
        IN /\ \A t \in Tables : {r[2] : r \in {r \in rows[t] : r[1] = a}} = usable
           /\ (manifest.text = "blocked") <=> (usable = {})
           /\ ~manifest.cut => manifest.items = manifest.batch

=============================================================================
