--------------------------- MODULE QualityScreen ---------------------------
(***************************************************************************)
(* KnowledgeOperationsService.assess and submit: a source is scored, its   *)
(* assessment is stored, and unless it is rejected or quarantined it       *)
(* becomes a review candidate.  Scores are in hundredths.  Requests run in *)
(* a pool of threads.                                                      *)
(***************************************************************************)
EXTENDS Integers, FiniteSets

CONSTANTS
    Sources,       \* sources a client submits
    TextOf,        \* [Sources -> normalized texts]: what input_hash identifies
    FlawsOf,       \* [Sources -> SUBSET Flaws]: what the checks of one source find
    Submitters,    \* requests in progress
    MaxSubmissions \* bound: submissions

Flaws == {"short", "unowned", "generic", "unlinked", "secret", "injection", "personal", "duplicate"}

VARIABLES
    assessments,  \* stored: the text and the disposition
    candidates,   \* the sources that became review candidates, with their assessment
    submitting,   \* request -> its step, its source and its assessment
    concurrent,   \* ghost: the texts that two requests assessed at the same time
    submissions   \* submissions so far

vars == <<assessments, candidates, submitting, concurrent, submissions>>

-----------------------------------------------------------------------------
(* The assessment.                                                         *)

Deduction(flaws) ==
    LET worth(flaw, hundredths) == IF flaw \in flaws THEN hundredths ELSE 0
    IN worth("short", 28) + worth("unowned", 12) + worth("generic", 8) + worth("unlinked", 6)
       + worth("secret", 65) + worth("injection", 40) + worth("personal", 16)
       + worth("duplicate", 12)

Score(flaws) == IF Deduction(flaws) > 100 THEN 0 ELSE 100 - Deduction(flaws)

Grave(flaws) == flaws \cap {"injection", "personal"} # {}

Disposition(flaws) ==
    IF "secret" \in flaws THEN "reject"
    ELSE IF Grave(flaws) \/ Score(flaws) < 45 THEN "quarantine"
    ELSE IF flaws # {} \/ Score(flaws) < 82 THEN "accept_with_warnings"
    ELSE "accept"

Severity == [accept |-> 0, accept_with_warnings |-> 1, quarantine |-> 2, reject |-> 3]

-----------------------------------------------------------------------------
(* A submission.                                                           *)

Resting == [step |-> "rest", source |-> CHOOSE s \in Sources : TRUE, disposition |-> "accept"]

Init ==
    /\ assessments = {}
    /\ candidates = {}
    /\ submitting = [r \in Submitters |-> Resting]
    /\ concurrent = {}
    /\ submissions = 0

\* Mutant: a repetition is recognised by its wording, not by its normalized text.
AssessByWording(r, source) ==
    /\ submitting[r].step = "rest" /\ submissions < MaxSubmissions
    /\ submissions' = submissions + 1
    /\ LET seen == \E c \in candidates : c.source = source
           flaws == FlawsOf[source] \cup (IF seen THEN {"duplicate"} ELSE {})
       IN submitting' = [submitting EXCEPT ![r] =
              [step |-> "store", source |-> source, disposition |-> Disposition(flaws)]]
    /\ UNCHANGED <<assessments, candidates, concurrent>>

\* assess: the checks, with the assessments stored so far.
Assess(r, source) ==
    /\ submitting[r].step = "rest" /\ submissions < MaxSubmissions
    /\ submissions' = submissions + 1
    /\ LET seen == \E a \in assessments : a.text = TextOf[source]
           flaws == FlawsOf[source] \cup (IF seen THEN {"duplicate"} ELSE {})
       IN submitting' = [submitting EXCEPT ![r] =
              [step |-> "store", source |-> source, disposition |-> Disposition(flaws)]]
    /\ concurrent' = concurrent \cup
           {TextOf[source] : q \in {q \in Submitters : submitting[q].step = "store"
                                        /\ TextOf[submitting[q].source] = TextOf[source]}}
    /\ UNCHANGED <<assessments, candidates>>

\* add_quality.  A rejected or quarantined source is answered here.
StoreAssessment(r) ==
    /\ submitting[r].step = "store"
    /\ assessments' = assessments \cup
           {[text |-> TextOf[submitting[r].source], disposition |-> submitting[r].disposition]}
    /\ submitting' = [submitting EXCEPT ![r].step =
           IF submitting[r].disposition \in {"reject", "quarantine"} THEN "rest" ELSE "submit"]
    /\ UNCHANGED <<candidates, concurrent, submissions>>

\* submit_text, with the disposition among the tags of the candidate.
SubmitCandidate(r) ==
    /\ submitting[r].step = "submit"
    /\ candidates' = candidates \cup
           {[source |-> submitting[r].source, disposition |-> submitting[r].disposition, by |-> <<r, submissions>>]}
    /\ submitting' = [submitting EXCEPT ![r].step = "rest"]
    /\ UNCHANGED <<assessments, concurrent, submissions>>

\* An error or a crash ends a request between its transactions.
BreakOffSubmission(r) ==
    /\ submitting[r].step # "rest"
    /\ submitting' = [submitting EXCEPT ![r].step = "rest"]
    /\ UNCHANGED <<assessments, candidates, concurrent, submissions>>

Next == \E r \in Submitters :
    \/ \E source \in Sources : Assess(r, source)
    \/ StoreAssessment(r)
    \/ SubmitCandidate(r)
    \/ BreakOffSubmission(r)

Spec == Init /\ [][Next]_vars

-----------------------------------------------------------------------------
(* Properties.                                                             *)

\* A source with more flaws is never treated better, at every threshold of the
\* score and in every combination of findings.
WorseIsNeverBetter ==
    \A flaws \in SUBSET Flaws, more \in SUBSET Flaws :
        flaws \subseteq more => Severity[Disposition(flaws)] <= Severity[Disposition(more)]

\* A text without warnings becomes a candidate once: a repetition carries the
\* warning, unless both were assessed at the same time.
RepeatsAreFlagged ==
    \A c, d \in candidates :
        /\ c.disposition = "accept" /\ d.disposition = "accept"
        /\ TextOf[c.source] = TextOf[d.source]
        /\ TextOf[c.source] \notin concurrent
        => c = d

=============================================================================
