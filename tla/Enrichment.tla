----------------------------- MODULE Enrichment -----------------------------
(***************************************************************************)
(* AIEnrichmentService and its providers: what is asked of a model, what   *)
(* replaces it when it does not answer, and the run that the application   *)
(* records of it (_enrich for a source, build_context_pack for a pack).    *)
(***************************************************************************)
EXTENDS Naturals

CONSTANTS
    Levels,       \* sensitivities, as numbers
    Confidential, \* the level from which hosted models are barred
    MaxTasks      \* bound: tasks

VARIABLES
    settings,  \* the configuration of the process
    task,      \* the task in progress
    runs,      \* the recorded runs, each with what happened (ghost: truth)
    tasks      \* tasks so far

vars == <<settings, task, runs, tasks>>

Providers == {"noop", "ollama", "openai"}

\* by is who produced the result; "nobody" when the task was left undone.
Nothing == [by |-> "nobody", status |-> "completed", sent |-> FALSE]
NoTask == [kind |-> "none", step |-> "rest", level |-> 0, objects |-> FALSE, done |-> Nothing]

Init ==
    /\ settings \in [enabled : BOOLEAN, provider : Providers, keyed : BOOLEAN,
                     hostedAllowed : BOOLEAN]
    /\ task = NoTask
    /\ runs = {}
    /\ tasks = 0

-----------------------------------------------------------------------------
(* Which way a task goes before any model is asked.                        *)

Hosted == settings.provider = "openai"

\* _must_block_hosted_for_sensitivity.
Blocked(level) == Hosted /\ ~settings.hostedAllowed /\ level >= Confidential

\* The deterministic provider is configured, or stands in without a call.  A pack
\* is not asked for its sensitivity.
Offline(kind, level, objects) ==
    \/ settings.provider = "noop"
    \/ kind = "source" /\ Blocked(level)
    \/ kind = "pack" /\ ~objects
    \/ kind = "pack" /\ Hosted /\ ~settings.keyed

By(who, status) == [by |-> who, status |-> status, sent |-> FALSE]

\* Without a key the hosted provider raises before it calls.
Unkeyed(kind) == kind = "source" /\ Hosted /\ ~settings.keyed

Start(kind, level, objects) ==
    /\ task.step = "rest" /\ tasks < MaxTasks
    /\ tasks' = tasks + 1
    /\ LET at(step, done) == task' = [kind |-> kind, step |-> step, level |-> level,
                                      objects |-> objects, done |-> done]
       IN CASE ~settings.enabled ->
                 at("record", By("nobody", IF kind = "source" THEN "skipped" ELSE "completed"))
            [] settings.enabled /\ Offline(kind, level, objects) ->
                 at("record", By("noop", "completed"))
            [] settings.enabled /\ ~Offline(kind, level, objects) /\ Unkeyed(kind) ->
                 at("record", By("noop", "failed"))
            [] OTHER -> at("call", Nothing)
    /\ UNCHANGED <<settings, runs>>

\* The model answers as it was asked to.
Reply ==
    /\ task.step = "call"
    /\ task' = [task EXCEPT !.step = "record",
                            !.done = [by |-> settings.provider, status |-> "completed", sent |-> TRUE]]
    /\ UNCHANGED <<settings, runs, tasks>>

\* AIProviderError: unreachable, too late, not JSON, not the schema.  The
\* deterministic provider stands in; the result of a source says that it failed.
Fall ==
    /\ task.step = "call"
    /\ task' = [task EXCEPT !.step = "record",
                            !.done = [by |-> "noop", sent |-> TRUE,
                                      status |-> IF task.kind = "source" THEN "failed" ELSE "completed"]]
    /\ UNCHANGED <<settings, runs, tasks>>

\* Any other exception, as when the connection drops while the answer is read:
\* a submission fails with it, and a pack is handed out as it was; unless the
\* hosted provider has put its guidance into the pack before it trips over the
\* rest of the answer.
Break ==
    /\ task.step = "call"
    /\ IF task.kind = "source" THEN task' = NoTask
       ELSE \E who \in {"nobody"} \cup (IF Hosted THEN {"openai"} ELSE {}) :
               task' = [task EXCEPT !.step = "record",
                                    !.done = [by |-> who, status |-> "failed", sent |-> TRUE]]
    /\ UNCHANGED <<settings, runs, tasks>>

-----------------------------------------------------------------------------
(* The record.                                                             *)

\* The provider of a result is its producer's; a result that was skipped names
\* the deterministic one.
ProviderOf(done) == IF done.by = "nobody" THEN "noop" ELSE done.by

\* Mutant: _enrich asks for the configured provider, as build_context_pack does.
SourceRunConfigured(done) ==
    [provider |-> settings.provider, status |-> done.status,
     fallback |-> settings.provider = "noop"]

\* fallback_used: the result is the deterministic provider's, or is flagged
\* provider_fallback, which failed results are.
SourceRun(done) ==
    [provider |-> ProviderOf(done), status |-> done.status,
     fallback |-> ProviderOf(done) = "noop" \/ done.status = "failed"]

\* The run of a pack names the configured provider, whoever wrote its guidance.
PackRun(done) ==
    [provider |-> settings.provider, status |-> done.status,
     fallback |-> settings.provider = "noop"]

Record ==
    /\ task.step = "record"
    /\ runs' = runs \cup
         {[kind |-> task.kind, level |-> task.level, truth |-> task.done,
           row |-> IF task.kind = "source" THEN SourceRun(task.done) ELSE PackRun(task.done)]}
    /\ task' = NoTask
    /\ UNCHANGED <<settings, tasks>>

Next ==
    \/ \E level \in Levels : Start("source", level, TRUE)
    \/ \E level \in Levels, objects \in BOOLEAN : Start("pack", level, objects)
    \/ Reply \/ Fall \/ Break \/ Record

Spec == Init /\ [][Next]_vars

-----------------------------------------------------------------------------
(* Properties.                                                             *)

\* From the run of a source an auditor can tell what happened: whose result it
\* is, whether a model was asked in vain, and that a hosted model which was sent
\* a confidential source was allowed it.  The run of a pack does not tell whose
\* guidance it holds, as it names the configured provider; it never claims the
\* fallback for what a model wrote, and one that says completed is not of a pack
\* that a model was to enrich and left undone.
RunsAreTrue ==
    \A r \in runs :
        IF r.kind = "source"
        THEN /\ r.row.fallback <=> r.truth.by \in {"noop", "nobody"}
             /\ ~r.row.fallback => r.row.provider = r.truth.by
             /\ r.row.status = "skipped" <=> r.truth.by = "nobody"
             /\ r.truth.sent /\ r.truth.by = "noop" => r.row.status = "failed"
             /\ r.truth.sent /\ Hosted /\ r.level >= Confidential => settings.hostedAllowed
        ELSE /\ r.row.fallback => r.truth.by \in {"noop", "nobody"}
             /\ r.truth.by = "nobody" /\ r.row.status = "completed" => ~settings.enabled

=============================================================================
