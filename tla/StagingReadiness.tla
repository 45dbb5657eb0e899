-------------------------- MODULE StagingReadiness --------------------------
(***************************************************************************)
(* The staging gate: validate_staging_environment decides from the         *)
(* settings of a deployment whether it is ready, probe_staging_runtime     *)
(* from the answers of the running API.                                    *)
(*                                                                         *)
(* A secret is "absent", "placeholder", "short" for what it is used for, or *)
(* a strong value; a URL is its scheme; principals are records of the      *)
(* token, the subject, the tenant and the roles, none of them when the map *)
(* cannot be parsed.                                                       *)
(***************************************************************************)
EXTENDS Naturals, FiniteSets, Sequences

CONSTANTS
    Strong,       \* secrets that are long enough and no placeholder
    NoSubject,    \* the subject of a principal that names none
    Deployments,  \* the settings of deployments, each a record
    Answers       \* what the running API may answer to a probe

VARIABLES
    deployment,  \* the settings that are checked
    demands,     \* what the operator requires beyond them: of {"oidc", "graphiti"}
    gate,        \* "unchecked", "ready" or "blocked"
    probed       \* the verdicts of the probes so far

vars == <<deployment, demands, gate, probed>>

StrongSecret(value) == value \in Strong
LooksPlaceholder(value) == value = "placeholder"

Verdict(ok) == IF ok THEN "passed" ELSE "failed"

\* The identities that may review, and those that may publish, as the gate counts
\* them: a principal without a subject is one as well.
Subjects(principals, role) ==
    {p.subject : p \in {x \in principals : {role, "governance_admin"} \cap x.roles # {}}}

\* Mutant: only that there is a reviewer and a publisher.
BothPresent(principals) ==
    Subjects(principals, "reviewer") # {} /\ Subjects(principals, "publisher") # {}

\* Both sets are inhabited, and they differ.
Separated(principals) ==
    LET reviewers == Subjects(principals, "reviewer")
        publishers == Subjects(principals, "publisher")
    IN /\ reviewers # {} /\ publishers # {}
       /\ (reviewers \ publishers) \cup (publishers \ reviewers) # {}

TenantNamed(env) == env.tenant \notin {"absent", "placeholder"}

PrincipalMapCheck(env) ==
    Verdict(/\ Cardinality({p.token : p \in env.principals}) >= 2
            /\ Separated(env.principals)
            /\ \A p \in env.principals : StrongSecret(p.token)
            /\ TenantNamed(env) => \A p \in env.principals : p.tenant = env.tenant)

SecretChecks(env) ==
    [breakGlassToken   |-> Verdict(StrongSecret(env.apiToken)),
     databasePassword  |-> Verdict(StrongSecret(env.dbPassword)),
     secretSeparation  |-> Verdict(/\ StrongSecret(env.apiToken)
                                   /\ StrongSecret(env.dbPassword)
                                   /\ env.apiToken # env.dbPassword)]

PlaceholderCheck(env) ==
    [placeholderSecrets |-> Verdict(\A s \in {env.apiToken, env.dbPassword, env.driveToken,
                                              env.crawlToken, env.graphitiKey} :
                                       ~LooksPlaceholder(s))]

ImageChecks(env) ==
    [environment       |-> Verdict(env.environment \in {"stage", "staging", "prod"}),
     immutableApiImage |-> Verdict(env.image \in {"tag", "digest"})]

IdentityChecks(env) ==
    [defaultTenant |-> Verdict(TenantNamed(env)),
     principalMap  |-> PrincipalMapCheck(env)]

StoreChecks(env) ==
    [authentication     |-> Verdict(env.requireAuth),
     authoritativeStore |-> Verdict(env.store = "sqlalchemy"),
     migrations         |-> Verdict(~env.createSchema),
     objectStore        |-> Verdict(env.objectStore \in {"file", "s3", "minio"})]

RetrievalChecks(env) ==
    [retrievalIndex |-> Verdict(env.search = "zvec"),
     retrievalSync  |-> IF env.syncOnQuery THEN "passed" ELSE "warning"]

CorsCheck(env) ==
    [cors |-> Verdict(/\ env.origins # {} /\ env.origins \subseteq {"ui", "https"}
                      /\ env.expectsUi => "ui" \in env.origins)]

AssistantChecks(env) ==
    [localAi       |-> Verdict(env.ai = "ollama"),
     mcpGovernance |-> Verdict(~env.mcpApproval /\ ~env.mcpPublication)]

ConnectorChecks(env) ==
    [crawl |-> IF ~env.crawl THEN "skipped"
               ELSE Verdict(/\ env.hosts = "listed"
                            /\ ~env.privateNetworks /\ env.robots /\ env.robotsFailClosed),
     drive |-> IF ~env.drive THEN "skipped" ELSE Verdict(StrongSecret(env.driveToken))]

\* Required or not, a complete configuration passes; an incomplete one fails
\* only where it is required.
Optional(complete, required) ==
    IF complete THEN "passed" ELSE IF required THEN "failed" ELSE "warning"

OidcComplete(env) == env.oidc /\ env.oidcIssuer = "https" /\ env.oidcJwks = "https"
                              /\ env.oidcAudience

GraphitiComplete(env) ==
    /\ env.graph = "graphiti"
    /\ env.graphitiUrl \in {"http", "https"}
    /\ StrongSecret(env.graphitiKey)

OidcCheck(env, required) == [oidc |-> Optional(OidcComplete(env), required)]

GraphitiCheck(env, required) == [graphiti |-> Optional(GraphitiComplete(env), required)]

Values(f) == {f[x] : x \in DOMAIN f}

Statuses(env, requireOidc, requireGraphiti) ==
    UNION {Values(check) :
             check \in {SecretChecks(env), PlaceholderCheck(env), ImageChecks(env),
                        IdentityChecks(env), StoreChecks(env), RetrievalChecks(env),
                        CorsCheck(env), AssistantChecks(env), ConnectorChecks(env),
                        OidcCheck(env, requireOidc), GraphitiCheck(env, requireGraphiti)}}

\* Warnings do not count against readiness.
Ready(env, requireOidc, requireGraphiti) ==
    "failed" \notin Statuses(env, requireOidc, requireGraphiti)

-----------------------------------------------------------------------------
(* The probes of the running API.                                          *)

RequiredProbes == <<"health", "ready", "ai-providers", "ai-health", "search-status",
                    "ingestion-capabilities", "graph-status">>

\* What a probe makes of the content of an answer, which may be no JSON object.
SemanticError(probe, answer) ==
    \/ ~answer.object
    \/ probe \in {"health", "ready"} /\ ~answer.ok
    \/ probe = "ready" /\ ~(answer.sqlalchemy /\ answer.available)
    \/ probe \in {"search-status", "graph-status"} /\ ~answer.available
    \/ probe = "ingestion-capabilities" /\ ~answer.capabilities

\* An HTTP success with the right content; an error status, or no answer in
\* time, is none.
ProbePassed(probe, answer) == answer.success /\ ~SemanticError(probe, answer)

-----------------------------------------------------------------------------
(* The two scripts of the gate.                                            *)

Init ==
    /\ deployment \in Deployments
    /\ demands \in SUBSET {"oidc", "graphiti"}
    /\ gate = "unchecked"
    /\ probed = <<>>

Validate ==
    /\ gate = "unchecked"
    /\ gate' = IF Ready(deployment, "oidc" \in demands, "graphiti" \in demands)
               THEN "ready" ELSE "blocked"
    /\ UNCHANGED <<deployment, demands, probed>>

\* A probe that fails does not keep the next ones from being made.
Probe ==
    /\ Len(probed) < Len(RequiredProbes)
    /\ \E answer \in Answers :
          probed' = Append(probed, ProbePassed(RequiredProbes[Len(probed) + 1], answer))
    /\ UNCHANGED <<deployment, demands, gate>>

Next == Validate \/ Probe

Spec == Init /\ [][Next]_vars

-----------------------------------------------------------------------------
(* Who can use the deployment once it runs.                                *)

\* What _configured_principals makes of the same map when the API runs: a
\* principal without a subject is dropped, one without a tenant gets the default.
Configured(env) ==
    {p \in env.principals : /\ p.subject # NoSubject
                            /\ {p.tenant, env.tenant} # {"absent"}}

\* Two people with strong tokens of the tenant, one to review, one to publish.
TwoCanGovern(env, principals) ==
    \E r, p \in principals :
        /\ {"reviewer", "governance_admin"} \cap r.roles # {}
        /\ {"publisher", "governance_admin"} \cap p.roles # {}
        /\ r.subject # p.subject
        /\ {r.token, p.token} \subseteq Strong
        /\ {r.tenant, p.tenant} = {env.tenant}

-----------------------------------------------------------------------------
(* Properties.                                                             *)

\* When every principal of a deployment reported ready names its subject, two of
\* those the API then accepts can govern it; the token of the API is not the
\* password of the database (other secrets are not compared), and what the
\* operator demands is configured.
ReadyIsGoverned ==
    gate = "ready" =>
        /\ (\A p \in deployment.principals : p.subject # NoSubject)
              => TwoCanGovern(deployment, Configured(deployment))
        /\ deployment.apiToken # deployment.dbPassword
        /\ "oidc" \in demands => OidcComplete(deployment)
        /\ "graphiti" \in demands => GraphitiComplete(deployment)

=============================================================================
