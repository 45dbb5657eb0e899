------------------------------ MODULE MCFlows ------------------------------
(***************************************************************************)
(* Instance of Flows for TLC: what the cfg cannot spell out.               *)
(***************************************************************************)
EXTENDS Flows

\* Six pages, with cycles, a page reached at two depths, and a foreign link.
MCPageLinks ==
    [u0 |-> <<"u1", "x", "u2">>, u1 |-> <<"u3", "u0">>, u2 |-> <<"u4">>,
     u3 |-> <<"u5">>, u4 |-> <<"u1">>, u5 |-> <<"u0">>, x |-> <<>>]

Url(scheme, host, port, robotsFile, number) ==
    [scheme |-> scheme, user |-> FALSE, host |-> host, port |-> port,
     robots |-> robotsFile, page |-> number]

\* Two sites with their robots files, one on a port of its own, a page that is
\* barred, and addresses the policy refuses.
MCUrls ==
    {Url("https", "a", 0, FALSE, 1), Url("https", "a", 0, FALSE, 2),
     Url("https", "a", 0, TRUE, 1), Url("http", "b", 8080, FALSE, 1),
     Url("http", "b", 8080, TRUE, 1), Url("ftp", "a", 0, FALSE, 1),
     Url("ftp", "a", 0, TRUE, 1), Url("https", "10", 0, FALSE, 1),
     Url("https", "10", 0, TRUE, 1)}
MCCovers == [pattern \in Patterns |-> IF pattern = "*.b" THEN {"b"} ELSE {pattern}]
MCBarred == {Url("https", "a", 0, FALSE, 2)}

\* Three folders that contain each other, a file in two of them.
MCChildren ==
    [d1 |-> <<"f1", "d2", "s1", "d3">>, d2 |-> <<"f2", "d3", "d1", "f3">>,
     d3 |-> <<"f3", "d2", "f4">>]

FileKinds == {"ready", "short", "empty", "huge", "unsupported", "broken", "blank",
              "unsafe", "untitled"}

\* Every kind of file alone and between two good ones, and batches above the limit.
MCBatches ==
    {<<kind>> : kind \in FileKinds}
    \cup {<<"ready", kind, "short">> : kind \in FileKinds}
    \cup {<<"ready", "untitled", "short", "ready">>,
          <<"ready", "blank", "empty", "ready", "unsafe">>}

\* All texts of four to six characters.
MCTexts ==
    {t \in UNION {[1 .. n -> {"x", ".", "s", "n", "h"}] : n \in 4 .. 6} :
        \A i \in DOMAIN t : t[i] = "h" => i < Len(t) /\ t[i + 1] \in {"x", "."}}

\* Two sources with the same text and one with flaws.
MCTextOf == [s1 |-> "t1", s2 |-> "t1", s3 |-> "t2"]
MCFlawsOf == [s1 |-> {}, s2 |-> {}, s3 |-> {"short", "unowned"}]

\* Two objects that share a source and a title and name each other, with their
\* candidates.
MCSourcesOf == [o1 |-> {"s1"}, o2 |-> {"s1", "s2"}]
MCChunkSource == [c1 |-> "s1", c2 |-> "s2"]
MCObjectLinks == [o1 |-> {"o2"}, o2 |-> {"o1"}]
MCRivalsOf == [o1 |-> {"o2"}, o2 |-> {"o1"}]
MCCandidateOf == [r1 |-> "o1", r2 |-> "o2"]
MCReviewSource == [r1 |-> "s1", r2 |-> "s2"]
MCAiOf == [r1 |-> "a1", r2 |-> "none"]
MCLinks ==
    {[source |-> "o1", target |-> "o2", published |-> TRUE],
     [source |-> "o2", target |-> "o1", published |-> FALSE],
     [source |-> "o2", target |-> "o2", published |-> TRUE]}

\* Deployments that differ from a good one in their principals, a secret or a
\* connector.
Person(token, subject, tenant, role) ==
    [token |-> token, subject |-> subject, tenant |-> tenant, roles |-> {role}]

GoodDeployment ==
    [principals |-> {Person("k1", "ann", "ours", "reviewer"),
                     Person("k2", "bob", "ours", "publisher")},
     tenant |-> "ours", apiToken |-> "k3", dbPassword |-> "k4", driveToken |-> "absent",
     crawlToken |-> "absent", graphitiKey |-> "absent", environment |-> "staging",
     image |-> "digest", requireAuth |-> TRUE, store |-> "sqlalchemy",
     createSchema |-> FALSE, objectStore |-> "s3", search |-> "zvec", syncOnQuery |-> TRUE,
     ai |-> "ollama", mcpApproval |-> FALSE, mcpPublication |-> FALSE, origins |-> {"ui"},
     expectsUi |-> TRUE, crawl |-> FALSE, hosts |-> "listed", privateNetworks |-> FALSE,
     robots |-> TRUE, robotsFailClosed |-> TRUE, drive |-> FALSE, oidc |-> FALSE,
     oidcIssuer |-> "absent", oidcJwks |-> "absent", oidcAudience |-> FALSE,
     graph |-> "memory", graphitiUrl |-> "absent"]

Persons ==
    {Person(token, subject, tenant, role) :
        token \in {"k1", "k2", "short"}, subject \in {"ann", "bob", NoSubject},
        tenant \in {"ours", "other"}, role \in {"reviewer", "publisher", "governance_admin"}}

MCDeployments ==
    {[GoodDeployment EXCEPT !.principals = {a, Person("k2", "bob", "ours", role)}] :
        a \in Persons, role \in {"reviewer", "publisher", "governance_admin"}}
    \cup {[GoodDeployment EXCEPT !.dbPassword = "k3"],
          [GoodDeployment EXCEPT !.tenant = "placeholder"],
          [GoodDeployment EXCEPT !.driveToken = "placeholder"],
          [GoodDeployment EXCEPT !.crawl = TRUE, !.robotsFailClosed = FALSE],
          [GoodDeployment EXCEPT !.drive = TRUE, !.driveToken = "short"],
          [GoodDeployment EXCEPT !.graph = "graphiti", !.graphitiUrl = "https",
                                 !.graphitiKey = "k4", !.oidc = TRUE,
                                 !.oidcIssuer = "https", !.oidcJwks = "http",
                                 !.oidcAudience = TRUE]}

MCAnswers ==
    {[success |-> s, object |-> TRUE, ok |-> s, sqlalchemy |-> TRUE,
      available |-> v, capabilities |-> TRUE] : s \in BOOLEAN, v \in BOOLEAN}

Note(id, version, body, status) ==
    [form |-> "valid", id |-> id, version |-> version, body |-> body, status |-> status,
     approved |-> TRUE, tenant |-> "ours", source |-> "vault", level |-> 1,
     links |-> {"l1", "l2"}, subject |-> id]

\* A note, edited with and without a new version; notes that are refused, and
\* one of another source and level that may meet its key.
MCNotes ==
    LET good == Note("n1", 1, "b1", "approved")
    IN {good, Note("n1", 1, "b2", "published"), Note("n1", 2, "b3", "published"),
        [good EXCEPT !.status = "draft"], [good EXCEPT !.approved = FALSE],
        [good EXCEPT !.body = ""], [good EXCEPT !.form = "broken"],
        [good EXCEPT !.tenant = "other"], [good EXCEPT !.id = "n2", !.source = "git"],
        [good EXCEPT !.id = "n3", !.level = 0]}
MCRolesOf == [ann |-> {"reviewer"}, bob |-> {"publisher", "submitter"}, cy |-> {"publisher"}]
MCGivenKeys == {<<"key">>}
MCNoKey == <<>>

=============================================================================
