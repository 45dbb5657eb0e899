----------------------------- MODULE SiteCrawl -----------------------------
(***************************************************************************)
(* Crawl4AIConnector.collect: a breadth-first walk over the pages of the   *)
(* configured hosts, each rendered by the Crawl4AI sidecar, at once or as  *)
(* a task the connector polls until a deadline.  The HTTP client gives     *)
(* every call a timeout, so that each one returns.                         *)
(***************************************************************************)
EXTENDS Naturals, Sequences, SequencesExt, FiniteSets

CONSTANTS
    Pages,       \* addresses
    LinksOf,     \* [Pages -> Seq(Pages)]: the links of a page, in order
    Permitted,   \* the addresses the policy accepts
    StartPage,   \* the requested address
    MaxDepth,    \* request.max_depth
    MaxPages,    \* the lower of the request's and the configured page limit
    MaxPolls     \* bound: polls of one task before its deadline

VARIABLES
    crawl,       \* "idle", "walk", "task", "ended" or "failed"
    queue,       \* pages to visit, with their depths
    visited,
    page,        \* the page being rendered, with its depth
    polls,       \* polls of its task so far
    outcome,     \* page -> what became of it
    items,       \* the pages collected
    limited      \* the warning that the page limit stopped the walk

vars == <<crawl, queue, visited, page, polls, outcome, items, limited>>

Outcomes == {"none", "markdown", "empty", "error"}

Init ==
    /\ crawl = "idle"
    /\ queue = <<>>
    /\ visited = {}
    /\ page = [url |-> StartPage, depth |-> 0]
    /\ polls = 0
    /\ outcome = [p \in Pages |-> "none"]
    /\ items = {}
    /\ limited = FALSE

\* An address the policy refuses is refused with the request.
StartCrawl ==
    /\ crawl = "idle"
    /\ IF StartPage \in Permitted
       THEN crawl' = "walk" /\ queue' = <<page>>
       ELSE crawl' = "failed" /\ UNCHANGED queue
    /\ UNCHANGED <<visited, page, polls, outcome, items, limited>>

Walking == crawl = "walk" /\ queue # <<>> /\ Cardinality(items) < MaxPages

\* Mutant: the page queued last is visited first.
VisitLast ==
    /\ Walking
    /\ queue' = Front(queue)
    /\ page' = Last(queue)
    /\ visited' = visited \cup {Last(queue).url}
    /\ crawl' = IF Last(queue).url \in visited THEN "walk" ELSE "render"
    /\ UNCHANGED <<polls, outcome, items, limited>>

\* The next page of the queue, unless it was visited.
Visit ==
    /\ Walking
    /\ queue' = Tail(queue)
    /\ page' = Head(queue)
    /\ visited' = visited \cup {Head(queue).url}
    /\ crawl' = IF Head(queue).url \in visited THEN "walk" ELSE "render"
    /\ UNCHANGED <<polls, outcome, items, limited>>

RawLinks == LinksOf[page.url]

\* The queue after the first i links of the page: those that are permitted, not too
\* deep and not visited join it, a second time when they are in it already.
Joined[i \in 0 .. Len(RawLinks)] ==
    IF i = 0 THEN queue
    ELSE LET link == RawLinks[i]
         IN IF page.depth < MaxDepth /\ link \in Permitted /\ link \notin visited
            THEN Append(Joined[i - 1], [url |-> link, depth |-> page.depth + 1])
            ELSE Joined[i - 1]

\* The page yields Markdown and becomes an item; its links join the queue.
Yield ==
    /\ queue' = Joined[Len(RawLinks)]
    /\ items' = items \cup {page.url}
    /\ outcome' = [outcome EXCEPT ![page.url] = "markdown"]

\* A page that fails or is empty leaves a warning and no links.
Waste ==
    /\ \E result \in {"empty", "error"} : outcome' = [outcome EXCEPT ![page.url] = result]
    /\ UNCHANGED <<queue, items>>

\* The sidecar answers with the page, with an error, or with a task.
Render ==
    /\ crawl = "render"
    /\ \/ crawl' = "walk" /\ (Yield \/ Waste)
       \/ crawl' = "task" /\ UNCHANGED <<queue, items, outcome>>
    /\ polls' = 0
    /\ UNCHANGED <<visited, page, limited>>

\* Mutant: the deadline starts anew with each poll.
PollForever ==
    /\ crawl = "task"
    /\ \/ crawl' = "walk" /\ polls' = 0 /\ (Yield \/ Waste)
       \/ /\ polls' = (polls + 1) % (MaxPolls + 1)
          /\ UNCHANGED <<crawl, queue, items, outcome>>
    /\ UNCHANGED <<visited, page, limited>>

\* _wait_for_task: until the task is done or has failed, or the deadline.
Poll ==
    /\ crawl = "task"
    /\ \/ crawl' = "walk" /\ polls' = 0 /\ (Yield \/ Waste)
       \/ /\ polls < MaxPolls
          /\ polls' = polls + 1
          /\ UNCHANGED <<crawl, queue, items, outcome>>
    /\ UNCHANGED <<visited, page, limited>>

\* A transport error is no connector error: it ends the request, and what was
\* collected is lost.
BreakOff ==
    /\ crawl \in {"render", "task"}
    /\ crawl' = "failed"
    /\ items' = {}
    /\ UNCHANGED <<queue, visited, page, polls, outcome, limited>>

EndCrawl ==
    /\ crawl = "walk" /\ ~Walking
    /\ crawl' = "ended"
    /\ limited' = (queue # <<>>)
    /\ UNCHANGED <<queue, visited, page, polls, outcome, items>>

Next == StartCrawl \/ Visit \/ Render \/ Poll \/ BreakOff \/ EndCrawl

\* The collector is one loop of one thread, which takes its next step whenever
\* it has one: every HTTP call returns or times out.
Spec == Init /\ [][Next]_vars /\ WF_vars(Next)

-----------------------------------------------------------------------------
(* Properties.                                                             *)

\* The permitted pages within a distance of the start, over pages that yielded
\* Markdown.
Within[d \in 0 .. MaxDepth] ==
    IF d = 0 THEN {StartPage}
    ELSE Within[d - 1] \cup
         {p \in Permitted : \E q \in Within[d - 1] :
             outcome[q] = "markdown" /\ p \in ToSet(LinksOf[q])}

\* A walk that ends without the warning about the page limit visited every page
\* within the depth, and collected exactly those that yielded Markdown; a walk
\* that ends never exceeds its limits or the policy.
CrawlIsComplete ==
    crawl = "ended" =>
        /\ Cardinality(items) <= MaxPages
        /\ visited \subseteq Within[MaxDepth] /\ Within[MaxDepth] \subseteq Permitted
        /\ items = {p \in visited : outcome[p] = "markdown"}
        /\ ~limited => visited = Within[MaxDepth]

\* Every crawl ends, whatever the sidecar and the pages answer: cycles among the
\* links, tasks that never finish, pages that fail.
CrawlEnds == <>(crawl \in {"ended", "failed"})

=============================================================================
