------------------------------ MODULE WebFetch ------------------------------
(***************************************************************************)
(* The capture of one web page: WebUrlPolicy, HttpWebFetcher with its      *)
(* redirects, RobotsAwareWebFetcher, and WebKnowledgeConnector.capture.    *)
(* The sites answer as they like.  The HTTP client gives every call a      *)
(* timeout, so that each one returns.                                      *)
(***************************************************************************)
EXTENDS Naturals, FiniteSets

CONSTANTS
    Urls,          \* addresses: records with scheme, user, host, port, robots
    Patterns,      \* the configured host patterns
    Covers,        \* [Patterns -> SUBSET hosts]: the hosts a pattern stands for
    AllowedPorts,
    Private,       \* the hosts that are literal addresses of no global scope
    AllowPrivate,
    NoHost,        \* the host of an address without one
    Barred,        \* the addresses the robots file of their site bars
    MaxRedirects,
    FailClosed

VARIABLES
    fetch,      \* "idle", "robots", "page", "compile", "captured" or "refused"
    requested,  \* the address of the request
    current,    \* the address of the next call
    hops,       \* calls of the running HttpWebFetcher.fetch so far
    robots,     \* what the robots file answered: "unread", "rules", "missing", "error"
    contacted,  \* the addresses that were called
    canonical   \* the address recorded for the source

vars == <<fetch, requested, current, hops, robots, contacted, canonical>>

Port(url) == IF url.port # 0 THEN url.port ELSE IF url.scheme = "https" THEN 443 ELSE 80

\* WebUrlPolicy.validate.
Accepts(url) ==
    /\ url.scheme \in {"http", "https"}
    /\ ~url.user
    /\ url.host # NoHost
    /\ \E pattern \in Patterns : url.host \in Covers[pattern]
    /\ Port(url) \in AllowedPorts
    /\ AllowPrivate \/ url.host \notin Private

\* The address of the robots file of a site: the scheme and the place stay.
IsRobotsOf(file, url) ==
    /\ file.robots
    /\ file.scheme = url.scheme /\ file.user = url.user
    /\ file.host = url.host /\ file.port = url.port

Init ==
    /\ fetch = "idle"
    /\ requested \in {url \in Urls : ~url.robots}
    /\ current = requested
    /\ hops = 0
    /\ robots = "unread"
    /\ contacted = {}
    /\ canonical = requested

\* RobotsAwareWebFetcher.fetch: the robots file first.
BeginFetch ==
    /\ fetch = "idle"
    /\ fetch' = "robots"
    /\ \E file \in Urls : IsRobotsOf(file, requested) /\ current' = file
    /\ UNCHANGED <<requested, hops, robots, contacted, canonical>>

\* The page is fetched from its own address, with a count of its own.
TurnToPage ==
    /\ fetch' = "page"
    /\ current' = requested
    /\ hops' = 0

\* The robots file answers with rules, is missing (404 or 410), or fails.
RobotsEnds(answer) ==
    /\ robots' = answer
    /\ IF \/ answer = "rules" /\ requested \in Barred
          \/ answer = "error" /\ FailClosed
       THEN fetch' = "refused" /\ UNCHANGED <<current, hops>>
       ELSE TurnToPage

Fetching == fetch \in {"robots", "page"}

\* HttpWebFetcher.fetch gives up: the policy, the redirects, the transport, the
\* status, the type or the size.
GiveUp ==
    IF fetch = "robots"
    THEN RobotsEnds("error")
    ELSE fetch' = "refused" /\ UNCHANGED <<current, hops, robots>>

Refuse ==
    /\ Fetching
    /\ ~Accepts(current) \/ hops > MaxRedirects
    /\ GiveUp
    /\ UNCHANGED <<requested, contacted, canonical>>

Calling ==
    /\ Fetching /\ Accepts(current) /\ hops <= MaxRedirects
    /\ contacted' = contacted \cup {current}

\* Mutant: a redirect does not count.
FollowFreely ==
    /\ Calling
    /\ \E target \in Urls : current' = target
    /\ UNCHANGED <<fetch, hops, requested, robots, canonical>>

\* The answer is a redirect, to an address of whatever kind.
Follow ==
    /\ Calling
    /\ \E target \in Urls : current' = target
    /\ hops' = hops + 1
    /\ UNCHANGED <<fetch, requested, robots, canonical>>

\* Any other answer: the body, or a failure.
Arrive ==
    /\ Calling
    /\ \/ IF fetch = "robots"
          THEN RobotsEnds("rules")
          ELSE fetch' = "compile" /\ UNCHANGED <<current, hops, robots>>
       \/ fetch = "robots" /\ RobotsEnds("missing")
       \/ GiveUp
    /\ UNCHANGED <<requested, canonical>>

\* Mutant: the page names its own address.
CaptureAsNamed ==
    /\ fetch = "compile"
    /\ \/ fetch' = "refused" /\ UNCHANGED canonical
       \/ fetch' = "captured" /\ canonical' \in Urls
    /\ UNCHANGED <<requested, current, hops, robots, contacted>>

\* capture: a page without text is refused; else it is stored and compiled, and
\* its source has the address the page names, if the policy accepts it.
Capture ==
    /\ fetch = "compile"
    /\ \/ fetch' = "refused" /\ UNCHANGED canonical
       \/ /\ fetch' = "captured"
          /\ \E named \in Urls : canonical' = IF Accepts(named) THEN named ELSE current
    /\ UNCHANGED <<requested, current, hops, robots, contacted>>

Next == BeginFetch \/ Refuse \/ Follow \/ Arrive \/ Capture

\* One thread runs the capture and takes its next step whenever it has one.
Spec == Init /\ [][Next]_vars /\ WF_vars(Next)

-----------------------------------------------------------------------------
(* Properties.                                                             *)

\* Whatever the sites redirect to and whatever a page calls itself, every
\* address that is called or recorded is one the policy accepts.
AddressesAreAccepted ==
    \A url \in contacted \cup (IF fetch = "captured" THEN {canonical} ELSE {}) : Accepts(url)

\* Every capture ends, however long the chain of redirects.
FetchEnds == <>(fetch \in {"captured", "refused"})

=============================================================================
