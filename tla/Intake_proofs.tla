--------------------------- MODULE Intake_proofs ---------------------------
(***************************************************************************)
(* What brings knowledge in, proved of the flows for every value of the    *)
(* constants: the site crawl, the capture of a page, the drive import and  *)
(* the batch.  First what the proofs share: a behaviour is that of one     *)
(* part; sequences as sets; induction up to a bound and loops.             *)
(***************************************************************************)
EXTENDS Flows, FiniteSetTheorems, SequenceTheorems, TLAPS

-----------------------------------------------------------------------------
(* One part of the behaviour.                                              *)

\* A step is one of the part the behaviour belongs to.
LEMMA OnePart ==
  ASSUME [Next]_vars
  PROVE  /\ part' = part
         /\ On("crawl") => Crawl!Next \/ UNCHANGED crawlVars
         /\ On("fetch") => Fetch!Next \/ UNCHANGED fetchVars
         /\ On("drive") => Drive!Next \/ UNCHANGED driveVars
         /\ On("batch") => Batch!Next \/ UNCHANGED batchVars
         /\ On("windows") => Windows!Next \/ UNCHANGED windowVars
         /\ On("screen") => Screen!Next \/ UNCHANGED screenVars
         /\ On("context") => Context!Next \/ UNCHANGED contextVars
         /\ On("gate") => Gate!Next \/ UNCHANGED gateVars
         /\ On("enrich") => Enrich!Next \/ UNCHANGED enrichVars
         /\ On("notes") => Obsidian!Next \/ UNCHANGED noteVars
         /\ On("view") => View!Next \/ UNCHANGED viewVars
BY DEF Next, vars, On, CrawlStep, FetchStep, DriveStep, BatchStep, WindowsStep, ScreenStep,
       ContextStep, GateStep, EnrichStep, NotesStep, ViewStep

-----------------------------------------------------------------------------
(* Sequences.                                                              *)

Elements(s) == {s[i] : i \in DOMAIN s}

Once(s) == \A i, j \in DOMAIN s : s[i] = s[j] => i = j

\* What a sequence holds is its head and what its tail holds.
LEMMA HeadOff ==
  ASSUME NEW S, NEW s \in Seq(S), s # <<>>
  PROVE  /\ Head(s) \in S /\ Tail(s) \in Seq(S)
         /\ Elements(s) = {Head(s)} \cup Elements(Tail(s))
         /\ Once(s) => Once(Tail(s)) /\ Head(s) \notin Elements(Tail(s))
<1>1. /\ Head(s) \in S /\ Tail(s) \in Seq(S) /\ Head(s) = s[1] /\ Len(s) >= 1
      /\ DOMAIN s = 1 .. Len(s)
  OBVIOUS
<1>2. ASSUME NEW i \in DOMAIN s
      PROVE  s[i] \in {Head(s)} \cup Elements(Tail(s))
  <2>1. CASE i = 1
    BY <1>1, <2>1
  <2>2. CASE i # 1
    <3>1. i - 1 \in DOMAIN Tail(s) /\ Tail(s)[i - 1] = s[i]
      BY <1>1, <2>2
    <3> QED BY <3>1 DEF Elements
  <2> QED BY <2>1, <2>2
<1>3. ASSUME NEW i \in DOMAIN Tail(s)
      PROVE  i \in Nat /\ i >= 1 /\ i + 1 \in DOMAIN s /\ Tail(s)[i] = s[i + 1]
  BY <1>1
<1>4. Elements(s) = {Head(s)} \cup Elements(Tail(s))
  <2>1. Head(s) \in Elements(s)
    BY <1>1 DEF Elements
  <2> QED BY <1>2, <1>3, <2>1 DEF Elements
<1>5. ASSUME Once(s) PROVE Once(Tail(s)) /\ Head(s) \notin Elements(Tail(s))
  <2>1. ASSUME NEW i \in DOMAIN Tail(s), NEW j \in DOMAIN Tail(s), Tail(s)[i] = Tail(s)[j]
        PROVE  i = j
    <3>1. i + 1 = j + 1
      BY <1>3, <1>5, <2>1 DEF Once
    <3> QED BY <1>3, <3>1
  <2>2. ASSUME NEW i \in DOMAIN Tail(s) PROVE Tail(s)[i] # Head(s)
    <3>1. i + 1 # 1 /\ 1 \in DOMAIN s
      BY <1>1, <1>3
    <3> QED BY <1>1, <1>3, <1>5, <3>1 DEF Once
  <2> QED BY <2>1, <2>2 DEF Once, Elements
<1> QED BY <1>1, <1>4, <1>5

\* What is put at the end is one more element.
LEMMA OneMore ==
  ASSUME NEW S, NEW s \in Seq(S), NEW x \in S
  PROVE  /\ Append(s, x) \in Seq(S) /\ Len(Append(s, x)) = Len(s) + 1
         /\ Elements(Append(s, x)) = Elements(s) \cup {x}
         /\ Once(s) /\ x \notin Elements(s) => Once(Append(s, x))
<1>1. /\ Append(s, x) \in Seq(S) /\ Len(Append(s, x)) = Len(s) + 1
      /\ Append(s, x)[Len(s) + 1] = x
      /\ \A i \in DOMAIN s : i \in DOMAIN Append(s, x) /\ Append(s, x)[i] = s[i]
  OBVIOUS
<1>2. \A i \in DOMAIN Append(s, x) : i \in DOMAIN s \/ i = Len(s) + 1
  OBVIOUS
<1>3. Len(s) + 1 \in DOMAIN Append(s, x)
  OBVIOUS
<1>4. Elements(Append(s, x)) = Elements(s) \cup {x}
  BY <1>1, <1>2, <1>3 DEF Elements
<1>5. ASSUME Once(s), x \notin Elements(s) PROVE Once(Append(s, x))
  <2>1. ASSUME NEW i \in DOMAIN Append(s, x), NEW j \in DOMAIN Append(s, x),
               Append(s, x)[i] = Append(s, x)[j]
        PROVE  i = j
    <3>1. CASE i \in DOMAIN s /\ j \in DOMAIN s
      BY <1>1, <1>5, <2>1, <3>1 DEF Once
    <3>2. CASE i \in DOMAIN s /\ j = Len(s) + 1
      <4>1. s[i] = x
        BY <1>1, <2>1, <3>2
      <4> QED BY <1>5, <3>2, <4>1 DEF Elements
    <3>3. CASE i = Len(s) + 1 /\ j \in DOMAIN s
      <4>1. s[j] = x
        BY <1>1, <2>1, <3>3
      <4> QED BY <1>5, <3>3, <4>1 DEF Elements
    <3> QED BY <1>2, <2>1, <3>1, <3>2, <3>3
  <2> QED BY <2>1 DEF Once
<1> QED BY <1>1, <1>4, <1>5

-----------------------------------------------------------------------------
(* Induction up to a bound and loops.                                      *)

\* A set of numbers up to n that holds 0 and what follows each of its members holds
\* n: otherwise "the next" would map it into itself without 0, against the
\* pigeonhole principle.
LEMMA Climb ==
  ASSUME NEW n \in Nat, NEW S \in SUBSET (0 .. n), 0 \in S,
         \A i \in S : i < n => i + 1 \in S
  PROVE  n \in S
<1> SUFFICES ASSUME n \notin S PROVE FALSE
  OBVIOUS
<1> DEFINE T == S \ {0}
           f == [i \in S |-> i + 1]
<1>1. IsFiniteSet(S)
  <2>1. S \in SUBSET Nat /\ \A i \in S : i <= n
    OBVIOUS
  <2> QED BY <2>1, FS_BoundedSetOfNaturals
<1>2. IsFiniteSet(T) /\ Cardinality(T) = Cardinality(S) - 1 /\ Cardinality(S) \in Nat
  BY <1>1, FS_RemoveElement, FS_CardinalityType
<1>3. f \in [S -> T]
  OBVIOUS
<1>4. \A x, y \in S : f[x] = f[y] => x = y
  OBVIOUS
<1> HIDE DEF f, T
<1>5. Cardinality(T) < Cardinality(S)
  BY <1>2
<1>6. \E x, y \in S : x # y /\ f[x] = f[y]
  BY <1>1, <1>2, <1>3, <1>5, FS_PigeonHole
<1> QED BY <1>4, <1>6

\* g lists the values that a loop over 1 .. n goes through.
Loop(g, n, values, first0, step) ==
  /\ g \in [0 .. n -> values]
  /\ \A d \in 0 .. n : g[d] = IF d = 0 THEN first0 ELSE step[<<d, g[d - 1]>>]

\* There is such a list, so that a recursive function is what its definition says.
LEMMA LoopExists ==
  ASSUME NEW n \in Nat, NEW values, NEW first0 \in values,
         NEW step \in [(1 .. n) \X values -> values]
  PROVE  \E g : Loop(g, n, values, first0, step)
<1> DEFINE IsStart(g, k) ==
             /\ g \in [0 .. k -> values]
             /\ \A d \in 0 .. k : g[d] = IF d = 0 THEN first0 ELSE step[<<d, g[d - 1]>>]
           S == {k \in 0 .. n : \E g : IsStart(g, k)}
<1>1. 0 \in S
  <2> DEFINE g == [d \in 0 .. 0 |-> first0]
  <2>1. g \in [0 .. 0 -> values] /\ \A d \in 0 .. 0 : d = 0 /\ g[d] = first0
    OBVIOUS
  <2> HIDE DEF g
  <2>2. IsStart(g, 0)
    BY <2>1
  <2> HIDE DEF IsStart
  <2> QED BY <2>2
<1>2. ASSUME NEW i \in S, i < n PROVE i + 1 \in S
  <2> HIDE DEF IsStart
  <2>1. PICK g : IsStart(g, i)
    OBVIOUS
  <2>2. i \in Nat /\ i \in 0 .. i /\ i + 1 \in 1 .. n /\ i + 1 \in 0 .. n
    BY <1>2
  <2> DEFINE last0 == step[<<i + 1, g[i]>>]
             h == [d \in 0 .. i + 1 |-> IF d <= i THEN g[d] ELSE last0]
  <2>3. g \in [0 .. i -> values] /\ g[i] \in values /\ last0 \in values
    BY <2>1, <2>2 DEF IsStart
  <2>4. \A d \in 0 .. i : h[d] = g[d]
    BY <2>2
  <2>5. h[i + 1] = last0
    <3> HIDE DEF last0
    <3> QED BY <2>2
  <2>6. h \in [0 .. i + 1 -> values]
    <3> HIDE DEF last0
    <3> QED BY <2>2, <2>3
  <2> HIDE DEF h
  <2>7. ASSUME NEW d \in 0 .. i + 1
        PROVE  h[d] = IF d = 0 THEN first0 ELSE step[<<d, h[d - 1]>>]
    <3>1. CASE d <= i
      <4>1. d \in 0 .. i /\ (d # 0 => d - 1 \in 0 .. i)
        BY <2>2, <3>1
      <4> QED BY <2>1, <2>4, <4>1 DEF IsStart
    <3>2. CASE d = i + 1
      <4>1. d # 0 /\ d - 1 = i
        BY <2>2, <3>2
      <4> QED BY <2>2, <2>4, <2>5, <3>2, <4>1
    <3> QED BY <2>2, <3>1, <3>2
  <2>8. IsStart(h, i + 1)
    BY <2>6, <2>7 DEF IsStart
  <2> QED BY <2>2, <2>8
<1>3. S \in SUBSET (0 .. n)
  OBVIOUS
<1> HIDE DEF S
<1>4. n \in S
  BY <1>1, <1>2, <1>3, Climb
<1> QED BY <1>4 DEF S, Loop

\* What can be reached over a relation in so many steps.
Layers(g, n, start0, all, relation) ==
  /\ g \in [0 .. n -> SUBSET all]
  /\ \A d \in 0 .. n :
       g[d] = IF d = 0 THEN start0
              ELSE g[d - 1] \cup {y \in all : \E x \in g[d - 1] : <<x, y>> \in relation}

\* ... which is a loop, too.
LEMMA LayersExist ==
  ASSUME NEW n \in Nat, NEW all, NEW start0 \in SUBSET all, NEW relation
  PROVE  \E g : Layers(g, n, start0, all, relation)
<1> DEFINE step == [p \in (1 .. n) \X SUBSET all |->
                      p[2] \cup {y \in all : \E x \in p[2] : <<x, y>> \in relation}]
<1>1. step \in [(1 .. n) \X SUBSET all -> SUBSET all]
  OBVIOUS
<1>2. ASSUME NEW d \in 1 .. n, NEW set \in SUBSET all
      PROVE  step[<<d, set>>] = set \cup {y \in all : \E x \in set : <<x, y>> \in relation}
  OBVIOUS
<1> HIDE DEF step
<1>3. PICK g : Loop(g, n, SUBSET all, start0, step)
  BY <1>1, LoopExists
<1>4. ASSUME NEW d \in 0 .. n
      PROVE  g[d] = IF d = 0 THEN start0
                    ELSE g[d - 1] \cup {y \in all : \E x \in g[d - 1] : <<x, y>> \in relation}
  <2>1. CASE d = 0
    BY <1>3, <2>1 DEF Loop
  <2>2. CASE d # 0
    <3>1. d \in 1 .. n /\ d - 1 \in 0 .. n
      BY <2>2
    <3>2. g[d - 1] \in SUBSET all /\ g[d] = step[<<d, g[d - 1]>>]
      BY <1>3, <2>2, <3>1 DEF Loop
    <3> QED BY <1>2, <2>2, <3>1, <3>2
  <2> QED BY <2>1, <2>2
<1> QED BY <1>3, <1>4 DEF Loop, Layers

-----------------------------------------------------------------------------
(* Site crawl.                                                             *)

Entry == [url : Pages, depth : Nat]

\* How a page comes to a depth: it is the start, or a page that yielded Markdown
\* one step nearer links to it.
LeadsTo(depths, p, d) ==
  \/ p = StartPage /\ d = 0
  \/ \E q \in visited : /\ depths[q] + 1 = d /\ outcome[q] = "markdown"
                        /\ p \in Elements(PageLinks[q])

\* A page is visited no deeper than this, or still in the queue.
Reached(depths, p, d) ==
  \/ p \in visited /\ depths[p] <= d
  \/ \E i \in DOMAIN queue : queue[i].url = p /\ queue[i].depth <= d

\* The entries of a queue come by their depths, which are in order and within one
\* of that of the page in hand.
QueueInv(depths) ==
  /\ \A i \in DOMAIN queue :
       /\ queue[i].url \in Permitted /\ queue[i].depth <= MaxDepth
       /\ page.depth <= queue[i].depth /\ queue[i].depth <= page.depth + 1
       /\ LeadsTo(depths, queue[i].url, queue[i].depth)
  /\ \A i, j \in DOMAIN queue : i < j => queue[i].depth <= queue[j].depth

\* Every visited page came by its depth, at which what it links to is reached.
VisitInv(depths) ==
  /\ \A p \in visited : /\ depths[p] <= page.depth /\ depths[p] <= MaxDepth
                        /\ LeadsTo(depths, p, depths[p])
  /\ \A q \in visited, p \in Permitted :
       outcome[q] = "markdown" /\ depths[q] < MaxDepth /\ p \in Elements(PageLinks[q])
       => Reached(depths, p, depths[q] + 1)
  /\ crawl # "idle" => Reached(depths, StartPage, 0)
  /\ crawl \in {"render", "task"} => page.url \in visited /\ depths[page.url] = page.depth

CrawlTypes ==
  /\ crawl \in {"idle", "walk", "render", "task", "ended", "failed"}
  /\ queue \in Seq(Entry) /\ visited \subseteq Permitted /\ page \in Entry
  /\ outcome \in [Pages -> Crawl!Outcomes]

\* What was collected: the visited pages that yielded Markdown.
ItemsInv ==
  /\ items = {p \in visited : outcome[p] = "markdown"}
  /\ IsFiniteSet(items) /\ Cardinality(items) <= MaxPages
  /\ \A p \in Pages \ visited : outcome[p] = "none"
  /\ crawl \in {"render", "task"} =>
       outcome[page.url] = "none" /\ Cardinality(items) < MaxPages
  /\ crawl = "ended" /\ ~limited => queue = <<>>
  /\ crawl = "idle" => visited = {} /\ queue = <<>> /\ page = [url |-> StartPage, depth |-> 0]

CrawlBooks(depths) == QueueInv(depths) /\ VisitInv(depths)

CrawlInv ==
  /\ CrawlTypes
  /\ crawl # "failed" => ItemsInv /\ \E depths \in [Pages -> Nat] : CrawlBooks(depths)

\* The queue once the page in hand yielded Markdown: the entries it had, and the
\* links that are permitted, not too deep and not visited, one step deeper.
JoinedBy(new) ==
  /\ new \in Seq(Entry)
  /\ Len(queue) <= Len(new) /\ \A i \in DOMAIN queue : new[i] = queue[i]
  /\ \A i \in DOMAIN new :
       \/ i \in DOMAIN queue
       \/ /\ page.depth < MaxDepth /\ new[i].depth = page.depth + 1
          /\ new[i].url \in Permitted \ visited /\ new[i].url \in Elements(PageLinks[page.url])

\* The loop over the links of a page queues each of them that it should.
LEMMA JoinedLinks ==
  ASSUME CrawlTypes, NEW new, new = Crawl!Joined[Len(Crawl!RawLinks)]
  PROVE  /\ JoinedBy(new)
         /\ \A p \in Permitted \ visited :
              page.depth < MaxDepth /\ p \in Elements(PageLinks[page.url])
              => \E i \in DOMAIN new : new[i].url = p /\ new[i].depth = page.depth + 1
<1> DEFINE links == PageLinks[page.url]
           n == Len(links)
           Fresh(link) == page.depth < MaxDepth /\ link \in Permitted /\ link \notin visited
           Next1(d, q) == IF Fresh(links[d])
                          THEN Append(q, [url |-> links[d], depth |-> page.depth + 1])
                          ELSE q
           step == [a \in (1 .. n) \X Seq(Entry) |-> Next1(a[1], a[2])]
           J == Crawl!Joined
<1>1. /\ page.url \in Pages /\ page.depth \in Nat /\ links \in Seq(Pages) /\ n \in Nat
      /\ DOMAIN links = 1 .. n /\ queue \in Seq(Entry)
  <2>1. page \in Entry /\ queue \in Seq(Entry)
    BY DEF CrawlTypes
  <2>2. page.url \in Pages /\ page.depth \in Nat
    BY <2>1 DEF Entry
  <2> QED BY <2>1, <2>2, CrawlAssumption
<1>2. \A d \in 1 .. n : links[d] \in Pages /\ [url |-> links[d], depth |-> page.depth + 1] \in Entry
  BY <1>1 DEF Entry
<1> HIDE DEF n, links, Fresh
<1>3. \A d \in 1 .. n, q \in Seq(Entry) : Next1(d, q) \in Seq(Entry)
  BY <1>1, <1>2
<1>4. step \in [(1 .. n) \X Seq(Entry) -> Seq(Entry)] /\ \A d \in 1 .. n, q \in Seq(Entry) : step[<<d, q>>] = Next1(d, q)
  <2> HIDE DEF Next1
  <2> QED BY <1>3
<1> HIDE DEF step
<1>5. PICK g : Loop(g, n, Seq(Entry), queue, step)
  BY <1>1, <1>4, LoopExists
<1> HIDE DEF Next1
<1>6. ASSUME NEW d \in 0 .. n PROVE g[d] = IF d = 0 THEN queue ELSE Next1(d, g[d - 1])
  <2>1. CASE d = 0
    BY <1>5, <2>1 DEF Loop
  <2>2. CASE d # 0
    <3>1. d \in 1 .. n /\ d - 1 \in 0 .. n
      BY <1>1, <2>2
    <3>2. g[d - 1] \in Seq(Entry) /\ g[d] = step[<<d, g[d - 1]>>]
      BY <1>5, <2>2, <3>1 DEF Loop
    <3> QED BY <1>4, <2>2, <3>1, <3>2
  <2> QED BY <2>1, <2>2
<1>7. g = [i \in 0 .. n |-> IF i = 0 THEN queue ELSE Next1(i, g[i - 1])]
  BY <1>5, <1>6 DEF Loop
<1>8. \E f : f = [i \in 0 .. Len(PageLinks[page.url]) |->
             IF i = 0 THEN queue
             ELSE LET link == PageLinks[page.url][i]
                  IN IF page.depth < MaxDepth /\ link \in Permitted /\ link \notin visited
                     THEN Append(f[i - 1], [url |-> link, depth |-> page.depth + 1])
                     ELSE f[i - 1]]
  BY <1>7 DEF Next1, Fresh, links, n
<1>9. J = [i \in 0 .. Len(PageLinks[page.url]) |->
             IF i = 0 THEN queue
             ELSE LET link == PageLinks[page.url][i]
                  IN IF page.depth < MaxDepth /\ link \in Permitted /\ link \notin visited
                     THEN Append(J[i - 1], [url |-> link, depth |-> page.depth + 1])
                     ELSE J[i - 1]]
  BY Zenon, <1>8 DEF Crawl!Joined, Crawl!RawLinks
<1>10. \A d \in 0 .. n : J[d] = IF d = 0 THEN queue ELSE Next1(d, J[d - 1])
  <2>1. J = [i \in 0 .. n |-> IF i = 0 THEN queue ELSE Next1(i, J[i - 1])]
    BY Zenon, <1>9 DEF Next1, Fresh, links, n
  <2> HIDE DEF J
  <2> QED BY <2>1
<1> HIDE DEF J
<1> DEFINE Good(k, q) ==
             /\ q \in Seq(Entry)
             /\ Len(queue) <= Len(q) /\ \A i \in DOMAIN queue : q[i] = queue[i]
             /\ \A i \in DOMAIN q :
                  \/ i \in DOMAIN queue
                  \/ /\ page.depth < MaxDepth /\ q[i].depth = page.depth + 1
                     /\ q[i].url \in Permitted \ visited /\ q[i].url \in Elements(links)
             /\ \A d \in 1 .. k : Fresh(links[d]) =>
                  \E i \in DOMAIN q : q[i].url = links[d] /\ q[i].depth = page.depth + 1
           S == {k \in 0 .. n : Good(k, J[k])}
<1>11. 0 \in S
  <2>1. J[0] = queue
    BY <1>1, <1>10
  <2>2. Good(0, queue)
    BY <1>1
  <2> QED BY <1>1, <2>1, <2>2
<1>12. ASSUME NEW k \in S, k < n PROVE k + 1 \in S
  <2>1. k \in Nat /\ k + 1 \in 1 .. n /\ k + 1 \in 0 .. n /\ k + 1 # 0 /\ (k + 1) - 1 = k
    BY <1>1, <1>12
  <2>2. PICK q : q = J[k]
    OBVIOUS
  <2>3. PICK r : r = J[k + 1]
    OBVIOUS
  <2>4. Good(k, q)
    BY <2>2
  <2>5. r = Next1(k + 1, q)
    BY <1>10, <2>1, <2>2, <2>3
  <2>6. PICK e : e = [url |-> links[k + 1], depth |-> page.depth + 1]
    OBVIOUS
  <2>7. e \in Entry /\ e.url = links[k + 1] /\ e.depth = page.depth + 1
    BY <1>2, <2>1, <2>6
  <2>8. \A d \in 1 .. k + 1 : d \in 1 .. k \/ d = k + 1
    BY <2>1
  <2>9. CASE Fresh(links[k + 1])
    <3>1. r = Append(q, e)
      BY <2>5, <2>6, <2>9 DEF Next1
    <3>2. /\ r \in Seq(Entry) /\ Len(r) = Len(q) + 1 /\ r[Len(q) + 1] = e
          /\ Len(q) + 1 \in DOMAIN r
          /\ \A i \in DOMAIN q : i \in DOMAIN r /\ r[i] = q[i]
          /\ \A i \in DOMAIN r : i \in DOMAIN q \/ i = Len(q) + 1
      BY <2>4, <2>7, <3>1
    <3>3. links[k + 1] \in Elements(links)
      BY <1>1, <2>1 DEF Elements
    <3>4. e.url \in Permitted \ visited /\ e.url \in Elements(links) /\ page.depth < MaxDepth
      BY <2>7, <2>9, <3>3 DEF Fresh
    <3>5. Len(queue) <= Len(r) /\ \A i \in DOMAIN queue : r[i] = queue[i]
      <4>1. \A i \in DOMAIN queue : i \in DOMAIN q
        BY <1>1, <2>4
      <4> QED BY <1>1, <2>4, <3>2, <4>1
    <3>6. ASSUME NEW i \in DOMAIN r
          PROVE  \/ i \in DOMAIN queue
                 \/ /\ page.depth < MaxDepth /\ r[i].depth = page.depth + 1
                    /\ r[i].url \in Permitted \ visited /\ r[i].url \in Elements(links)
      BY <2>4, <2>7, <3>2, <3>4
    <3>7. ASSUME NEW d \in 1 .. k + 1, Fresh(links[d])
          PROVE  \E i \in DOMAIN r : r[i].url = links[d] /\ r[i].depth = page.depth + 1
      <4>1. CASE d \in 1 .. k
        BY <2>4, <3>2, <3>7, <4>1
      <4>2. CASE d = k + 1
        BY <2>7, <3>2, <4>2
      <4> QED BY <2>8, <4>1, <4>2
    <3>8. Good(k + 1, r)
      BY <3>2, <3>5, <3>6, <3>7
    <3> HIDE DEF Good
    <3> QED BY <2>1, <2>3, <3>8
  <2>10. CASE ~Fresh(links[k + 1])
    <3>1. r = q
      BY <2>5, <2>10 DEF Next1
    <3>2. \A d \in 1 .. k + 1 : Fresh(links[d]) =>
                  \E i \in DOMAIN q : q[i].url = links[d] /\ q[i].depth = page.depth + 1
      BY <2>4, <2>8, <2>10
    <3>3. Good(k + 1, q)
      BY <2>4, <3>2
    <3> HIDE DEF Good
    <3> QED BY <2>1, <2>3, <3>1, <3>3
  <2> QED BY <2>9, <2>10
<1>13. S \in SUBSET (0 .. n)
  OBVIOUS
<1> HIDE DEF S, Good
<1>14. Good(n, J[n])
  <2>1. n \in S
    BY <1>1, <1>11, <1>12, <1>13, Climb
  <2> QED BY <2>1 DEF S
<1>15. new = J[n]
  BY DEF J, n, links, Crawl!RawLinks
<1>16. Good(n, new)
  BY <1>14, <1>15
<1>17. JoinedBy(new)
  BY <1>16 DEF Good, JoinedBy, links
<1>18. ASSUME NEW p \in Permitted \ visited, page.depth < MaxDepth, p \in Elements(PageLinks[page.url])
       PROVE  \E i \in DOMAIN new : new[i].url = p /\ new[i].depth = page.depth + 1
  <2>1. PICK d \in 1 .. n : links[d] = p
    BY <1>1, <1>18 DEF Elements, links
  <2>2. Fresh(links[d])
    BY <1>18, <2>1 DEF Fresh
  <2> QED BY <1>16, <2>1, <2>2 DEF Good
<1> QED BY <1>17, <1>18

\* The module counts as this one does.
LEMMA CrawlCounts == \A s : Crawl!Cardinality(s) = Cardinality(s)
BY DEF Crawl!Cardinality, Cardinality

\* Nothing is visited or collected before the request.
LEMMA CrawlInit ==
  ASSUME Crawl!Init
  PROVE  CrawlInv
<1>1. /\ crawl = "idle" /\ queue = <<>> /\ visited = {} /\ items = {}
      /\ page = [url |-> StartPage, depth |-> 0]
      /\ outcome = [p \in Pages |-> "none"]
  BY DEF Crawl!Init
<1>2. CrawlTypes
  BY <1>1, CrawlAssumption DEF CrawlTypes, Entry, Crawl!Outcomes
<1>3. ItemsInv
  BY <1>1, CrawlAssumption, FS_EmptySet DEF ItemsInv
<1>4. [p \in Pages |-> 0] \in [Pages -> Nat] /\ CrawlBooks([p \in Pages |-> 0])
  BY <1>1 DEF CrawlBooks, QueueInv, VisitInv
<1> QED BY <1>2, <1>3, <1>4 DEF CrawlInv

\* The request queues its page, or is refused.
LEMMA CrawlStarts ==
  ASSUME CrawlInv, Crawl!StartCrawl
  PROVE  CrawlInv'
<1>1. /\ crawl = "idle" /\ UNCHANGED <<visited, page, outcome, items, limited>>
      /\ \/ StartPage \in Permitted /\ crawl' = "walk" /\ queue' = <<page>>
         \/ crawl' = "failed" /\ queue' = queue
  BY DEF Crawl!StartCrawl
<1>2. CASE crawl' = "failed" /\ queue' = queue
  BY <1>1, <1>2 DEF CrawlInv, CrawlTypes
<1>3. CASE StartPage \in Permitted /\ crawl' = "walk" /\ queue' = <<page>>
  <2>1. visited = {} /\ page.url = StartPage /\ page.depth = 0 /\ page \in Entry
    BY <1>1 DEF CrawlInv, ItemsInv, CrawlTypes
  <2>2. /\ queue' \in Seq(Entry) /\ DOMAIN queue' = {1} /\ queue'[1].url = StartPage
        /\ queue'[1].depth = 0
    BY <1>3, <2>1
  <2>3. CrawlTypes'
    BY <1>1, <1>3, <2>2 DEF CrawlInv, CrawlTypes
  <2>4. ItemsInv'
    BY <1>1, <1>3 DEF CrawlInv, ItemsInv
  <2>5. PICK depths \in [Pages -> Nat] : CrawlBooks(depths)
    BY <1>1 DEF CrawlInv
  <2>6. QueueInv(depths)'
    BY <1>1, <1>3, <2>1, <2>2, CrawlAssumption DEF QueueInv, LeadsTo
  <2>7. VisitInv(depths)'
    BY <1>1, <1>3, <2>1, <2>2 DEF VisitInv, Reached
  <2> QED BY <2>3, <2>4, <2>6, <2>7 DEF CrawlInv, CrawlBooks
<1> QED BY <1>1, <1>2, <1>3

\* The next entry of the queue is the page in hand, which is not visited twice.
LEMMA CrawlVisits ==
  ASSUME CrawlInv, Crawl!Visit
  PROVE  CrawlInv'
<1>0. PICK h : h = Head(queue)
  OBVIOUS
<1>1. /\ crawl = "walk" /\ queue # <<>> /\ Cardinality(items) < MaxPages
      /\ queue' = Tail(queue) /\ page' = h /\ visited' = visited \cup {h.url}
      /\ crawl' = IF h.url \in visited THEN "walk" ELSE "render"
      /\ UNCHANGED <<outcome, items, limited>>
  BY <1>0, CrawlCounts DEF Crawl!Visit, Crawl!Walking
<1>2. PICK depths \in [Pages -> Nat] : QueueInv(depths) /\ VisitInv(depths)
  BY <1>1 DEF CrawlInv, CrawlBooks
<1>3. /\ h \in Entry /\ queue' \in Seq(Entry) /\ 1 \in DOMAIN queue /\ queue[1] = h
      /\ \A i \in DOMAIN queue' :
           i \in Nat /\ i >= 1 /\ i + 1 \in DOMAIN queue /\ queue'[i] = queue[i + 1]
      /\ \A i \in DOMAIN queue : i = 1 \/ (i - 1 \in DOMAIN queue' /\ queue'[i - 1] = queue[i])
  BY <1>0, <1>1 DEF CrawlInv, CrawlTypes
<1>4. /\ h.url \in Permitted /\ h.url \in Pages /\ h.depth \in Nat /\ h.depth <= MaxDepth
      /\ page.depth <= h.depth /\ LeadsTo(depths, h.url, h.depth)
  BY <1>2, <1>3, CrawlAssumption DEF QueueInv, Entry
<1>5. page.depth \in Nat /\ visited \subseteq Pages /\ \A i \in DOMAIN queue : queue[i].depth \in Nat
  <2>1. page \in Entry /\ queue \in Seq(Entry) /\ visited \subseteq Pages
    BY CrawlAssumption DEF CrawlInv, CrawlTypes
  <2>2. \A i \in DOMAIN queue : queue[i] \in Entry
    BY <2>1
  <2> QED BY <2>1, <2>2 DEF Entry
<1>6. PICK deeper \in [Pages -> Nat] :
        /\ \A p \in visited : deeper[p] = depths[p]
        /\ h.url \in visited \/ deeper[h.url] = h.depth
  <2>1. CASE h.url \in visited
    BY <2>1
  <2>2. CASE h.url \notin visited
    <3>1. [depths EXCEPT ![h.url] = h.depth] \in [Pages -> Nat]
      BY <1>4
    <3>2. \A p \in visited : [depths EXCEPT ![h.url] = h.depth][p] = depths[p]
      BY <1>4, <1>5, <2>2
    <3>3. [depths EXCEPT ![h.url] = h.depth][h.url] = h.depth
      BY <1>4
    <3> QED BY <3>1, <3>2, <3>3
  <2> QED BY <2>1, <2>2
<1>7. deeper[h.url] <= h.depth /\ (h.url \in visited => deeper[h.url] <= page.depth)
  BY <1>2, <1>4, <1>5, <1>6 DEF VisitInv
<1>8. \A p, d : LeadsTo(depths, p, d) => LeadsTo(deeper, p, d)'
  BY <1>1, <1>6 DEF LeadsTo
<1>9. ASSUME NEW p \in Permitted, NEW d \in Nat, Reached(depths, p, d)
      PROVE  Reached(deeper, p, d)'
  <2>1. CASE p \in visited /\ depths[p] <= d
    BY <1>1, <1>6, <2>1 DEF Reached
  <2>2. CASE \E i \in DOMAIN queue : queue[i].url = p /\ queue[i].depth <= d
    <3>1. PICK i \in DOMAIN queue : queue[i].url = p /\ queue[i].depth <= d
      BY <2>2
    <3>2. CASE i = 1
      <4>1. p = h.url /\ h.depth <= d
        BY <1>3, <3>1, <3>2
      <4>2. deeper[p] <= d /\ p \in visited'
        BY <1>1, <1>4, <1>6, <1>7, <4>1
      <4> QED BY <4>2 DEF Reached
    <3>3. CASE i # 1
      BY <1>3, <3>1, <3>3 DEF Reached
    <3> QED BY <3>2, <3>3
  <2> QED BY <1>9, <2>1, <2>2 DEF Reached
<1>10. CrawlTypes'
  BY <1>1, <1>3, <1>4 DEF CrawlInv, CrawlTypes
<1>11. ItemsInv'
  <2>1. h.url \notin visited => outcome[h.url] = "none"
    BY <1>1, <1>4 DEF CrawlInv, ItemsInv
  <2>2. ItemsInv
    BY <1>1 DEF CrawlInv
  <2>3. items' = {p \in visited' : outcome'[p] = "markdown"}
    BY <1>1, <2>1, <2>2 DEF ItemsInv
  <2>4. crawl' \in {"render", "task"} => outcome'[page'.url] = "none" /\ Cardinality(items') < MaxPages
    BY <1>1, <2>1
  <2>5. crawl' # "ended" /\ crawl' # "idle"
    BY <1>1
  <2> QED BY <1>1, <2>2, <2>3, <2>4, <2>5 DEF ItemsInv
<1>12. QueueInv(deeper)'
  <2>1. ASSUME NEW i \in DOMAIN queue', NEW e, e = queue'[i]
        PROVE  /\ e.url \in Permitted /\ e.depth <= MaxDepth
               /\ h.depth <= e.depth /\ e.depth <= h.depth + 1
               /\ LeadsTo(deeper, e.url, e.depth)'
    <3>1. i + 1 \in DOMAIN queue /\ e = queue[i + 1] /\ 1 < i + 1
      BY <1>3, <2>1
    <3>2. /\ e.url \in Permitted /\ e.depth <= MaxDepth
          /\ h.depth <= e.depth /\ e.depth <= page.depth + 1
          /\ LeadsTo(depths, e.url, e.depth)
      BY <1>2, <1>3, <3>1 DEF QueueInv
    <3>3. e.depth <= h.depth + 1
      BY <1>4, <1>5, <3>1, <3>2
    <3> QED BY <1>8, <3>2, <3>3
  <2>2. ASSUME NEW i \in DOMAIN queue', NEW j \in DOMAIN queue', i < j
        PROVE  queue'[i].depth <= queue'[j].depth
    <3>1. i + 1 < j + 1
      BY <1>3, <2>2
    <3> QED BY <1>2, <1>3, <3>1 DEF QueueInv
  <2>3. ASSUME NEW i \in DOMAIN queue'
        PROVE  /\ queue'[i].url \in Permitted /\ queue'[i].depth <= MaxDepth
               /\ h.depth <= queue'[i].depth /\ queue'[i].depth <= h.depth + 1
               /\ \/ queue'[i].url = StartPage /\ queue'[i].depth = 0
                  \/ \E q \in visited' :
                       /\ deeper[q] + 1 = queue'[i].depth /\ outcome'[q] = "markdown"
                       /\ queue'[i].url \in Elements(PageLinks[q])
    <3>1. PICK e : e = queue'[i]
      OBVIOUS
    <3> QED BY <2>1, <3>1 DEF LeadsTo
  <2> QED BY <1>1, <2>2, <2>3 DEF QueueInv, LeadsTo
<1>13. VisitInv(deeper)'
  <2>1. ASSUME NEW p \in visited'
        PROVE  /\ deeper[p] <= h.depth /\ deeper[p] <= MaxDepth
               /\ LeadsTo(deeper, p, deeper[p])'
    <3>1. CASE p \in visited
      <4>1. depths[p] <= page.depth /\ depths[p] <= MaxDepth /\ LeadsTo(depths, p, depths[p])
        BY <1>2, <3>1 DEF VisitInv
      <4> QED BY <1>4, <1>5, <1>6, <1>8, <3>1, <4>1
    <3>2. CASE p \notin visited
      <4>1. p = h.url /\ deeper[p] = h.depth
        BY <1>1, <1>6, <3>2
      <4> QED BY <1>4, <1>8, <4>1
    <3> QED BY <3>1, <3>2
  <2>2. ASSUME NEW q \in visited', NEW p \in Permitted,
               outcome'[q] = "markdown", deeper[q] < MaxDepth, p \in Elements(PageLinks[q])
        PROVE  Reached(deeper, p, deeper[q] + 1)'
    <3>1. q \in visited
      BY <1>1, <1>4, <2>2 DEF CrawlInv, ItemsInv
    <3>2. Reached(depths, p, depths[q] + 1) /\ depths[q] + 1 \in Nat
      BY <1>1, <1>2, <1>5, <1>6, <2>2, <3>1 DEF VisitInv
    <3> QED BY <1>6, <1>9, <3>1, <3>2
  <2>3. Reached(deeper, StartPage, 0)'
    <3>1. Reached(depths, StartPage, 0)
      BY <1>1, <1>2 DEF VisitInv
    <3>2. StartPage \in Permitted
      BY <1>2, <3>1 DEF Reached, QueueInv, CrawlInv, CrawlTypes
    <3> QED BY <1>9, <3>1, <3>2
  <2>4. crawl' \in {"render", "task"} => h.url \in visited' /\ deeper[h.url] = h.depth
    BY <1>1, <1>6
  <2> QED BY <1>1, <2>1, <2>2, <2>3, <2>4 DEF VisitInv
<1> QED BY <1>10, <1>11, <1>12, <1>13 DEF CrawlInv, CrawlBooks

\* The page in hand yields Markdown: what it links to is queued after the rest.
LEMMA CrawlYields ==
  ASSUME CrawlInv, crawl \in {"render", "task"}, crawl' = "walk", Crawl!Yield,
         UNCHANGED <<visited, page, limited>>
  PROVE  CrawlInv'
<1>1. PICK new : new = Crawl!Joined[Len(Crawl!RawLinks)]
  OBVIOUS
<1>2. PICK u : u = page.url
  OBVIOUS
<1>3. /\ queue' = new /\ items' = items \cup {u}
      /\ outcome' = [outcome EXCEPT ![u] = "markdown"]
  BY <1>1, <1>2 DEF Crawl!Yield
<1>4. CrawlTypes /\ ItemsInv
  BY DEF CrawlInv
<1>5. PICK depths \in [Pages -> Nat] : QueueInv(depths) /\ VisitInv(depths)
  BY DEF CrawlInv, CrawlBooks
<1>6. page.depth \in Nat /\ visited \subseteq Pages /\ \A i \in DOMAIN queue : queue[i].depth \in Nat
  <2>1. page \in Entry /\ queue \in Seq(Entry) /\ visited \subseteq Pages
    BY <1>4, CrawlAssumption DEF CrawlTypes
  <2>2. \A i \in DOMAIN queue : queue[i] \in Entry
    BY <2>1
  <2> QED BY <2>1, <2>2 DEF Entry
<1>7. /\ JoinedBy(new)
      /\ \A p \in Permitted \ visited :
           page.depth < MaxDepth /\ p \in Elements(PageLinks[u])
           => \E i \in DOMAIN new : new[i].url = p /\ new[i].depth = page.depth + 1
  BY <1>1, <1>2, <1>4, JoinedLinks
<1>8. u \in visited /\ u \in Pages /\ depths[u] = page.depth /\ outcome[u] = "none"
  BY <1>2, <1>4, <1>5, <1>6 DEF VisitInv, ItemsInv
<1>9. /\ outcome' \in [Pages -> Crawl!Outcomes] /\ outcome'[u] = "markdown"
      /\ \A q \in Pages : q # u => outcome'[q] = outcome[q]
  BY <1>3, <1>4, <1>8 DEF CrawlTypes, Crawl!Outcomes
<1>10. \A p, d : LeadsTo(depths, p, d) => LeadsTo(depths, p, d)'
  BY <1>6, <1>8, <1>9 DEF LeadsTo
<1>11. \A i \in DOMAIN queue : i \in DOMAIN new /\ new[i] = queue[i]
  BY <1>4, <1>7 DEF CrawlTypes, JoinedBy
<1>12. \A p, d : Reached(depths, p, d) => Reached(depths, p, d)'
  BY <1>3, <1>11 DEF Reached
<1>13. CrawlTypes'
  BY <1>3, <1>4, <1>7, <1>9 DEF CrawlTypes, JoinedBy
<1>14. ItemsInv'
  <2>1. u \notin items /\ IsFiniteSet(items) /\ Cardinality(items) < MaxPages
    BY <1>2, <1>4, <1>8 DEF ItemsInv
  <2>2. IsFiniteSet(items') /\ Cardinality(items') = Cardinality(items) + 1
    BY <1>3, <2>1, FS_AddElement
  <2>3. Cardinality(items') <= MaxPages
    BY <2>1, <2>2, FS_CardinalityType, CrawlAssumption
  <2>4. items' = {p \in visited' : outcome'[p] = "markdown"}
    BY <1>3, <1>4, <1>6, <1>8, <1>9 DEF ItemsInv
  <2>5. \A p \in Pages \ visited' : outcome'[p] = "none"
    BY <1>4, <1>8, <1>9 DEF ItemsInv
  <2> QED BY <2>2, <2>3, <2>4, <2>5 DEF ItemsInv
<1>15. QueueInv(depths)'
  <2>1. ASSUME NEW i \in DOMAIN queue, NEW e, e = queue[i]
        PROVE  /\ e.url \in Permitted /\ e.depth <= MaxDepth
               /\ page.depth <= e.depth /\ e.depth <= page.depth + 1
               /\ LeadsTo(depths, e.url, e.depth)'
    BY <1>5, <1>10, <2>1 DEF QueueInv
  <2>2. ASSUME NEW i \in DOMAIN new, i \notin DOMAIN queue, NEW e, e = new[i]
        PROVE  /\ e.url \in Permitted /\ e.depth <= MaxDepth
               /\ page.depth <= e.depth /\ e.depth <= page.depth + 1
               /\ LeadsTo(depths, e.url, e.depth)'
    <3>1. /\ page.depth < MaxDepth /\ e.depth = page.depth + 1
          /\ e.url \in Permitted \ visited /\ e.url \in Elements(PageLinks[u])
      BY <1>2, <1>7, <2>2 DEF JoinedBy
    <3>2. LeadsTo(depths, e.url, e.depth)'
      BY <1>8, <1>9, <3>1 DEF LeadsTo
    <3> QED BY <1>6, <3>1, <3>2, CrawlAssumption
  <2>3. ASSUME NEW i \in DOMAIN queue'
        PROVE  /\ queue'[i].url \in Permitted /\ queue'[i].depth <= MaxDepth
               /\ page.depth <= queue'[i].depth /\ queue'[i].depth <= page.depth + 1
               /\ \/ queue'[i].url = StartPage /\ queue'[i].depth = 0
                  \/ \E q \in visited' :
                       /\ depths[q] + 1 = queue'[i].depth /\ outcome'[q] = "markdown"
                       /\ queue'[i].url \in Elements(PageLinks[q])
    <3>1. PICK e : e = new[i]
      OBVIOUS
    <3>2. LeadsTo(depths, e.url, e.depth)' /\ e.url \in Permitted /\ e.depth <= MaxDepth
          /\ page.depth <= e.depth /\ e.depth <= page.depth + 1
      BY <1>3, <1>11, <2>1, <2>2, <3>1
    <3> QED BY <1>3, <3>1, <3>2 DEF LeadsTo
  <2>4. ASSUME NEW i \in DOMAIN new, NEW j \in DOMAIN new, i < j
        PROVE  new[i].depth <= new[j].depth
    <3>1. i \in Nat /\ j \in Nat /\ i >= 1 /\ (j \in DOMAIN queue => i \in DOMAIN queue)
      BY <1>4, <1>7, <2>4 DEF CrawlTypes, JoinedBy
    <3>2. CASE j \in DOMAIN queue
      BY <1>5, <1>11, <2>4, <3>1, <3>2 DEF QueueInv
    <3>3. CASE j \notin DOMAIN queue /\ i \in DOMAIN queue
      <4>1. new[i].depth <= page.depth + 1
        BY <1>5, <1>11, <3>3 DEF QueueInv
      <4>2. new[j].depth = page.depth + 1
        BY <1>7, <3>3 DEF JoinedBy
      <4> QED BY <4>1, <4>2
    <3>4. CASE j \notin DOMAIN queue /\ i \notin DOMAIN queue
      <4>1. new[i].depth = page.depth + 1 /\ new[j].depth = page.depth + 1
        BY <1>7, <3>4 DEF JoinedBy
      <4> QED BY <1>6, <4>1
    <3> QED BY <3>2, <3>3, <3>4
  <2> QED BY <1>3, <2>3, <2>4 DEF QueueInv, LeadsTo
<1>16. VisitInv(depths)'
  <2>1. ASSUME NEW p \in visited
        PROVE  /\ depths[p] <= page.depth /\ depths[p] <= MaxDepth
               /\ LeadsTo(depths, p, depths[p])'
    BY <1>5, <1>10 DEF VisitInv
  <2>2. ASSUME NEW q \in visited, NEW p \in Permitted,
               outcome'[q] = "markdown", depths[q] < MaxDepth, p \in Elements(PageLinks[q])
        PROVE  Reached(depths, p, depths[q] + 1)'
    <3>1. CASE q # u
      <4>1. outcome[q] = "markdown"
        BY <1>6, <1>9, <2>2, <3>1
      <4> QED BY <1>5, <1>12, <2>2, <4>1 DEF VisitInv
    <3>2. CASE q = u /\ p \in visited
      <4>1. depths[p] \in Nat /\ depths[p] <= page.depth /\ depths[q] = page.depth
        BY <1>6, <1>8, <2>1, <3>2
      <4>2. depths[p] <= depths[q] + 1
        BY <1>6, <4>1
      <4> QED BY <3>2, <4>2 DEF Reached
    <3>3. CASE q = u /\ p \notin visited
      <4>1. PICK i \in DOMAIN new : new[i].url = p /\ new[i].depth = page.depth + 1
        BY <1>7, <1>8, <2>2, <3>3
      <4>2. new[i].depth <= depths[q] + 1
        BY <1>6, <1>8, <3>3, <4>1
      <4> QED BY <1>3, <4>1, <4>2 DEF Reached
    <3> QED BY <3>1, <3>2, <3>3
  <2>3. Reached(depths, StartPage, 0)'
    BY <1>5, <1>12 DEF VisitInv
  <2> QED BY <2>1, <2>2, <2>3 DEF VisitInv
<1> QED BY <1>13, <1>14, <1>15, <1>16 DEF CrawlInv, CrawlBooks

\* A page that fails or is empty leads nowhere.
LEMMA CrawlWastes ==
  ASSUME CrawlInv, crawl \in {"render", "task"}, crawl' = "walk", Crawl!Waste,
         UNCHANGED <<visited, page, limited>>
  PROVE  CrawlInv'
<1>1. PICK result \in {"empty", "error"} : outcome' = [outcome EXCEPT ![page.url] = result]
  BY DEF Crawl!Waste
<1>2. UNCHANGED <<queue, items>>
  BY DEF Crawl!Waste
<1>3. CrawlTypes /\ ItemsInv
  BY DEF CrawlInv
<1>4. PICK depths \in [Pages -> Nat] : QueueInv(depths) /\ VisitInv(depths)
  BY DEF CrawlInv, CrawlBooks
<1>5. visited \subseteq Pages /\ page.url \in visited /\ outcome[page.url] = "none"
  BY <1>3, <1>4, CrawlAssumption DEF CrawlTypes, VisitInv, ItemsInv
<1>6. /\ outcome' \in [Pages -> Crawl!Outcomes]
      /\ \A q \in Pages : outcome'[q] = "markdown" <=> outcome[q] = "markdown"
      /\ \A q \in Pages : q # page.url => outcome'[q] = outcome[q]
  BY <1>1, <1>3, <1>5 DEF CrawlTypes, Crawl!Outcomes
<1>7. CrawlTypes'
  BY <1>2, <1>3, <1>6 DEF CrawlTypes
<1>8. ItemsInv'
  <2>1. items' = {p \in visited' : outcome'[p] = "markdown"}
    BY <1>2, <1>3, <1>5, <1>6 DEF ItemsInv
  <2>2. \A p \in Pages \ visited' : outcome'[p] = "none"
    BY <1>3, <1>5, <1>6 DEF ItemsInv
  <2> QED BY <1>2, <1>3, <2>1, <2>2 DEF ItemsInv
<1>9. QueueInv(depths)'
  BY <1>2, <1>4, <1>5, <1>6 DEF QueueInv, LeadsTo
<1>10. VisitInv(depths)'
  BY <1>2, <1>4, <1>5, <1>6 DEF VisitInv, LeadsTo, Reached
<1> QED BY <1>7, <1>8, <1>9, <1>10 DEF CrawlInv, CrawlBooks

\* Every other step leaves the books alone.
LEMMA CrawlNext ==
  ASSUME CrawlInv, Crawl!Next \/ UNCHANGED crawlVars
  PROVE  CrawlInv'
<1>1. CASE Crawl!StartCrawl
  BY <1>1, CrawlStarts
<1>2. CASE Crawl!Visit
  BY <1>2, CrawlVisits
<1>3. CASE Crawl!Render \/ Crawl!Poll
  <2>1. crawl \in {"render", "task"} /\ UNCHANGED <<visited, page, limited>>
    BY <1>3 DEF Crawl!Render, Crawl!Poll
  <2>2. CASE crawl' = "walk" /\ Crawl!Yield
    BY <2>1, <2>2, CrawlYields
  <2>3. CASE crawl' = "walk" /\ Crawl!Waste
    BY <2>1, <2>3, CrawlWastes
  <2>4. CASE crawl' = "task" /\ UNCHANGED <<queue, items, outcome>>
    <3>1. CrawlTypes' /\ ItemsInv'
      BY <2>1, <2>4 DEF CrawlInv, CrawlTypes, ItemsInv
    <3>2. PICK depths \in [Pages -> Nat] : QueueInv(depths) /\ VisitInv(depths)
      BY <2>1 DEF CrawlInv, CrawlBooks
    <3>3. QueueInv(depths)' /\ VisitInv(depths)'
      BY <2>1, <2>4, <3>2 DEF QueueInv, VisitInv, LeadsTo, Reached
    <3> QED BY <3>1, <3>3 DEF CrawlInv, CrawlBooks
  <2> QED BY <1>3, <2>2, <2>3, <2>4 DEF Crawl!Render, Crawl!Poll
<1>4. CASE Crawl!BreakOff
  BY <1>4 DEF Crawl!BreakOff, CrawlInv, CrawlTypes
<1>5. CASE Crawl!EndCrawl
  <2>1. /\ crawl = "walk" /\ crawl' = "ended" /\ limited' = (queue # <<>>)
        /\ UNCHANGED <<queue, visited, page, outcome, items>>
    BY <1>5 DEF Crawl!EndCrawl
  <2>2. CrawlTypes' /\ ItemsInv'
    BY <2>1 DEF CrawlInv, CrawlTypes, ItemsInv
  <2>3. PICK depths \in [Pages -> Nat] : QueueInv(depths) /\ VisitInv(depths)
    BY <2>1 DEF CrawlInv, CrawlBooks
  <2>4. QueueInv(depths)' /\ VisitInv(depths)'
    BY <2>1, <2>3 DEF QueueInv, VisitInv, LeadsTo, Reached
  <2> QED BY <2>2, <2>4 DEF CrawlInv, CrawlBooks
<1>6. CASE UNCHANGED crawlVars
  BY <1>6 DEF crawlVars, CrawlInv, CrawlTypes, ItemsInv, CrawlBooks, QueueInv, VisitInv,
              LeadsTo, Reached
<1> QED BY <1>1, <1>2, <1>3, <1>4, <1>5, <1>6 DEF Crawl!Next

\* The pages within a distance of the start, as the property counts them.
LEMMA WithinSteps ==
  ASSUME StartPage \in Permitted
  PROVE  /\ Crawl!Within[0] = {StartPage}
         /\ \A d \in 0 .. MaxDepth - 1 :
              Crawl!Within[d + 1] = Crawl!Within[d] \cup
                {p \in Permitted : \E q \in Crawl!Within[d] :
                   outcome[q] = "markdown" /\ p \in Elements(PageLinks[q])}
         /\ \A d \in 0 .. MaxDepth : Crawl!Within[d] \subseteq Permitted
<1> DEFINE W == Crawl!Within
           leads == {l \in Permitted \X Permitted :
                       outcome[l[1]] = "markdown" /\ l[2] \in Crawl!ToSet(PageLinks[l[1]])}
           Further(set) == set \cup {p \in Permitted : \E q \in set :
                              outcome[q] = "markdown" /\ p \in Crawl!ToSet(PageLinks[q])}
<1>1. ASSUME NEW set \in SUBSET Permitted
      PROVE  Further(set) = set \cup {y \in Permitted : \E x \in set : <<x, y>> \in leads}
  OBVIOUS
<1>2. PICK g : Layers(g, MaxDepth, {StartPage}, Permitted, leads)
  BY LayersExist, CrawlAssumption
<1> HIDE DEF leads
<1>3. ASSUME NEW d \in 0 .. MaxDepth
      PROVE  g[d] = IF d = 0 THEN {StartPage} ELSE Further(g[d - 1])
  <2>1. CASE d = 0
    BY <1>2, <2>1 DEF Layers
  <2>2. CASE d # 0
    <3>1. d - 1 \in 0 .. MaxDepth
      BY <2>2, CrawlAssumption
    <3>2. g[d - 1] \in SUBSET Permitted
      BY <1>2, <3>1 DEF Layers
    <3>3. g[d] = g[d - 1] \cup {y \in Permitted : \E x \in g[d - 1] : <<x, y>> \in leads}
      BY <1>2, <2>2 DEF Layers
    <3>4. g[d] = Further(g[d - 1])
      BY <1>1, <3>2, <3>3
    <3> QED BY <2>2, <3>4
  <2> QED BY <2>1, <2>2
<1>4. g \in [0 .. MaxDepth -> SUBSET Permitted]
  BY <1>2 DEF Layers
<1> HIDE DEF Further
<1>5. g = [d \in 0 .. MaxDepth |-> IF d = 0 THEN {StartPage} ELSE Further(g[d - 1])]
  BY <1>3, <1>4
<1>6. \E f : f = [d \in 0 .. MaxDepth |->
              IF d = 0 THEN {StartPage}
              ELSE f[d - 1] \cup {p \in Permitted : \E q \in f[d - 1] :
                     outcome[q] = "markdown" /\ p \in Crawl!ToSet(PageLinks[q])}]
  BY Zenon, <1>5 DEF Further
<1>7. W = [d \in 0 .. MaxDepth |->
              IF d = 0 THEN {StartPage}
              ELSE W[d - 1] \cup {p \in Permitted : \E q \in W[d - 1] :
                     outcome[q] = "markdown" /\ p \in Crawl!ToSet(PageLinks[q])}]
  BY Zenon, <1>6 DEF Crawl!Within
<1>8. W = [d \in 0 .. MaxDepth |-> IF d = 0 THEN {StartPage} ELSE Further(W[d - 1])]
  BY Zenon, <1>7 DEF Further
<1> HIDE DEF W
<1>9. W[0] = {StartPage} /\ \A d \in 0 .. MaxDepth - 1 : W[d + 1] = Further(W[d])
  <2>1. 0 \in 0 .. MaxDepth
    BY CrawlAssumption
  <2>2. \A d \in 0 .. MaxDepth - 1 : d + 1 \in 0 .. MaxDepth /\ d + 1 # 0 /\ (d + 1) - 1 = d
    BY CrawlAssumption
  <2> QED BY <1>8, <2>1, <2>2
<1>10. ASSUME NEW d \in 0 .. MaxDepth PROVE W[d] \subseteq Permitted
  <2> DEFINE S == {k \in 0 .. d : W[k] \subseteq Permitted}
  <2>1. 0 \in S /\ S \in SUBSET (0 .. d) /\ d \in Nat
    BY <1>9
  <2>2. ASSUME NEW k \in S, k < d PROVE k + 1 \in S
    <3>1. k \in 0 .. MaxDepth - 1 /\ k + 1 \in 0 .. d
      BY <2>2, CrawlAssumption
    <3>2. W[k + 1] = Further(W[k]) /\ W[k] \subseteq Permitted
      BY <1>9, <3>1
    <3>3. W[k + 1] \subseteq Permitted
      BY <3>2 DEF Further
    <3> QED BY <3>1, <3>3
  <2> HIDE DEF S
  <2>3. d \in S
    BY <2>1, <2>2, Climb
  <2> QED BY <2>3 DEF S
<1>11. \A s : Crawl!ToSet(s) = Elements(s)
  BY DEF Crawl!ToSet, Elements
<1>12. \A d \in 0 .. MaxDepth - 1 :
         W[d + 1] = W[d] \cup {p \in Permitted : \E q \in W[d] :
                      outcome[q] = "markdown" /\ p \in Elements(PageLinks[q])}
  BY Zenon, <1>9, <1>11 DEF Further
<1> QED BY <1>9, <1>10, <1>12 DEF W

\* A walk that is over visited what is within its depth.
LEMMA CrawlGoal ==
  ASSUME CrawlInv
  PROVE  Crawl!CrawlIsComplete
<1> SUFFICES ASSUME crawl = "ended" PROVE Crawl!CrawlIsComplete
  BY DEF Crawl!CrawlIsComplete
<1>1. CrawlTypes /\ ItemsInv
  BY DEF CrawlInv
<1>2. PICK depths \in [Pages -> Nat] : QueueInv(depths) /\ VisitInv(depths)
  BY DEF CrawlInv, CrawlBooks
<1>3. visited \subseteq Permitted /\ visited \subseteq Pages
  BY <1>1, CrawlAssumption DEF CrawlTypes
<1>4. Reached(depths, StartPage, 0)
  BY <1>2 DEF VisitInv
<1>5. StartPage \in Permitted
  BY <1>2, <1>3, <1>4 DEF Reached, QueueInv
<1> DEFINE W == Crawl!Within
<1>6. /\ W[0] = {StartPage}
      /\ \A d \in 0 .. MaxDepth - 1 :
           W[d + 1] = W[d] \cup {p \in Permitted : \E q \in W[d] :
                        outcome[q] = "markdown" /\ p \in Elements(PageLinks[q])}
      /\ W[MaxDepth] \subseteq Permitted
  <2>1. MaxDepth \in 0 .. MaxDepth
    BY CrawlAssumption
  <2> QED BY <1>5, <2>1, WithinSteps
<1> HIDE DEF W
<1>7. \A p \in visited : depths[p] \in Nat /\ depths[p] <= MaxDepth /\ LeadsTo(depths, p, depths[p])
  BY <1>2, <1>3 DEF VisitInv
<1>8. visited \subseteq W[MaxDepth]
  <2> DEFINE S == {k \in 0 .. MaxDepth : \A p \in visited : depths[p] <= k => p \in W[k]}
  <2>1. 0 \in S
    <3>1. ASSUME NEW p \in visited, depths[p] <= 0 PROVE p \in W[0]
      <4>1. depths[p] = 0 /\ LeadsTo(depths, p, 0)
        BY <1>7, <3>1
      <4>2. \A q \in visited : depths[q] + 1 # 0
        BY <1>7
      <4> QED BY <1>6, <4>1, <4>2 DEF LeadsTo
    <3> QED BY <3>1, CrawlAssumption
  <2>2. ASSUME NEW k \in S, k < MaxDepth PROVE k + 1 \in S
    <3>1. k \in 0 .. MaxDepth - 1 /\ k + 1 \in 0 .. MaxDepth /\ k \in Nat
      BY <2>2, CrawlAssumption
    <3>2. \A p \in visited : depths[p] <= k => p \in W[k]
      OBVIOUS
    <3>3. ASSUME NEW p \in visited, depths[p] <= k + 1 PROVE p \in W[k + 1]
      <4>1. CASE depths[p] <= k
        BY <1>6, <3>1, <3>2, <4>1
      <4>2. CASE depths[p] = k + 1
        <5>1. PICK q \in visited : /\ depths[q] + 1 = k + 1 /\ outcome[q] = "markdown"
                                   /\ p \in Elements(PageLinks[q])
          BY <1>7, <3>1, <4>2 DEF LeadsTo
        <5>2. depths[q] <= k
          BY <1>7, <3>1, <5>1
        <5>3. q \in W[k] /\ p \in Permitted
          BY <1>3, <3>2, <5>2
        <5> QED BY <1>6, <3>1, <5>1, <5>3
      <4> QED BY <1>7, <3>1, <3>3, <4>1, <4>2
    <3> QED BY <3>1, <3>3
  <2>3. S \in SUBSET (0 .. MaxDepth)
    OBVIOUS
  <2> HIDE DEF S
  <2>4. MaxDepth \in S
    BY <2>1, <2>2, <2>3, Climb, CrawlAssumption
  <2> QED BY <1>7, <2>4 DEF S
<1>9. ASSUME ~limited PROVE W[MaxDepth] \subseteq visited
  <2>1. queue = <<>>
    BY <1>1, <1>9 DEF ItemsInv
  <2>2. \A p, d : Reached(depths, p, d) => p \in visited /\ depths[p] <= d
    BY <2>1 DEF Reached
  <2> DEFINE S == {k \in 0 .. MaxDepth : \A p \in W[k] : p \in visited /\ depths[p] <= k}
  <2>3. 0 \in S
    BY <1>4, <1>6, <2>2, CrawlAssumption
  <2>4. ASSUME NEW k \in S, k < MaxDepth PROVE k + 1 \in S
    <3>1. k \in 0 .. MaxDepth - 1 /\ k + 1 \in 0 .. MaxDepth /\ k \in Nat
      BY <2>4, CrawlAssumption
    <3>2. \A p \in W[k] : p \in visited /\ depths[p] <= k
      OBVIOUS
    <3>3. ASSUME NEW p \in W[k + 1] PROVE p \in visited /\ depths[p] <= k + 1
      <4>1. CASE p \in W[k]
        BY <1>7, <3>1, <3>2, <4>1
      <4>2. CASE p \notin W[k]
        <5>1. p \in Permitted /\ \E q \in W[k] : outcome[q] = "markdown" /\ p \in Elements(PageLinks[q])
          BY <1>6, <3>1, <3>3, <4>2
        <5>2. PICK q \in W[k] : outcome[q] = "markdown" /\ p \in Elements(PageLinks[q])
          BY <5>1
        <5>3. q \in visited /\ depths[q] \in Nat /\ depths[q] <= k /\ depths[q] < MaxDepth
          BY <1>7, <2>4, <3>1, <3>2, <5>2, CrawlAssumption
        <5>4. p \in visited /\ depths[p] <= depths[q] + 1
          BY <1>2, <2>2, <5>1, <5>2, <5>3 DEF VisitInv
        <5> QED BY <1>7, <3>1, <5>3, <5>4
      <4> QED BY <4>1, <4>2
    <3> QED BY <3>1, <3>3
  <2>5. S \in SUBSET (0 .. MaxDepth)
    OBVIOUS
  <2> HIDE DEF S
  <2>6. MaxDepth \in S
    BY <2>3, <2>4, <2>5, Climb, CrawlAssumption
  <2> QED BY <2>6 DEF S
<1>10. Crawl!Cardinality(items) <= MaxPages
  BY <1>1, CrawlCounts DEF ItemsInv
<1>11. items = {p \in visited : outcome[p] = "markdown"}
  BY <1>1 DEF ItemsInv
<1> QED BY <1>6, <1>8, <1>9, <1>10, <1>11 DEF Crawl!CrawlIsComplete, W

\* For every web of pages and whatever they answer: a walk that ends without the
\* warning about the page limit visited every page within the depth, and its items
\* are those that yielded Markdown.
THEOREM CrawlFindsEverything == Spec => []CrawlIsComplete
<1>1. Init => (On("crawl") => CrawlInv)
  BY CrawlInit DEF Init, On
<1>2. (On("crawl") => CrawlInv) /\ [Next]_vars => (On("crawl") => CrawlInv)'
  <2> SUFFICES ASSUME On("crawl") => CrawlInv, [Next]_vars, On("crawl")'
               PROVE  CrawlInv'
    OBVIOUS
  <2>1. On("crawl") /\ (Crawl!Next \/ UNCHANGED crawlVars)
    BY OnePart DEF On
  <2> QED BY <2>1, CrawlNext
<1>3. (On("crawl") => CrawlInv) => CrawlIsComplete
  BY CrawlGoal DEF CrawlIsComplete
<1> QED BY <1>1, <1>2, <1>3, PTL DEF Spec

-----------------------------------------------------------------------------
(* The capture of a page.                                                  *)

\* What AddressesAreAccepted rests on: Arrive leaves a page to compile only after
\* its address was called, and Capture falls back on that address.
FetchInv ==
  /\ \A url \in contacted : Fetch!Accepts(url)
  /\ fetch = "compile" => Fetch!Accepts(current)
  /\ fetch = "captured" => Fetch!Accepts(canonical)

\* Whatever ends the robots file, the page is not compiled yet.
LEMMA GiveUpIsSafe ==
  ASSUME fetch \in {"robots", "page"}, Fetch!GiveUp
  PROVE  fetch' \in {"page", "refused"}
BY DEF Fetch!GiveUp, Fetch!RobotsEnds, Fetch!TurnToPage

\* Each step keeps the invariant, whatever the site answers.
LEMMA FetchStepKeeps ==
  ASSUME FetchInv, Fetch!Next \/ UNCHANGED fetchVars
  PROVE  FetchInv'
<1>1. CASE Fetch!BeginFetch
  BY <1>1 DEF FetchInv, Fetch!BeginFetch, Fetch!Accepts, Fetch!Port
<1>2. CASE Fetch!Refuse
  <2>1. fetch' \in {"page", "refused"} /\ UNCHANGED contacted
    BY <1>2, GiveUpIsSafe DEF Fetch!Refuse, Fetch!Fetching
  <2> QED BY <2>1 DEF FetchInv, Fetch!Accepts, Fetch!Port
<1>3. CASE Fetch!Follow
  BY <1>3 DEF FetchInv, Fetch!Follow, Fetch!Calling, Fetch!Fetching, Fetch!Accepts, Fetch!Port
<1>4. CASE Fetch!Arrive
  <2>1. \A url \in contacted' : Fetch!Accepts(url)
    BY <1>4 DEF FetchInv, Fetch!Arrive, Fetch!Calling
  <2>2. \/ fetch' = "compile" /\ current' = current /\ Fetch!Accepts(current)
        \/ fetch' \in {"page", "refused"}
    BY <1>4, GiveUpIsSafe
       DEF Fetch!Arrive, Fetch!Calling, Fetch!Fetching, Fetch!RobotsEnds, Fetch!TurnToPage
  <2> QED BY <2>1, <2>2 DEF FetchInv, Fetch!Accepts, Fetch!Port
<1>5. CASE Fetch!Capture
  BY <1>5 DEF FetchInv, Fetch!Capture, Fetch!Accepts, Fetch!Port
<1>6. CASE UNCHANGED fetchVars
  BY <1>6 DEF FetchInv, fetchVars, Fetch!Accepts, Fetch!Port
<1> QED
  BY <1>1, <1>2, <1>3, <1>4, <1>5, <1>6 DEF Fetch!Next

\* Every address that a capture calls or records is one WebUrlPolicy accepts, for
\* all redirects and canonical links, all policies and any limit.
THEOREM NothingEscapesThePolicy == Spec => []AddressesAreAccepted
<1>1. Init => (On("fetch") => FetchInv)
  BY DEF Init, On, Fetch!Init, FetchInv
<1>2. (On("fetch") => FetchInv) /\ [Next]_vars => (On("fetch") => FetchInv)'
  <2> SUFFICES ASSUME On("fetch") => FetchInv, [Next]_vars, On("fetch")'
               PROVE  FetchInv'
    OBVIOUS
  <2> QED BY OnePart, FetchStepKeeps DEF On
<1>3. (On("fetch") => FetchInv) => AddressesAreAccepted
  BY DEF FetchInv, AddressesAreAccepted, Fetch!AddressesAreAccepted
<1> QED BY <1>1, <1>2, <1>3, PTL DEF Spec

-----------------------------------------------------------------------------
(* Drive import.                                                           *)

Things == Folders \cup Files \cup Shortcuts
Found == [from : Folders, file : Files]

\* What became of a child of a folder that was read.
Settled(f, c) ==
  IF c \in Folders THEN Recursive => c \in opened \cup Elements(folders)
  ELSE c \in skipped \/ [from |-> f, file |-> c] \in Elements(fetched)

\* Every child of an opened folder is settled, those of the folder in hand when
\* they were looked at; none of those that were not was collected from it.
DriveInv ==
  /\ folders \in Seq(Folders) /\ opened \subseteq Folders
  /\ fetched \in Seq(Found) /\ Len(fetched) <= MaxFiles /\ Once(fetched)
  /\ \A x \in Elements(fetched) : x.from \in opened
  /\ drive \in {"idle", "walk", "folder", "ended", "failed"}
  /\ drive = "idle" => opened = {}
  /\ drive = "folder" =>
       /\ folder \in opened /\ children \in Seq(Things) /\ Once(children)
       /\ \A x \in Elements(fetched) : x.from = folder => x.file \notin Elements(children)
  /\ Len(fetched) < MaxFiles /\ drive \in {"walk", "folder", "ended"} =>
       /\ Root \in opened \cup Elements(folders)
       /\ \A f \in opened, c \in Things : c \in Elements(Children[f]) =>
             Settled(f, c) \/ (drive = "folder" /\ f = folder /\ c \in Elements(children))
       /\ drive = "ended" => folders = <<>>

\* What is settled stays so.
LEMMA SettledStays ==
  ASSUME skipped \subseteq skipped', Elements(fetched) \subseteq Elements(fetched'),
         opened \cup Elements(folders) \subseteq opened' \cup Elements(folders')
  PROVE  \A f, c : Settled(f, c) => Settled(f, c)'
BY DEF Settled, Elements

\* The request opens the requested folder.
LEMMA DriveStarts ==
  ASSUME DriveInv, Drive!StartDrive
  PROVE  DriveInv'
<1>1. /\ drive = "idle" /\ UNCHANGED <<opened, folder, children, fetched, skipped, stopped>>
      /\ \/ drive' = "walk" /\ folders' = <<Root>>
         \/ drive' = "failed" /\ UNCHANGED folders
  BY DEF Drive!StartDrive
<1>2. CASE drive' = "walk" /\ folders' = <<Root>>
  <2>1. folders' \in Seq(Folders) /\ Root \in Elements(folders')
    BY <1>2, DriveAssumption DEF Elements
  <2> QED BY <1>1, <1>2, <2>1 DEF DriveInv, Elements
<1>3. CASE drive' = "failed" /\ UNCHANGED folders
  BY <1>1, <1>3 DEF DriveInv, Elements
<1> QED BY <1>1, <1>2, <1>3

\* The next folder of the queue: its children are all still to be looked at.
LEMMA DriveOpens ==
  ASSUME DriveInv, Drive!OpenFolder
  PROVE  DriveInv'
<1> DEFINE f == Head(folders)
<1>1. /\ drive = "walk" /\ folders # <<>> /\ f \notin opened
      /\ folders' = Tail(folders) /\ opened' = opened \cup {f} /\ folder' = f
      /\ \/ drive' = "folder" /\ children' = Children[f] /\ fetched' = fetched
         \/ drive' = "failed" /\ fetched' = <<>>
      /\ skipped' = skipped
  BY DEF Drive!OpenFolder, Drive!WalkingDrive
<1>2. /\ f \in Folders /\ folders' \in Seq(Folders)
      /\ Elements(folders) = {f} \cup Elements(folders')
  BY <1>1, HeadOff DEF DriveInv
<1> HIDE DEF f
<1>3. opened' \cup Elements(folders') = opened \cup Elements(folders)
  BY <1>1, <1>2
<1>4. CASE drive' = "failed" /\ fetched' = <<>>
  <2>1. fetched' \in Seq(Found) /\ Len(fetched') = 0 /\ Elements(fetched') = {} /\ Once(fetched')
    BY <1>4 DEF Elements, Once
  <2> QED BY <1>1, <1>2, <1>4, <2>1, DriveAssumption DEF DriveInv, Elements, Once
<1>5. CASE drive' = "folder" /\ children' = Children[f] /\ fetched' = fetched
  <2>1. children' \in Seq(Things) /\ Once(children')
    BY <1>2, <1>5, DriveAssumption DEF Things, Once
  <2>2. \A x \in Elements(fetched') : x.from \in opened' /\ x.from # folder'
    BY <1>1, <1>5 DEF DriveInv, Elements
  <2>3. \A g, c : Settled(g, c) => Settled(g, c)'
    BY <1>1, <1>3, <1>5, SettledStays
  <2>4. ASSUME NEW g \in opened', NEW c \in Things, c \in Elements(Children[g]), Len(fetched') < MaxFiles
        PROVE  Settled(g, c)' \/ (drive' = "folder" /\ g = folder' /\ c \in Elements(children'))
    <3>1. CASE g = f
      BY <1>1, <1>5, <2>4, <3>1
    <3>2. CASE g # f
      <4>1. Settled(g, c)
        BY <1>1, <1>5, <2>4, <3>2 DEF DriveInv
      <4> QED BY <2>3, <4>1
    <3> QED BY <3>1, <3>2
  <2>5. Len(fetched') < MaxFiles => Root \in opened' \cup Elements(folders')
    BY <1>1, <1>3, <1>5 DEF DriveInv
  <2>6. fetched' \in Seq(Found) /\ Len(fetched') <= MaxFiles /\ Once(fetched')
    BY <1>5 DEF DriveInv
  <2>7. opened' \subseteq Folders /\ folder' \in opened'
    BY <1>1, <1>2 DEF DriveInv
  <2> QED BY <1>2, <1>5, <2>1, <2>2, <2>4, <2>5, <2>6, <2>7 DEF DriveInv, Elements, Once
<1> QED BY <1>1, <1>4, <1>5

\* A folder that was opened is passed over, the folder in hand is closed, or the
\* walk ends: nothing is settled anew.
LEMMA DrivePasses ==
  ASSUME DriveInv, Drive!SkipOpened \/ Drive!CloseFolder \/ Drive!EndDrive
  PROVE  DriveInv'
<1>1. CASE Drive!SkipOpened
  <2>1. /\ drive = "walk" /\ folders # <<>> /\ Head(folders) \in opened /\ folders' = Tail(folders)
        /\ UNCHANGED <<drive, opened, folder, children, fetched, skipped>>
    BY <1>1 DEF Drive!SkipOpened, Drive!WalkingDrive
  <2>2. folders' \in Seq(Folders) /\ Elements(folders) = {Head(folders)} \cup Elements(folders')
    BY <2>1, HeadOff DEF DriveInv
  <2>3. opened \cup Elements(folders) = opened' \cup Elements(folders')
    BY <2>1, <2>2
  <2>4. \A f, c : Settled(f, c) => Settled(f, c)'
    BY <2>1, <2>3, SettledStays
  <2>5. Elements(folders)' = Elements(folders') /\ Elements(fetched)' = Elements(fetched)
    BY <2>1 DEF Elements
  <2> QED BY <2>1, <2>2, <2>3, <2>4, <2>5 DEF DriveInv, Once
<1>2. CASE Drive!CloseFolder \/ Drive!EndDrive
  <2>1. /\ UNCHANGED <<folders, opened, folder, fetched, skipped>>
        /\ \/ drive = "folder" /\ drive' = "walk" /\ (children = <<>> \/ Len(fetched) >= MaxFiles)
           \/ drive = "walk" /\ drive' = "ended" /\ (folders = <<>> \/ Len(fetched) >= MaxFiles)
    <3>1. Len(fetched) \in Nat /\ MaxFiles \in Nat
      BY DriveAssumption DEF DriveInv
    <3> QED BY <1>2, <3>1 DEF Drive!CloseFolder, Drive!EndDrive, Drive!Reading, Drive!WalkingDrive
  <2>2. \A f, c : Settled(f, c) <=> Settled(f, c)'
    BY <2>1 DEF Settled, Elements
  <2>3. children = <<>> => Elements(children) = {}
    BY DEF Elements
  <2>4. Elements(folders)' = Elements(folders) /\ Elements(fetched)' = Elements(fetched) /\ Len(fetched) \in Nat
    BY <2>1 DEF Elements, DriveInv
  <2>5. \A f \in opened', c \in Things : Len(fetched') < MaxFiles /\ c \in Elements(Children[f]) => Settled(f, c)'
    BY <2>1, <2>2, <2>3, <2>4, DriveAssumption DEF DriveInv
  <2> QED BY <2>1, <2>4, <2>5, DriveAssumption DEF DriveInv, Once
<1> QED BY <1>1, <1>2

\* A child is queued, warned about, or collected, or the request ends.
LEMMA DriveReads ==
  ASSUME DriveInv, Drive!QueueFolder \/ Drive!SkipShortcut \/ Drive!Download
  PROVE  DriveInv'
<1>0. PICK c : c = Head(children)
  OBVIOUS
<1> DEFINE item == [from |-> folder, file |-> c]
<1>1. /\ drive = "folder" /\ children # <<>> /\ Len(fetched) < MaxFiles
      /\ children' = Tail(children) /\ UNCHANGED <<opened, folder>>
  BY DEF Drive!QueueFolder, Drive!SkipShortcut, Drive!Download, Drive!Reading
<1>2. /\ c \in Things /\ children' \in Seq(Things) /\ Once(children') /\ c \notin Elements(children')
      /\ Elements(children) = {c} \cup Elements(children')
  BY <1>0, <1>1, HeadOff DEF DriveInv
<1>3. folder \in opened /\ folder \in Folders /\ Len(fetched) \in Nat
  BY <1>1 DEF DriveInv
<1>4. item.from = folder /\ item.file = c /\ (c \in Files => item \in Found)
  BY <1>3 DEF Found
<1>5. /\ folders' \in Seq(Folders) /\ skipped \subseteq skipped'
      /\ Elements(folders) \subseteq Elements(folders')
      /\ \/ fetched' = fetched /\ drive' = drive
         \/ fetched' = Append(fetched, item) /\ drive' = drive /\ c \in Files
         \/ fetched' = <<>> /\ drive' = "failed"
      /\ drive' = drive =>
            IF c \in Folders THEN Recursive => c \in Elements(folders')
            ELSE c \in skipped' \/ fetched' = Append(fetched, item)
  <2>1. CASE Drive!QueueFolder
    <3>1. /\ c \in Folders /\ UNCHANGED <<drive, fetched, skipped>>
          /\ folders' = IF Recursive THEN Append(folders, c) ELSE folders
      BY <1>0, <2>1 DEF Drive!QueueFolder
    <3>2. Elements(Append(folders, c)) = Elements(folders) \cup {c} /\ Append(folders, c) \in Seq(Folders)
      BY <3>1, OneMore DEF DriveInv
    <3> QED BY <3>1, <3>2 DEF DriveInv
  <2>2. CASE Drive!SkipShortcut
    <3>1. c \notin Folders /\ UNCHANGED <<drive, fetched, folders>> /\ skipped' = skipped \cup {c}
      BY <1>0, <2>2, DriveAssumption DEF Drive!SkipShortcut
    <3> HIDE DEF item
    <3> QED BY <3>1 DEF DriveInv, Elements
  <2>3. CASE Drive!Download
    <3>1. /\ c \notin Folders /\ c \in Files /\ UNCHANGED folders
          /\ \/ fetched' = Append(fetched, item) /\ UNCHANGED <<drive, skipped>>
             \/ skipped' = skipped \cup {c} /\ UNCHANGED <<drive, fetched>>
             \/ drive' = "failed" /\ fetched' = <<>> /\ UNCHANGED skipped
      BY <1>0, <2>3, DriveAssumption DEF Drive!Download
    <3> HIDE DEF item
    <3> QED BY <1>1, <3>1 DEF DriveInv, Elements
  <2> QED BY <2>1, <2>2, <2>3
<1> HIDE DEF item
<1>6. CASE fetched' = <<>> /\ drive' = "failed"
  <2>1. fetched' \in Seq(Found) /\ Len(fetched') = 0 /\ Elements(fetched') = {} /\ Once(fetched')
    BY <1>6 DEF Elements, Once
  <2> QED BY <1>1, <1>5, <1>6, <2>1, DriveAssumption DEF DriveInv, Elements, Once
<1>7. CASE drive' = drive
  <2>1. /\ fetched' \in Seq(Found) /\ Len(fetched') <= MaxFiles /\ Once(fetched')
        /\ Elements(fetched) \subseteq Elements(fetched')
        /\ \A x \in Elements(fetched') : x \in Elements(fetched) \/ x = item
        /\ fetched' = Append(fetched, item) => item \in Elements(fetched')
    <3>1. CASE fetched' = fetched
      <4>1. fetched' # Append(fetched, item)
        <5>1. fetched \in Seq(Found)
          BY DEF DriveInv
        <5>2. CASE item \in Found
          <6>1. Len(Append(fetched, item)) = Len(fetched) + 1
            BY <5>1, <5>2, OneMore
          <6> QED BY <1>3, <3>1, <6>1
        <5>3. CASE item \notin Found
          BY <5>1, <5>3, <3>1, <1>3
        <5> QED BY <5>2, <5>3
      <4> QED BY <3>1, <4>1 DEF DriveInv
    <3>2. CASE fetched' = Append(fetched, item) /\ c \in Files
      <4>1. item \in Found /\ item \notin Elements(fetched)
        BY <1>1, <1>2, <1>4, <3>2 DEF DriveInv
      <4>2. /\ fetched' \in Seq(Found) /\ Len(fetched') = Len(fetched) + 1
            /\ Elements(fetched') = Elements(fetched) \cup {item} /\ Once(fetched')
        BY <3>2, <4>1, OneMore DEF DriveInv
      <4> QED BY <1>1, <1>3, <4>2, DriveAssumption
    <3> QED BY <1>1, <1>5, <1>7, <3>1, <3>2
  <2>2. \A x \in Elements(fetched') : x.from \in opened'
    BY <1>1, <1>3, <1>4, <2>1 DEF DriveInv
  <2>3. \A x \in Elements(fetched') : x.from = folder' => x.file \notin Elements(children')
    BY <1>1, <1>2, <1>4, <2>1 DEF DriveInv
  <2>4. \A f, d : Settled(f, d) => Settled(f, d)'
    BY <1>1, <1>5, <2>1, SettledStays
  <2>5. ASSUME NEW g, g = folder PROVE Settled(g, c)'
    <3>1. CASE c \in Folders
      BY <1>5, <1>7, <3>1 DEF Settled, Elements
    <3>2. CASE c \notin Folders
      <4>1. c \in skipped' \/ item \in Elements(fetched')
        BY <1>5, <1>7, <2>1, <3>2
      <4> QED BY <2>5, <3>2, <4>1 DEF Settled, Elements, item
    <3> QED BY <3>1, <3>2
  <2>6. \A f \in opened', d \in Things : d \in Elements(Children[f]) =>
           Settled(f, d)' \/ (drive' = "folder" /\ f = folder' /\ d \in Elements(children'))
    <3> SUFFICES ASSUME NEW f \in opened, NEW d \in Things, d \in Elements(Children[f])
                 PROVE  Settled(f, d)' \/ (f = folder /\ d \in Elements(children'))
      BY <1>1, <1>7
    <3>1. Settled(f, d) \/ (f = folder /\ d \in Elements(children))
      BY <1>1 DEF DriveInv
    <3> QED BY <1>2, <2>4, <2>5, <3>1
  <2>7. Root \in opened' \cup Elements(folders')
    BY <1>1, <1>5 DEF DriveInv
  <2>8. opened' \subseteq Folders /\ folder' \in opened'
    BY <1>1, <1>3 DEF DriveInv
  <2> QED BY <1>1, <1>2, <1>5, <1>7, <2>1, <2>2, <2>3, <2>6, <2>7, <2>8 DEF DriveInv, Elements, Once
<1> QED BY <1>1, <1>5, <1>6, <1>7

\* Every step of the import keeps the books.
LEMMA DriveNext ==
  ASSUME DriveInv, Drive!Next \/ UNCHANGED driveVars
  PROVE  DriveInv'
<1>1. CASE UNCHANGED driveVars
  BY <1>1 DEF driveVars, DriveInv, Settled, Elements, Once
<1> QED BY <1>1, DriveStarts, DriveOpens, DrivePasses, DriveReads DEF Drive!Next

\* The module counts as this one does.
LEMMA DriveCounts == Drive!Cardinality(Folders) = Cardinality(Folders)
BY DEF Drive!Cardinality, Cardinality

\* The folders below the requested one, as the property counts them.
LEMMA BelowIsOpened ==
  ASSUME NEW closed, Root \in closed,
         \A f \in closed, c \in Folders : Recursive /\ c \in Elements(Children[f]) => c \in closed
  PROVE  Drive!Below[Drive!Cardinality(Folders)] \subseteq closed \cap Folders
<1> DEFINE n == Drive!Cardinality(Folders)
           leads == {p \in Folders \X Folders : Recursive /\ p[2] \in Elements(Children[p[1]])}
           Further(set) == set \cup IF Recursive THEN Folders \cap UNION {Drive!ToSet(Children[f]) : f \in set} ELSE {}
<1>1. n \in Nat /\ {Root} \in SUBSET Folders
  BY DriveAssumption, DriveCounts, FS_CardinalityType
<1> HIDE DEF n
<1>2. ASSUME NEW set \in SUBSET Folders
      PROVE  Further(set) = set \cup {y \in Folders : \E x \in set : <<x, y>> \in leads}
  <2>1. \A x \in set, y \in Folders : <<x, y>> \in leads <=> Recursive /\ y \in Elements(Children[x])
    OBVIOUS
  <2> HIDE DEF leads
  <2>2. CASE Recursive
    <3>1. Further(set) = set \cup (Folders \cap (UNION {Drive!ToSet(Children[f]) : f \in set}))
      BY <2>2
    <3> HIDE DEF Further
    <3>2. \A y : y \in UNION {Drive!ToSet(Children[f]) : f \in set} <=> \E x \in set : y \in Elements(Children[x])
      BY DEF Drive!ToSet, Elements
    <3> QED BY <2>1, <2>2, <3>1, <3>2
  <2>3. CASE ~Recursive
    BY <2>1, <2>3
  <2> QED BY <2>2, <2>3
<1> HIDE DEF leads
<1>3. ASSUME NEW g, Layers(g, n, {Root}, Folders, leads)
      PROVE  g = [d \in 0 .. n |-> IF d = 0 THEN {Root} ELSE Further(g[d - 1])]
  <2>1. ASSUME NEW d \in 0 .. n
        PROVE  g[d] = IF d = 0 THEN {Root} ELSE Further(g[d - 1])
    <3>1. d # 0 => d - 1 \in 0 .. n
      BY <1>1
    <3> QED BY <1>2, <1>3, <3>1 DEF Layers
  <2>2. g = [d \in 0 .. n |-> g[d]]
    BY <1>3 DEF Layers
  <2> HIDE DEF Further
  <2> QED BY <2>1, <2>2
<1>4. \E g : g = [d \in 0 .. n |-> IF d = 0 THEN {Root} ELSE Further(g[d - 1])]
  BY <1>1, <1>3, LayersExist
<1>5. Drive!Below = [d \in 0 .. n |-> IF d = 0 THEN {Root} ELSE Further(Drive!Below[d - 1])]
  BY Zenon, <1>4 DEF Drive!Below, n
<1> DEFINE S == {k \in 0 .. n : Drive!Below[k] \subseteq closed \cap Folders}
<1>6. 0 \in S /\ S \in SUBSET (0 .. n)
  BY <1>1, <1>5
<1>7. ASSUME NEW i \in S, i < n PROVE i + 1 \in S
  <2>1. i \in Nat /\ i + 1 \in 0 .. n /\ i + 1 # 0 /\ (i + 1) - 1 = i
    BY <1>1, <1>7
  <2>2. Drive!Below[i + 1] = Further(Drive!Below[i])
    <3> HIDE DEF Further
    <3> QED BY <1>5, <2>1
  <2>3. Drive!Below[i] \subseteq closed \cap Folders
    OBVIOUS
  <2>4. Further(Drive!Below[i]) \subseteq closed \cap Folders
    BY <2>3 DEF Drive!ToSet, Elements
  <2> QED BY <2>1, <2>2, <2>4
<1> HIDE DEF S
<1>8. n \in S
  BY <1>1, <1>6, <1>7, Climb
<1> QED BY <1>8 DEF S, n

\* For every drive, however its folders share subfolders: a walk that ends below
\* its limit collected each file under the requested folder once, or says why not.
THEOREM DriveIsAccountedFor == Spec => []DriveIsComplete
<1>1. Init => (On("drive") => DriveInv)
  <2> SUFFICES ASSUME Drive!Init PROVE DriveInv
    BY DEF Init, On
  <2>1. folders = <<>> /\ fetched = <<>> /\ opened = {} /\ drive = "idle"
    BY DEF Drive!Init
  <2>2. folders \in Seq(Folders) /\ fetched \in Seq(Found) /\ Len(fetched) = 0
        /\ Elements(fetched) = {} /\ Once(fetched)
    BY <2>1 DEF Elements, Once
  <2> QED BY <2>1, <2>2, DriveAssumption DEF DriveInv
<1>2. (On("drive") => DriveInv) /\ [Next]_vars => (On("drive") => DriveInv)'
  <2> SUFFICES ASSUME On("drive") => DriveInv, [Next]_vars, On("drive")'
               PROVE  DriveInv'
    OBVIOUS
  <2>1. DriveInv /\ (Drive!Next \/ UNCHANGED driveVars)
    BY OnePart DEF On
  <2> QED BY <2>1, DriveNext
<1>3. (On("drive") => DriveInv) => DriveIsComplete
  <2> SUFFICES ASSUME DriveInv, drive = "ended" PROVE Drive!DriveIsComplete
    BY DEF DriveIsComplete, Drive!DriveIsComplete
  <2>1. Len(fetched) <= MaxFiles /\ \A i, j \in DOMAIN fetched : fetched[i] = fetched[j] => i = j
    BY DEF DriveInv, Once
  <2>2. ASSUME Len(fetched) < MaxFiles,
               NEW f \in Drive!Below[Drive!Cardinality(Folders)], NEW c \in Elements(Children[f]) \ Folders
        PROVE  c \in skipped \/ [from |-> f, file |-> c] \in Elements(fetched)
    <3>1. Elements(folders) = {} /\ Root \in opened
      BY <2>2 DEF DriveInv, Elements
    <3>2. \A g \in opened, d \in Things : d \in Elements(Children[g]) => Settled(g, d)
      BY <2>2 DEF DriveInv
    <3>3. \A g \in opened, d \in Folders : Recursive /\ d \in Elements(Children[g]) => d \in opened
      BY <3>1, <3>2 DEF Settled, Things
    <3>4. f \in opened /\ f \in Folders
      BY <3>1, <3>3, BelowIsOpened
    <3>5. c \in Things
      BY <3>4, DriveAssumption DEF Things, Elements
    <3> QED BY <3>2, <3>4, <3>5 DEF Settled
  <2>3. \A q : Drive!ToSet(q) = Elements(q)
    BY DEF Drive!ToSet, Elements
  <2> QED BY <2>1, <2>2, <2>3 DEF Drive!DriveIsComplete
<1> QED BY <1>1, <1>2, <1>3, PTL DEF Spec

-----------------------------------------------------------------------------
(* The submission of a batch.                                              *)

\* ReviewsHaveEvidence alone does not say how far the current item has come: a
\* review could be written next to a missing chunk.  The tables are nested in
\* the order of the writes, the current item has its row in each table that was
\* already written, and no item is passed over once a row of it is written.
NestedInv ==
    /\ written \in 0 .. 5
    /\ DOMAIN rows = Batch!Tables
    /\ \A k \in 1 .. 5 : rows[Batch!WriteOrder[k + 1]] \subseteq rows[Batch!WriteOrder[k]]
    /\ \A k \in 1 .. 5 : k <= written => <<attempts, position>> \in rows[Batch!WriteOrder[k]]
    /\ submission.state = "running" /\ written # 0 => Batch!Usable(Batch!Items[position])

\* Six tables, each written once.
LEMMA OrderFacts ==
    /\ Len(Batch!WriteOrder) = 6
    /\ \A k \in 1 .. 6 : Batch!WriteOrder[k] \in Batch!Tables
    /\ \A j, k \in 1 .. 6 : Batch!WriteOrder[j] = Batch!WriteOrder[k] => j = k
BY DEF Batch!WriteOrder, Batch!Tables

\* Nothing is written at first.
LEMMA NestedInit == Batch!Init => NestedInv
BY OrderFacts DEF Batch!Init, NestedInv

\* A write extends the next table by an item that the tables before it have.
LEMMA WriteKeepsNesting ==
    ASSUME NestedInv, Batch!Write
    PROVE  NestedInv'
<1> DEFINE item == <<attempts, position>>
<1>1. /\ written \in 0 .. 5 /\ written + 1 \in 1 .. 6
      /\ DOMAIN rows = Batch!Tables
      /\ attempts' = attempts
      /\ rows' = [rows EXCEPT ![Batch!WriteOrder[written + 1]] = @ \cup {item}]
    BY DEF NestedInv, Batch!Write
<1>2. \A k \in 1 .. 6 :
        rows'[Batch!WriteOrder[k]] = IF k = written + 1 THEN rows[Batch!WriteOrder[k]] \cup {item}
                                                  ELSE rows[Batch!WriteOrder[k]]
    BY <1>1, OrderFacts
<1>3. written' \in 0 .. 5 /\ DOMAIN rows' = Batch!Tables
    BY <1>1, OrderFacts DEF Batch!Write
<1>4. ASSUME NEW k \in 1 .. 5
      PROVE  rows'[Batch!WriteOrder[k + 1]] \subseteq rows'[Batch!WriteOrder[k]]
    <2>1. k \in 1 .. 6 /\ k + 1 \in 1 .. 6 /\ (k + 1 = written + 1 => k <= written)
        BY <1>1
    <2>2. rows[Batch!WriteOrder[k + 1]] \subseteq rows[Batch!WriteOrder[k]]
        BY DEF NestedInv
    <2>3. k <= written => item \in rows[Batch!WriteOrder[k]]
        BY DEF NestedInv
    <2> HIDE DEF item
    <2> QED BY <1>2, <2>1, <2>2, <2>3
<1>5. ASSUME NEW k \in 1 .. 5, k <= written'
      PROVE  <<attempts, position>>' \in rows'[Batch!WriteOrder[k]]
    <2>1. written' = written + 1 /\ position' = position
        BY <1>1, <1>5, OrderFacts DEF Batch!Write
    <2>2. k <= written \/ k = written + 1
        BY <1>1, <1>5, <2>1
    <2>3. k <= written => item \in rows[Batch!WriteOrder[k]]
        BY DEF NestedInv
    <2>4. item \in rows'[Batch!WriteOrder[k]]
        <3> HIDE DEF item
        <3> QED BY <1>2, <2>2, <2>3
    <2> QED BY <1>1, <2>1, <2>4
<1>6. submission' = submission /\ (written' # 0 => position' = position)
      /\ Batch!Usable(Batch!Items[position])
    BY <1>1 DEF Batch!Write, Batch!Writing
<1>7. written' # 0 => Batch!Usable(Batch!Items[position])'
    BY <1>6 DEF Batch!Items, Batch!Usable
<1> QED
    BY <1>3, <1>4, <1>5, <1>7 DEF NestedInv

\* The other steps start an item anew or leave the rows and the item alone.
LEMMA NestedStep ==
    ASSUME NestedInv, Batch!Next \/ UNCHANGED batchVars
    PROVE  NestedInv'
<1>1. CASE Batch!Submit
    BY <1>1 DEF NestedInv, Batch!Submit, Batch!WriteOrder
<1>2. CASE Batch!Pass
    <2>1. written = 0
        BY <1>2 DEF NestedInv, Batch!Pass, Batch!AtItem
    <2> QED BY <1>2, <2>1 DEF NestedInv, Batch!Pass, Batch!WriteOrder
<1>3. CASE Batch!Write
    BY <1>3, WriteKeepsNesting
<1>4. CASE Batch!FailItem
    BY <1>4 DEF NestedInv, Batch!FailItem, Batch!WriteOrder
<1>5. CASE Batch!Finish
    BY <1>5 DEF NestedInv, Batch!Finish, Batch!WriteOrder
<1>6. CASE Batch!Stop
    BY <1>6 DEF NestedInv, Batch!Stop, Batch!WriteOrder
<1>7. CASE UNCHANGED batchVars
    BY <1>7 DEF NestedInv, batchVars, Batch!WriteOrder, Batch!Items, Batch!Usable
<1> QED
    BY <1>1, <1>2, <1>3, <1>4, <1>5, <1>6, <1>7 DEF Batch!Next

\* A review item is stored only once its source, version, chunks and run are, and
\* an audit event only once its review item is, wherever a request ends and
\* however often it is repeated.
THEOREM EvidenceComesFirst == Spec => []ReviewsHaveEvidence
<1>1. Init => (On("batch") => NestedInv)
  BY NestedInit DEF Init, On
<1>2. (On("batch") => NestedInv) /\ [Next]_vars => (On("batch") => NestedInv)'
  <2> SUFFICES ASSUME On("batch") => NestedInv, [Next]_vars, On("batch")'
               PROVE  NestedInv'
    OBVIOUS
  <2> QED BY OnePart, NestedStep DEF On
<1>3. (On("batch") => NestedInv) => ReviewsHaveEvidence
  <2> SUFFICES ASSUME NestedInv PROVE Batch!ReviewsHaveEvidence
    BY DEF ReviewsHaveEvidence
  <2>1. \A k \in 1 .. 5 : rows[Batch!WriteOrder[k + 1]] \subseteq rows[Batch!WriteOrder[k]]
    BY DEF NestedInv
  <2>2. /\ rows["versions"] \subseteq rows["sources"]
        /\ rows["chunks"] \subseteq rows["versions"]
        /\ rows["runs"] \subseteq rows["chunks"]
        /\ rows["reviews"] \subseteq rows["runs"]
        /\ rows["audits"] \subseteq rows["reviews"]
    BY <2>1 DEF Batch!WriteOrder
  <2> QED BY <2>2 DEF Batch!ReviewsHaveEvidence
<1> QED BY <1>1, <1>2, <1>3, PTL DEF Spec

-----------------------------------------------------------------------------
(* What the client of a batch is told.                                     *)

\* The positions that one submission has rows of in a table.
RowsOf(t, a) == {p \in Nat : <<a, p>> \in rows[t]}

\* The usable items of a manifest.
UsableOf(listed) == {p \in DOMAIN listed : Batch!Usable(listed[p])}

\* The tables that the current item has rows in.
WrittenTables == {Batch!WriteOrder[k] : k \in 1 .. written}

AnswerTexts == {"refused", "failed", "none", "review_created", "blocked"}
AnswerRows == [text : AnswerTexts, batch : Seq(Batch!Kinds), items : Seq(Batch!Kinds),
               cut : BOOLEAN]

\* What one answer says.
IsTrue(a) ==
  answered[a].text \in {"review_created", "blocked"} =>
    /\ \A t \in Batch!Tables : RowsOf(t, a) = UsableOf(answered[a].items)
    /\ (answered[a].text = "blocked") <=> (UsableOf(answered[a].items) = {})
    /\ ~answered[a].cut => answered[a].items = answered[a].batch

\* An answer is about rows that no later submission adds to: rows carry the
\* submission they are of.  The running one has exactly the rows of the usable
\* items before its position, and those of the current item as far as it has come.
AnswersInv ==
  /\ written \in 0 .. 5
  /\ attempts \in Nat /\ position \in Nat \ {0}
  /\ submission.batch \in Seq(Batch!Kinds)
  /\ rows \in [Batch!Tables -> SUBSET ((1 .. attempts) \X Nat)]
  /\ answered \in Seq(AnswerRows)
  /\ Len(answered) = IF submission.state = "running" THEN attempts - 1 ELSE attempts
  /\ \A a \in 1 .. Len(answered) : IsTrue(a)
  /\ submission.state = "running" =>
       /\ attempts # 0
       /\ position <= Len(Batch!Items) + 1
       /\ written # 0 => position <= Len(Batch!Items) /\ Batch!Usable(Batch!Items[position])
       /\ \A t \in Batch!Tables :
            RowsOf(t, attempts) =
              {p \in UsableOf(Batch!Items) : p < position}
              \cup (IF t \in WrittenTables THEN {position} ELSE {})

\* A manifest lists the first items, and says so when there are more.
LEMMA ManifestFacts ==
  ASSUME NEW batch \in Seq(Batch!Kinds), NEW mode
  PROVE  /\ Batch!Manifest(batch, mode).items \in Seq(Batch!Kinds)
         /\ Batch!Manifest(batch, mode).cut \in BOOLEAN
         /\ ~Batch!Manifest(batch, mode).cut => Batch!Manifest(batch, mode).items = batch
<1> DEFINE e == Batch!Expanded(batch, mode)
<1>1. e \in Seq(Batch!Kinds)
  BY BatchAssumption DEF Batch!Expanded
<1>2. e = batch \/ Len(e) > MaxItems
  <2>1. CASE mode = "zip" /\ Len(batch) > MaxItems + 1
    <3>1. e = SubSeq(batch, 1, MaxItems + 1)
      BY <2>1 DEF Batch!Expanded
    <3>2. Len(SubSeq(batch, 1, MaxItems + 1)) = MaxItems + 1
      BY <2>1, BatchAssumption
    <3> QED BY <3>1, <3>2, BatchAssumption
  <2> QED BY <2>1 DEF Batch!Expanded
<1> DEFINE i == IF Len(e) > MaxItems THEN SubSeq(e, 1, MaxItems) ELSE e
<1>3. Batch!Manifest(batch, mode) = [items |-> i, cut |-> Len(e) > MaxItems]
  BY DEF Batch!Manifest
<1>4. i \in Seq(Batch!Kinds)
  <2> HIDE DEF e
  <2> QED BY <1>1, BatchAssumption
<1> DEFINE b == Len(e) > MaxItems
<1>5. b \in BOOLEAN /\ (~b => i = e) /\ (~b => e = batch)
  BY <1>2
<1>6. Batch!Manifest(batch, mode) = [items |-> i, cut |-> b]
  BY <1>3
<1> HIDE DEF i, e, b
<1>7. Batch!Manifest(batch, mode).items = i /\ Batch!Manifest(batch, mode).cut = b
  BY <1>6
<1> QED BY <1>4, <1>5, <1>7


\* A step that leaves rows and answers alone keeps what answers say.
LEMMA AnswersKeep ==
  ASSUME UNCHANGED <<rows, answered>>
  PROVE  /\ \A a : IsTrue(a)' <=> IsTrue(a)
         /\ \A t, a : RowsOf(t, a)' = RowsOf(t, a)
BY DEF IsTrue, RowsOf, UsableOf, Batch!Usable

\* An answer is added behind the others.
LEMMA AnswerAppended ==
  ASSUME AnswersInv, NEW said \in AnswerTexts,
         NEW manifest, Batch!Answer(said, manifest),
         manifest.items \in Seq(Batch!Kinds), manifest.cut \in BOOLEAN,
         submission'.batch \in Seq(Batch!Kinds), UNCHANGED rows,
         NEW n \in Nat, n = Len(answered) + 1
  PROVE  /\ answered' \in Seq(AnswerRows) /\ Len(answered') = n
         /\ \A a \in 1 .. Len(answered) : IsTrue(a)'
         /\ answered'[n] = [text |-> said, batch |-> submission'.batch,
                            items |-> manifest.items, cut |-> manifest.cut]
<1> DEFINE new == [text |-> said, batch |-> submission'.batch,
                   items |-> manifest.items, cut |-> manifest.cut]
<1>1. new \in AnswerRows
  BY DEF AnswerRows
<1>2. answered \in Seq(AnswerRows) /\ answered' = Append(answered, new)
  BY DEF AnswersInv, Batch!Answer
<1> HIDE DEF new
<1>3. /\ answered' \in Seq(AnswerRows) /\ Len(answered') = Len(answered) + 1
      /\ answered'[Len(answered) + 1] = new
      /\ \A a \in 1 .. Len(answered) : answered'[a] = answered[a]
  BY <1>1, <1>2
<1>4. \A a \in 1 .. Len(answered) : IsTrue(a)'
  <2> SUFFICES ASSUME NEW a \in 1 .. Len(answered) PROVE IsTrue(a)'
    OBVIOUS
  <2>1. IsTrue(a) /\ answered'[a] = answered[a]
    BY <1>3 DEF AnswersInv
  <2> QED BY <2>1 DEF IsTrue, RowsOf, UsableOf, Batch!Usable
<1> QED BY <1>3, <1>4 DEF new

\* The running submission's items are those of a sequence.
LEMMA ItemsTyped == AnswersInv => Batch!Items \in Seq(Batch!Kinds)
BY ManifestFacts DEF AnswersInv, Batch!Items

\* A new submission has no rows yet; one that is refused is answered at once.
LEMMA AnswersSubmit ==
  ASSUME AnswersInv, Batch!Submit
  PROVE  AnswersInv'
<1>1. PICK batch \in Batches, mode \in Batch!Modes :
        IF Batch!Refused(batch, mode)
        THEN /\ submission' = [batch |-> batch, mode |-> mode, state |-> "none"]
             /\ Batch!Answer("refused", Batch!Nothing)
        ELSE /\ submission' = [batch |-> batch, mode |-> mode, state |-> "running"]
             /\ UNCHANGED answered
  BY DEF Batch!Submit
<1>2. /\ submission.state # "running" /\ attempts \in Nat
      /\ attempts' = attempts + 1 /\ position' = 1 /\ written' = 0
      /\ UNCHANGED <<rows, stops>>
  BY DEF Batch!Submit, AnswersInv
<1>3. submission'.batch \in Seq(Batch!Kinds) /\ submission'.batch = batch
  BY <1>1, BatchAssumption
<1>4. rows' \in [Batch!Tables -> SUBSET ((1 .. attempts') \X Nat)]
  BY <1>2 DEF AnswersInv
<1>5. \A t \in Batch!Tables : RowsOf(t, attempts + 1) = {}
  BY <1>2 DEF AnswersInv, RowsOf
<1>6. CASE Batch!Refused(batch, mode)
  <2>1. Batch!Nothing.items \in Seq(Batch!Kinds) /\ Batch!Nothing.cut \in BOOLEAN /\ "refused" \in AnswerTexts
    BY DEF Batch!Nothing, AnswerTexts
  <2>2. Batch!Answer("refused", Batch!Nothing) /\ submission'.state = "none"
    BY <1>1, <1>6
  <2>a. PICK n \in Nat : n = Len(answered) + 1
    BY DEF AnswersInv
  <2>3. /\ answered' \in Seq(AnswerRows)
        /\ Len(answered') = n
        /\ \A a \in 1 .. Len(answered) : IsTrue(a)'
        /\ answered'[n] = [text |-> "refused", batch |-> submission'.batch,
                           items |-> Batch!Nothing.items, cut |-> Batch!Nothing.cut]
    BY <1>2, <1>3, <2>1, <2>2, <2>a, AnswerAppended
  <2>4. n = attempts' /\ Len(answered) \in Nat
    BY <1>2, <2>a DEF AnswersInv
  <2>5. IsTrue(n)'
    BY <2>3 DEF IsTrue
  <2>6. \A a \in 1 .. Len(answered') : IsTrue(a)'
    BY <2>a, <2>3, <2>4, <2>5
  <2> QED BY <1>2, <1>3, <1>4, <2>2, <2>3, <2>4, <2>6 DEF AnswersInv
<1>7. CASE ~Batch!Refused(batch, mode)
  <2>1. submission'.state = "running" /\ answered' = answered
    BY <1>1, <1>7
  <2>2. \A a \in 1 .. Len(answered') : IsTrue(a)'
    BY <1>2, <2>1, AnswersKeep DEF AnswersInv
  <2>3. Batch!Items' \in Seq(Batch!Kinds)
    BY <1>1, <1>3, <1>7, ManifestFacts DEF Batch!Items
  <2>4. position' <= Len(Batch!Items') + 1
    BY <1>2, <2>3
  <2>5. \A t \in Batch!Tables : RowsOf(t, attempts)' =
            {p \in UsableOf(Batch!Items) : p < position}'
            \cup (IF t \in WrittenTables THEN {position} ELSE {})'
    <3> TAKE t \in Batch!Tables
    <3>1. RowsOf(t, attempts)' = {}
      BY <1>2, <1>5 DEF RowsOf
    <3>2. t \notin WrittenTables'
      BY <1>2 DEF WrittenTables
    <3>3. {p \in UsableOf(Batch!Items) : p < position}' = {}
      BY <1>2, <2>3 DEF UsableOf
    <3> QED BY <3>1, <3>2, <3>3
  <2>6. Len(answered') = attempts' - 1
    BY <1>2, <2>1 DEF AnswersInv
  <2>7. answered' \in Seq(AnswerRows)
    BY <2>1 DEF AnswersInv
  <2>8. written' \in 0 .. 5 /\ written' = 0 /\ attempts' \in Nat \ {0} /\ position' \in Nat \ {0}
    BY <1>2
  <2> QED BY <1>3, <1>4, <2>1, <2>2, <2>4, <2>5, <2>6, <2>7, <2>8 DEF AnswersInv
<1> QED BY <1>6, <1>7

\* A rejected item has no rows.
LEMMA AnswersPass ==
  ASSUME AnswersInv, Batch!Pass
  PROVE  AnswersInv'
<1>1. /\ submission.state = "running" /\ written = 0
      /\ position <= Len(Batch!Items) /\ ~Batch!Usable(Batch!Items[position])
      /\ position' = position + 1 /\ UNCHANGED <<submission, written, rows, attempts, answered>>
  BY DEF AnswersInv, Batch!Pass, Batch!AtItem
<1>2. Batch!Items' = Batch!Items /\ Batch!Items \in Seq(Batch!Kinds)
  BY <1>1, ItemsTyped DEF Batch!Items
<1>3. \A a \in 1 .. Len(answered') : IsTrue(a)'
  BY <1>1, AnswersKeep DEF AnswersInv
<1>4. \A t \in Batch!Tables : RowsOf(t, attempts)' =
          {p \in UsableOf(Batch!Items) : p < position}'
          \cup (IF t \in WrittenTables THEN {position} ELSE {})'
  <2> TAKE t \in Batch!Tables
  <2>1. RowsOf(t, attempts)' = RowsOf(t, attempts) /\ t \notin WrittenTables
        /\ t \notin WrittenTables'
    BY <1>1 DEF RowsOf, WrittenTables
  <2>2. RowsOf(t, attempts) = {p \in UsableOf(Batch!Items) : p < position}
    BY <1>1, <2>1 DEF AnswersInv
  <2>3. UsableOf(Batch!Items)' = UsableOf(Batch!Items) /\ position \notin UsableOf(Batch!Items)
    BY <1>1, <1>2 DEF UsableOf, Batch!Usable
  <2>4. UsableOf(Batch!Items) \subseteq Nat /\ position \in Nat
    BY <1>2 DEF UsableOf, AnswersInv
  <2>5. {p \in UsableOf(Batch!Items) : p < position} = {p \in UsableOf(Batch!Items) : p < position + 1}
    BY <2>3, <2>4
  <2> QED BY <1>1, <2>1, <2>2, <2>3, <2>5
<1> QED BY <1>1, <1>2, <1>3, <1>4 DEF AnswersInv

\* A request that ends without its manifest says nothing about rows.
LEMMA AnswersEnd ==
  ASSUME AnswersInv, NEW said \in {"failed", "none"},
         submission.state = "running",
         submission'.state = "failed", submission'.batch = submission.batch,
         Batch!Answer(said, Batch!Nothing),
         UNCHANGED <<position, written, rows, attempts>>
  PROVE  AnswersInv'
<1>1. Batch!Nothing.items \in Seq(Batch!Kinds) /\ Batch!Nothing.cut \in BOOLEAN /\ said \in AnswerTexts
  BY DEF Batch!Nothing, AnswerTexts
<1>2. submission'.batch \in Seq(Batch!Kinds)
  BY DEF AnswersInv
<1>3. PICK n \in Nat : n = Len(answered) + 1
  BY DEF AnswersInv
<1>4. /\ answered' \in Seq(AnswerRows) /\ Len(answered') = n
      /\ \A a \in 1 .. Len(answered) : IsTrue(a)'
      /\ answered'[n] = [text |-> said, batch |-> submission'.batch,
                         items |-> Batch!Nothing.items, cut |-> Batch!Nothing.cut]
  BY <1>1, <1>2, <1>3, AnswerAppended
<1>5. IsTrue(n)'
  BY <1>4 DEF IsTrue
<1>6. n = attempts' /\ Len(answered) \in Nat
  BY <1>3 DEF AnswersInv
<1>7. \A a \in 1 .. Len(answered') : IsTrue(a)'
  BY <1>3, <1>4, <1>5, <1>6
<1> QED BY <1>2, <1>4, <1>6, <1>7 DEF AnswersInv

\* Everything usable has its rows when the last item is done.
LEMMA AnswersFinish ==
  ASSUME AnswersInv, Batch!Finish
  PROVE  AnswersInv'
<1> DEFINE manifest == Batch!Manifest(submission.batch, submission.mode)
           said == IF \E p \in DOMAIN Batch!Items : Batch!Usable(Batch!Items[p])
                   THEN "review_created" ELSE "blocked"
<1>1. /\ submission.state = "running" /\ position > Len(Batch!Items)
      /\ Batch!Answer(said, manifest)
      /\ UNCHANGED <<position, written, rows, attempts>>
  BY DEF Batch!Finish
<1>2. submission'.state = "none" /\ submission'.batch = submission.batch
      /\ submission.batch \in Seq(Batch!Kinds)
  BY DEF Batch!Finish, AnswersInv
<1>3. /\ manifest.items \in Seq(Batch!Kinds) /\ manifest.cut \in BOOLEAN
      /\ ~manifest.cut => manifest.items = submission.batch
      /\ manifest.items = Batch!Items
  BY <1>2, ManifestFacts DEF Batch!Items
<1>4. said \in AnswerTexts /\ said \in {"review_created", "blocked"}
      /\ ((said = "blocked") <=> (UsableOf(Batch!Items) = {}))
  BY DEF AnswerTexts, UsableOf
<1> HIDE DEF manifest, said
<1>5. PICK n \in Nat : n = Len(answered) + 1
  BY DEF AnswersInv
<1>6. /\ answered' \in Seq(AnswerRows) /\ Len(answered') = n
      /\ \A a \in 1 .. Len(answered) : IsTrue(a)'
      /\ answered'[n] = [text |-> said, batch |-> submission'.batch,
                         items |-> manifest.items, cut |-> manifest.cut]
  BY <1>1, <1>2, <1>3, <1>4, <1>5, AnswerAppended
<1>7. written = 0 /\ n = attempts /\ Len(answered) \in Nat
  BY <1>1, <1>5 DEF AnswersInv
<1>8. ASSUME NEW t \in Batch!Tables PROVE RowsOf(t, n)' = UsableOf(Batch!Items)
  <2>1. RowsOf(t, attempts) = {p \in UsableOf(Batch!Items) : p < position}
    BY <1>1, <1>7 DEF AnswersInv, WrittenTables
  <2>2. \A p \in UsableOf(Batch!Items) : p < position
    BY <1>1, ItemsTyped DEF AnswersInv, UsableOf
  <2>3. RowsOf(t, n)' = RowsOf(t, attempts)
    BY <1>1, <1>7 DEF RowsOf
  <2> QED BY <2>1, <2>2, <2>3
<1>9. IsTrue(n)'
  <2>1. /\ answered'[n].text = said /\ answered'[n].batch = submission.batch
        /\ answered'[n].items = Batch!Items /\ answered'[n].cut = manifest.cut
    BY <1>2, <1>3, <1>6
  <2>2. UsableOf(answered[n].items)' = UsableOf(Batch!Items)
    BY <2>1 DEF UsableOf, Batch!Usable
  <2> QED BY <1>3, <1>4, <1>8, <2>1, <2>2 DEF IsTrue
<1>10. \A a \in 1 .. Len(answered') : IsTrue(a)'
  BY <1>5, <1>6, <1>7, <1>9
<1> QED BY <1>1, <1>2, <1>6, <1>7, <1>10 DEF AnswersInv

\* A row of the current item.
LEMMA AnswersWrite ==
  ASSUME AnswersInv, Batch!Write
  PROVE  AnswersInv'
<1> DEFINE table == Batch!WriteOrder[written + 1]
<1>1. /\ submission.state = "running" /\ written \in 0 .. 5 /\ written + 1 \in 1 .. 6
      /\ position <= Len(Batch!Items) /\ Batch!Usable(Batch!Items[position])
      /\ rows' = [rows EXCEPT ![table] = @ \cup {<<attempts, position>>}]
      /\ UNCHANGED <<submission, attempts, answered>>
      /\ attempts \in Nat \ {0} /\ position \in Nat \ {0}
      /\ rows \in [Batch!Tables -> SUBSET ((1 .. attempts) \X Nat)]
  BY DEF AnswersInv, Batch!Write, Batch!Writing, Batch!AtItem
<1>2. IF written = 5 THEN written' = 0 /\ position' = position + 1
                     ELSE written' = written + 1 /\ position' = position
  BY <1>1, OrderFacts DEF Batch!Write
<1>3. table \in Batch!Tables
  BY <1>1, OrderFacts
<1>4. Batch!Items' = Batch!Items /\ Batch!Items \in Seq(Batch!Kinds)
  BY <1>1, ItemsTyped DEF Batch!Items
<1>5. \A t \in Batch!Tables : rows'[t] = IF t = table THEN rows[t] \cup {<<attempts, position>>} ELSE rows[t]
  <2> HIDE DEF table
  <2> QED BY <1>1, <1>3
<1>6. rows' \in [Batch!Tables -> SUBSET ((1 .. attempts) \X Nat)]
  <2>1. <<attempts, position>> \in (1 .. attempts) \X Nat
    BY <1>1
  <2> HIDE DEF table
  <2> QED BY <1>1, <1>3, <2>1
<1>7. WrittenTables \cup {table} = {Batch!WriteOrder[k] : k \in 1 .. (written + 1)}
  BY <1>1 DEF WrittenTables
<1>8. written = 5 => \A t \in Batch!Tables : t \in WrittenTables \cup {table}
  BY DEF WrittenTables, Batch!WriteOrder, Batch!Tables
<1> HIDE DEF table
<1>9. ASSUME NEW t \in Batch!Tables
      PROVE  RowsOf(t, attempts)' = {p \in UsableOf(Batch!Items) : p < position}'
                                    \cup (IF t \in WrittenTables THEN {position} ELSE {})'
  <2>1. RowsOf(t, attempts)' = IF t = table THEN RowsOf(t, attempts) \cup {position} ELSE RowsOf(t, attempts)
    BY <1>1, <1>5 DEF RowsOf
  <2>2. RowsOf(t, attempts) = {p \in UsableOf(Batch!Items) : p < position}
                              \cup (IF t \in WrittenTables THEN {position} ELSE {})
    BY <1>1 DEF AnswersInv
  <2>3. UsableOf(Batch!Items)' = UsableOf(Batch!Items) /\ position \in UsableOf(Batch!Items)
        /\ UsableOf(Batch!Items) \subseteq Nat
    BY <1>1, <1>4 DEF UsableOf, Batch!Usable
  <2>4. CASE written = 5
    <3>1. RowsOf(t, attempts)' = {p \in UsableOf(Batch!Items) : p < position} \cup {position}
      BY <2>1, <2>2, <1>8, <2>4
    <3>2. {p \in UsableOf(Batch!Items) : p < position} \cup {position}
          = {p \in UsableOf(Batch!Items) : p < position + 1}
      BY <1>1, <2>3
    <3>3. t \notin WrittenTables' /\ position' = position + 1
      BY <1>2, <2>4 DEF WrittenTables
    <3> QED BY <2>3, <3>1, <3>2, <3>3
  <2>5. CASE written # 5
    <3>1. WrittenTables' = WrittenTables \cup {table} /\ position' = position
      BY <1>2, <1>7, <2>5 DEF WrittenTables
    <3>2. {p \in UsableOf(Batch!Items) : p < position}' = {p \in UsableOf(Batch!Items) : p < position}
      BY <2>3, <3>1
    <3> QED BY <2>1, <2>2, <3>1, <3>2
  <2> QED BY <2>4, <2>5
<1>10. ASSUME NEW a \in 1 .. Len(answered) PROVE IsTrue(a)'
  <2>1. IsTrue(a) /\ answered' = answered /\ a # attempts
    BY <1>1 DEF AnswersInv
  <2>2. \A t \in Batch!Tables : RowsOf(t, a)' = RowsOf(t, a)
    BY <1>1, <1>5, <2>1 DEF RowsOf
  <2>3. UsableOf(answered[a].items)' = UsableOf(answered[a].items)
    BY <2>1 DEF UsableOf, Batch!Usable
  <2> QED BY <2>1, <2>2, <2>3 DEF IsTrue
<1>11. /\ written' \in 0 .. 5 /\ position' \in Nat \ {0}
       /\ position' <= Len(Batch!Items) + 1
       /\ written' # 0 => position' <= Len(Batch!Items) /\ position' = position
  BY <1>1, <1>2, <1>4
<1> QED BY <1>1, <1>4, <1>6, <1>9, <1>10, <1>11 DEF AnswersInv, Batch!Usable

\* Every step of a submission.
LEMMA AnswersStep ==
  ASSUME AnswersInv, Batch!Next \/ UNCHANGED batchVars
  PROVE  AnswersInv'
<1>1. CASE Batch!FailItem
  <2>1. /\ submission.state = "running" /\ Batch!Answer("failed", Batch!Nothing)
        /\ UNCHANGED <<position, written, rows, attempts>>
        /\ submission' = [submission EXCEPT !.state = "failed"]
    BY <1>1 DEF Batch!FailItem, Batch!AtItem
  <2> QED BY <2>1, AnswersEnd DEF AnswersInv
<1>2. CASE Batch!Stop
  <2>1. /\ submission.state = "running" /\ Batch!Answer("none", Batch!Nothing)
        /\ UNCHANGED <<position, written, rows, attempts>>
        /\ submission' = [submission EXCEPT !.state = "failed"]
    BY <1>2 DEF Batch!Stop
  <2> QED BY <2>1, AnswersEnd DEF AnswersInv
<1>3. CASE UNCHANGED batchVars
  BY <1>3 DEF batchVars, AnswersInv, IsTrue, RowsOf, UsableOf, WrittenTables, Batch!Usable, Batch!Items
<1> QED BY <1>1, <1>2, <1>3, AnswersSubmit, AnswersPass, AnswersWrite, AnswersFinish DEF Batch!Next

\* An answer that lists a manifest lists what was stored: the usable items have
\* all their rows and the others none, whatever failed, stopped or was repeated
\* before, and a list that was cut says so.
THEOREM AnswersTellTheRows == Spec => []AnswersAreTrue
<1>1. Init => (On("batch") => AnswersInv)
  <2> SUFFICES ASSUME Batch!Init PROVE AnswersInv
    BY DEF Init, On
  <2>1. answered = <<>> /\ attempts = 0 /\ submission.state = "none" /\ submission.batch = <<>>
        /\ position = 1 /\ written = 0 /\ rows = [t \in Batch!Tables |-> {}]
    BY DEF Batch!Init
  <2> QED BY <2>1 DEF AnswersInv
<1>2. (On("batch") => AnswersInv) /\ [Next]_vars => (On("batch") => AnswersInv)'
  <2> SUFFICES ASSUME On("batch") => AnswersInv, [Next]_vars, On("batch")'
               PROVE  AnswersInv'
    OBVIOUS
  <2> QED BY OnePart, AnswersStep DEF On
<1>3. (On("batch") => AnswersInv) => AnswersAreTrue
  <2> SUFFICES ASSUME AnswersInv, NEW a \in DOMAIN answered,
                      answered[a].text \in {"review_created", "blocked"}
               PROVE  LET manifest == answered[a]
                          usable == {p \in DOMAIN manifest.items : Batch!Usable(manifest.items[p])}
                      IN /\ \A t \in Batch!Tables : {r[2] : r \in {r \in rows[t] : r[1] = a}} = usable
                         /\ (manifest.text = "blocked") <=> (usable = {})
                         /\ ~manifest.cut => manifest.items = manifest.batch
    BY DEF AnswersAreTrue, Batch!AnswersAreTrue
  <2>1. IsTrue(a)
    BY DEF AnswersInv
  <2>2. ASSUME NEW t \in Batch!Tables PROVE {r[2] : r \in {r \in rows[t] : r[1] = a}} = RowsOf(t, a)
    <3>1. rows[t] \subseteq (1 .. attempts) \X Nat
      BY DEF AnswersInv
    <3> QED BY <3>1 DEF RowsOf
  <2> QED BY <2>1, <2>2 DEF IsTrue, UsableOf
<1> QED BY <1>1, <1>2, <1>3, PTL DEF Spec

=============================================================================
