------------------------ MODULE SourceRefresh_proofs ------------------------
(***************************************************************************)
(* Proofs about SourceRefresh, for every number of documents, texts,       *)
(* concurrent requests, changes, failures and crashes, whatever connectors *)
(* skip and whatever texts have one digest: the types; that a subscription *)
(* remembers a digest only of documents submitted for review; that a run   *)
(* recorded as changed names a candidate for each of its documents; and    *)
(* how many duplicate batches there can be.                                *)
(***************************************************************************)
EXTENDS SourceRefresh, FiniteSetTheorems, TLAPS

(* Candidates are only ever added or stamped.                              *)
Kept ==
    /\ Len(candidates) <= Len(candidates')
    /\ \A n \in 1 .. Len(candidates) :
          /\ candidates'[n].doc = candidates[n].doc
          /\ candidates'[n].text = candidates[n].text

OfferedBy(cs, c, d) ==
    \E n \in 1 .. Len(cs) : cs[n].doc = d /\ cs[n].text = c.text[d]

Covered(cs, c) ==
    c # NoDigest =>
        \A d \in Docs : c.text[d] # Blank => OfferedBy(cs, c, d)

(* What a run has collected is submitted or still to be submitted, and what *)
(* is in memory, in the row or about to be written is covered.              *)
CoverInv ==
    /\ Covered(candidates, sub.checksum)
    /\ Covered(candidates, subRow.checksum)
    /\ \A h \in Handlers :
          /\ Covered(candidates, job[h].row.checksum)
          /\ job[h].pc = "submit" /\ job[h].run.status = "changed" =>
                \A d \in Docs :
                   job[h].seen.text[d] # Blank =>
                      d \in job[h].todo \/ OfferedBy(candidates, job[h].seen, d)

-----------------------------------------------------------------------------

LEMMA InitTypes == Init => TypeOK
  BY RefreshAssumption DEF Init, TypeOK, Idle, NoRun, Job, Steps, Run, RunStatuses,
     Subscription, SubscriptionStatuses

JobsOK ==
    /\ job \in [Handlers -> Job]
    /\ \A h \in Handlers :
          /\ job[h].made \subseteq 1 .. Len(candidates)
          /\ job[h].pc \in {"compare", "submit"} => job[h].seen \in Collection

LEMMA ReadIsTyped ==
  ASSUME source \in Sources, NEW order \in Orders
  PROVE  Read(order) \in Collection
<1> DEFINE text == [d \in Docs |-> IF d \in Range(order) THEN source[d] ELSE Blank]
<1>1. text \in Sources
  BY DEF Sources
<1>2. Joined(order, text) \in Digests
  BY <1>1 DEF Digests
<1> HIDE DEF text
<1>3. [text |-> text, digest |-> Joined(order, text)] \in Collection
  BY <1>1, <1>2 DEF Collection
<1> QED
  BY <1>3 DEF Read, text

(* A request moves on, and the candidates stay. *)
LEMMA JobMoves ==
  ASSUME TypeOK, UNCHANGED candidates, NEW h \in Handlers, NEW j \in Job,
         job' = [job EXCEPT ![h] = j],
         j.made = job[h].made \/ j.made = {},
         j.pc \in {"compare", "submit"} => j.seen \in Collection
  PROVE  JobsOK'
  BY DEF TypeOK, JobsOK

(* Every step preserves the types. *)
LEMMA TypeStep == TypeOK /\ [Next]_vars => TypeOK'
<1> SUFFICES ASSUME TypeOK, [Next]_vars PROVE TypeOK'
  OBVIOUS
<1> USE DEF TypeOK, Subscription, SubscriptionStatuses, history
<1>1. CASE SourceChanges
  BY <1>1 DEF SourceChanges
<1>2. CASE Restart
  BY <1>2 DEF Restart, Job, Steps, Idle, NoRun, Run, RunStatuses
<1>3. ASSUME NEW h \in Handlers, Begin(h) PROVE TypeOK'
  <2>1. job[h] \in Job
    OBVIOUS
  <2>2. /\ job'[h] \in Job
        /\ job'[h].made = job[h].made \/ job'[h].made = {}
        /\ job'[h].pc \in {"compare", "submit"} => job'[h].seen \in Collection
    BY <1>3, <2>1 DEF Begin, Job, Steps
  <2>3. job' = [job EXCEPT ![h] = job'[h]]
    BY <1>3 DEF Begin
  <2>4. UNCHANGED candidates
    BY <1>3 DEF Begin
  <2>5. JobsOK'
    BY <2>2, <2>3, <2>4, JobMoves
  <2> QED
    BY <1>3, <2>5 DEF Begin, JobsOK
<1>4. ASSUME NEW h \in Handlers, NEW order \in Orders, Collect(h, order) PROVE TypeOK'
  <2>1. job[h] \in Job
    OBVIOUS
  <2>2. /\ job'[h] \in Job
        /\ job'[h].made = job[h].made \/ job'[h].made = {}
        /\ job'[h].pc \in {"compare", "submit"} => job'[h].seen \in Collection
    BY <1>4, <2>1, ReadIsTyped DEF Collect, Job, Steps
  <2>3. job' = [job EXCEPT ![h] = job'[h]]
    BY <1>4 DEF Collect
  <2>4. UNCHANGED candidates
    BY <1>4 DEF Collect
  <2>5. JobsOK'
    BY <2>2, <2>3, <2>4, JobMoves
  <2> QED
    BY <1>4, <2>5, ReadIsTyped DEF Collect, JobsOK, Collection
<1>5. ASSUME NEW h \in Handlers, Compare(h) PROVE TypeOK'
  <2>1. job[h] \in Job
    OBVIOUS
  <2>2. /\ job'[h] \in Job
        /\ job'[h].made = job[h].made \/ job'[h].made = {}
        /\ job'[h].pc \in {"compare", "submit"} => job'[h].seen \in Collection
    BY <1>5, <2>1 DEF Compare, Job, Steps, Run, RunStatuses
  <2>3. job' = [job EXCEPT ![h] = job'[h]]
    BY <1>5 DEF Compare
  <2>4. UNCHANGED candidates
    BY <1>5 DEF Compare
  <2>5. JobsOK'
    BY <2>2, <2>3, <2>4, JobMoves
  <2> QED
    BY <1>5, <2>5 DEF Compare, JobsOK
<1>6. ASSUME NEW h \in Handlers, NEW d \in Docs, Submit(h, d) PROVE TypeOK'
  BY <1>6 DEF Submit, Job, Steps, Candidate
<1>7. ASSUME NEW h \in Handlers, NEW n \in 1 .. Len(candidates), Stamp(h, n)
      PROVE TypeOK'
  <2>1. candidates[n] \in Candidate
    OBVIOUS
  <2>2. [candidates[n] EXCEPT !.stamped = TRUE] \in Candidate
    BY <2>1 DEF Candidate
  <2>3. candidates' = [candidates EXCEPT ![n] = [candidates[n] EXCEPT !.stamped = TRUE]]
    BY <1>7 DEF Stamp
  <2>4. candidates' \in Seq(Candidate) /\ Len(candidates') = Len(candidates)
    BY <2>2, <2>3
  <2> QED
    BY <1>7, <2>4 DEF Stamp
<1>8. ASSUME NEW h \in Handlers, Settle(h) PROVE TypeOK'
  <2> DEFINE j == [Idle EXCEPT !.pc = "commit", !.row = sub',
                             !.run = [job[h].run EXCEPT !.items = job[h].made]]
  <2>1. job[h] \in Job /\ sub' \in Subscription
    BY <1>8 DEF Settle
  <2>2. j \in Job /\ j.made = {} /\ j.pc = "commit"
    BY <2>1 DEF Job, Steps, Run, RunStatuses, Idle
  <2>3. job' = [job EXCEPT ![h] = j]
    BY <1>8 DEF Settle
  <2>4. UNCHANGED candidates
    BY <1>8 DEF Settle
  <2>5. JobsOK'
    BY <2>2, <2>3, <2>4, JobMoves
  <2> QED
    BY <1>8, <2>1, <2>5 DEF Settle, JobsOK
<1>9. ASSUME NEW h \in Handlers, Commit(h) PROVE TypeOK'
  <2>1. job[h] \in Job
    OBVIOUS
  <2>2. /\ job'[h] \in Job
        /\ job'[h].made = job[h].made \/ job'[h].made = {}
        /\ job'[h].pc \in {"compare", "submit"} => job'[h].seen \in Collection
    BY <1>9, <2>1 DEF Commit, Job, Steps, Run, RunStatuses, Idle, NoRun
  <2>3. job' = [job EXCEPT ![h] = job'[h]]
    BY <1>9 DEF Commit
  <2>4. UNCHANGED candidates
    BY <1>9 DEF Commit
  <2>5. JobsOK'
    BY <2>2, <2>3, <2>4, JobMoves
  <2> QED
    BY <1>9, <2>5 DEF Commit, JobsOK, Job
<1>10. ASSUME NEW h \in Handlers, AddRun(h) PROVE TypeOK'
  BY <1>10 DEF AddRun, Job, Steps, Idle, NoRun, Run, RunStatuses
<1>11. ASSUME NEW h \in Handlers, NEW s \in {"paused", "active"}, Route(h, s)
       PROVE TypeOK'
  BY <1>11 DEF Route, Job, Steps, Idle, NoRun, Run, RunStatuses
<1>12. ASSUME NEW h \in Handlers, Fail(h) PROVE TypeOK'
  <2> DEFINE j == [Idle EXCEPT !.pc = "commit", !.row = sub', !.caught = TRUE,
                             !.run = [NoRun EXCEPT !.status = "failed"]]
  <2>1. job[h] \in Job /\ sub' \in Subscription
    BY <1>12 DEF Fail
  <2>2. j \in Job /\ j.made = {} /\ j.pc = "commit"
    BY <2>1 DEF Job, Steps, Run, RunStatuses, NoRun, Idle
  <2>3. job' = [job EXCEPT ![h] = j]
    BY <1>12 DEF Fail
  <2>4. UNCHANGED candidates
    BY <1>12 DEF Fail
  <2>5. JobsOK'
    BY <2>2, <2>3, <2>4, JobMoves
  <2> QED
    BY <1>12, <2>1, <2>5 DEF Fail, JobsOK
<1>13. ASSUME NEW h \in Handlers, Abort(h) PROVE TypeOK'
  BY <1>13 DEF Abort, Job, Steps, Idle, NoRun, Run, RunStatuses
<1>14. CASE UNCHANGED vars
  BY <1>14 DEF vars
<1> QED
  BY <1>1, <1>2, <1>3, <1>4, <1>5, <1>6, <1>7, <1>8, <1>9, <1>10, <1>11, <1>12,
     <1>13, <1>14 DEF Next

-----------------------------------------------------------------------------

(* No step forgets or rewrites what a candidate says. *)
LEMMA CandidatesAreKept == TypeOK /\ [Next]_vars => Kept
<1> SUFFICES ASSUME TypeOK, [Next]_vars PROVE Kept
  OBVIOUS
<1>1. ASSUME NEW h \in Handlers, NEW d \in Docs, Submit(h, d) PROVE Kept
  BY <1>1 DEF Submit, Kept, TypeOK
<1>2. ASSUME NEW h \in Handlers, NEW n \in 1 .. Len(candidates), Stamp(h, n)
      PROVE Kept
  BY <1>2 DEF Stamp, Kept, TypeOK, Candidate
<1>3. CASE UNCHANGED candidates
  BY <1>3 DEF Kept, TypeOK
<1> QED
  BY <1>1, <1>2, <1>3 DEF Next, SourceChanges, Restart, Begin, Collect, Compare,
     Settle, Commit, AddRun, Route, Fail, Abort, vars, history

(* Hence a digest that is covered stays covered. *)
LEMMA OfferedIsStable ==
  ASSUME TypeOK, TypeOK', Kept, NEW c, NEW d, OfferedBy(candidates, c, d)
  PROVE  OfferedBy(candidates', c, d)
<1>1. PICK n \in 1 .. Len(candidates) :
        candidates[n].doc = d /\ candidates[n].text = c.text[d]
  BY DEF OfferedBy
<1>2. n \in 1 .. Len(candidates')
  BY DEF Kept, TypeOK
<1>3. candidates'[n].doc = d /\ candidates'[n].text = c.text[d]
  BY <1>1 DEF Kept
<1> QED
  BY <1>2, <1>3 DEF OfferedBy

LEMMA CoveredIsStable ==
  ASSUME TypeOK, TypeOK', Kept, NEW c, Covered(candidates, c)
  PROVE  Covered(candidates', c)
  BY OfferedIsStable DEF Covered

(* A request whose run collects or submits nothing new, and whose row says  *)
(* nothing new, preserves the invariant.                                    *)
LEMMA CoverMoves ==
  ASSUME TypeOK, TypeOK', Kept, CoverInv, NEW h \in Handlers,
         \A g \in Handlers \ {h} : job'[g] = job[g],
         Covered(candidates', job'[h].row.checksum),
         Covered(candidates', sub'.checksum),
         Covered(candidates', subRow'.checksum),
         job'[h].pc # "submit"
  PROVE  CoverInv'
<1>1. ASSUME NEW g \in Handlers \ {h} PROVE Covered(candidates', job'[g].row.checksum)
  <2>1. Covered(candidates, job[g].row.checksum)
    BY DEF CoverInv
  <2> QED
    BY <2>1, CoveredIsStable
<1>2. ASSUME NEW g \in Handlers \ {h}, job'[g].pc = "submit",
             job'[g].run.status = "changed", NEW d \in Docs, job'[g].seen.text[d] # Blank
      PROVE  d \in job'[g].todo \/ OfferedBy(candidates', job'[g].seen, d)
  <2>1. d \in job[g].todo \/ OfferedBy(candidates, job[g].seen, d)
    BY <1>2 DEF CoverInv
  <2> QED
    BY <2>1, OfferedIsStable
<1> QED
  BY <1>1, <1>2 DEF CoverInv

LEMMA InitCover == Init => CoverInv
  BY DEF Init, CoverInv, Covered, Idle

LEMMA CoverStep == TypeOK /\ TypeOK' /\ CoverInv /\ [Next]_vars => CoverInv'
<1> SUFFICES ASSUME TypeOK, TypeOK', CoverInv, [Next]_vars PROVE CoverInv'
  OBVIOUS
<1> Kept
  BY CandidatesAreKept
<1>0. /\ Covered(candidates', sub.checksum)
      /\ Covered(candidates', subRow.checksum)
      /\ \A h \in Handlers : Covered(candidates', job[h].row.checksum)
  BY CoveredIsStable DEF CoverInv
<1>1. CASE UNCHANGED <<sub, subRow, candidates, job>>
  BY <1>1 DEF CoverInv
<1>2. CASE Restart
  BY <1>0, <1>2 DEF Restart, CoverInv, Idle, Covered
<1>3. ASSUME NEW h \in Handlers, Begin(h) PROVE CoverInv'
  <2>1. /\ \A g \in Handlers \ {h} : job'[g] = job[g]
        /\ job'[h].row = job[h].row
        /\ job'[h].pc # "submit"
    BY <1>3 DEF Begin, TypeOK, Job
  <2>2. UNCHANGED <<sub, subRow>>
    BY <1>3 DEF Begin
  <2> QED
    BY <1>0, <2>1, <2>2, CoverMoves
<1>4. ASSUME NEW h \in Handlers, NEW order \in Orders, Collect(h, order) PROVE CoverInv'
  <2>1. /\ \A g \in Handlers \ {h} : job'[g] = job[g]
        /\ job'[h].row = job[h].row
        /\ job'[h].pc # "submit"
    BY <1>4 DEF Collect, TypeOK, Job
  <2>2. UNCHANGED <<sub, subRow>>
    BY <1>4 DEF Collect
  <2> QED
    BY <1>0, <2>1, <2>2, CoverMoves
(* Every readable document is to be submitted, or the digest is the old one. *)
<1>5. ASSUME NEW h \in Handlers, Compare(h) PROVE CoverInv'
  <2> DEFINE seen == job[h].seen
  <2>1. /\ job' \in [Handlers -> Job]
        /\ \A g \in Handlers \ {h} : job'[g] = job[g]
        /\ job'[h].row = job[h].row /\ job'[h].seen = seen
        /\ job'[h].run.status = "changed" =>
              job'[h].todo = {d \in Docs : seen.text[d] # Blank}
        /\ UNCHANGED <<sub, subRow, candidates>>
    BY <1>5 DEF Compare, TypeOK, Job
  <2> QED
    BY <2>1 DEF CoverInv
(* The submitted document is offered. *)
<1>6. ASSUME NEW h \in Handlers, NEW d \in Docs, Submit(h, d) PROVE CoverInv'
  <2> DEFINE seen == job[h].seen
  <2>1. /\ \A g \in Handlers \ {h} : job'[g] = job[g]
        /\ job[h].pc = "submit"
        /\ job'[h].row = job[h].row /\ job'[h].seen = seen
        /\ job'[h].run = job[h].run /\ job'[h].todo = job[h].todo \ {d}
        /\ UNCHANGED <<sub, subRow>>
    BY <1>6 DEF Submit, TypeOK, Job
  <2>2. OfferedBy(candidates', seen, d)
    <3>1. candidates' = Append(candidates, [doc |-> d, text |-> seen.text[d],
                                            stamped |-> FALSE])
      BY <1>6 DEF Submit
    <3>2. /\ Len(candidates') = Len(candidates) + 1
          /\ candidates'[Len(candidates) + 1] = [doc |-> d, text |-> seen.text[d],
                                                 stamped |-> FALSE]
          /\ Len(candidates) + 1 \in 1 .. Len(candidates')
      BY <3>1 DEF TypeOK
    <3> QED
      BY <3>2 DEF OfferedBy
  <2>3. ASSUME NEW g \in Handlers, job'[g].pc = "submit",
               job'[g].run.status = "changed", NEW e \in Docs,
               job'[g].seen.text[e] # Blank
        PROVE  e \in job'[g].todo \/ OfferedBy(candidates', job'[g].seen, e)
    <3>1. job[g].pc = "submit" /\ job'[g].seen = job[g].seen /\ job'[g].run = job[g].run
      BY <2>1, <2>3
    <3>2. e \in job[g].todo \/ OfferedBy(candidates', job[g].seen, e)
      BY <2>3, <3>1, OfferedIsStable DEF CoverInv
    <3> QED
      BY <2>1, <2>2, <3>1, <3>2
  <2> QED
    BY <1>0, <2>1, <2>3 DEF CoverInv
<1>7. ASSUME NEW h \in Handlers, NEW n \in 1 .. Len(candidates), Stamp(h, n)
      PROVE CoverInv'
  <2>1. UNCHANGED <<sub, subRow, job>>
    BY <1>7 DEF Stamp
  <2> QED
    BY <1>0, <2>1, OfferedIsStable DEF CoverInv
(* A run settles when nothing is left to submit. *)
<1>8. ASSUME NEW h \in Handlers, Settle(h) PROVE CoverInv'
  <2>1. /\ \A g \in Handlers \ {h} : job'[g] = job[g]
        /\ job'[h].row = sub' /\ job'[h].pc = "commit"
        /\ sub'.checksum = IF job[h].run.status = "changed" THEN job[h].seen
                           ELSE sub.checksum
        /\ UNCHANGED <<subRow, candidates>>
    BY <1>8 DEF Settle, TypeOK, Job
  <2>2. job[h].run.status = "changed" => Covered(candidates, job[h].seen)
    BY <1>8 DEF Settle, CoverInv, Covered
  <2> QED
    BY <1>0, <2>1, <2>2, CoverMoves
<1>9. ASSUME NEW h \in Handlers, Commit(h) PROVE CoverInv'
  <2>1. /\ \A g \in Handlers \ {h} : job'[g] = job[g]
        /\ job'[h].row = job[h].row \/ job'[h].row.checksum = NoDigest
        /\ job'[h].pc # "submit"
    BY <1>9 DEF Commit, TypeOK, Job, Idle
  <2>2. subRow' = job[h].row /\ UNCHANGED sub
    BY <1>9 DEF Commit
  <2>3. Covered(candidates', NoDigest)
    BY DEF Covered
  <2>4. Covered(candidates', job'[h].row.checksum)
    BY <1>0, <2>1, <2>3
  <2> QED
    BY <1>0, <2>1, <2>2, <2>4, CoverMoves
<1>10. ASSUME NEW h \in Handlers, AddRun(h) \/ Abort(h) PROVE CoverInv'
  <2>1. /\ \A g \in Handlers \ {h} : job'[g] = job[g]
        /\ job'[h].row.checksum = NoDigest /\ job'[h].pc # "submit"
        /\ UNCHANGED <<sub, subRow>>
    BY <1>10 DEF AddRun, Abort, TypeOK, Job, Idle
  <2>2. Covered(candidates', NoDigest)
    BY DEF Covered
  <2> QED
    BY <1>0, <2>1, <2>2, CoverMoves
<1>11. ASSUME NEW h \in Handlers, NEW s \in {"paused", "active"}, Route(h, s)
       PROVE CoverInv'
  <2>1. /\ \A g \in Handlers \ {h} : job'[g] = job[g]
        /\ job'[h].row = sub' /\ job'[h].pc = "route"
        /\ sub'.checksum = sub.checksum
        /\ UNCHANGED subRow
    BY <1>11 DEF Route, TypeOK, Job, Subscription, Idle
  <2> QED
    BY <1>0, <2>1, CoverMoves
<1>12. ASSUME NEW h \in Handlers, Fail(h) PROVE CoverInv'
  <2>1. /\ \A g \in Handlers \ {h} : job'[g] = job[g]
        /\ job'[h].row = sub' /\ job'[h].pc = "commit"
        /\ sub'.checksum = sub.checksum
        /\ UNCHANGED subRow
    BY <1>12 DEF Fail, TypeOK, Job, Subscription, Idle
  <2> QED
    BY <1>0, <2>1, CoverMoves
<1> QED
  BY <1>1, <1>2, <1>3, <1>4, <1>5, <1>6, <1>7, <1>8, <1>9, <1>10, <1>11, <1>12
  DEF Next, SourceChanges, vars

LEMMA CoverImplies == CoverInv => ChecksumIsCovered
  BY DEF CoverInv, Covered, OfferedBy, ChecksumIsCovered, Offered

-----------------------------------------------------------------------------

(* In every behaviour the subscription, the rows, the candidates, the runs  *)
(* and the requests in progress have their types (models.py).               *)
THEOREM RefreshTypes == Spec => []TypeOK
<1>1. TypeOK /\ [Next]_vars => TypeOK'
  BY TypeStep
<1> QED
  BY <1>1, InitTypes, PTL DEF Spec

(* run_subscription remembers a digest only of what it submitted: whatever  *)
(* runs overlap, fail or crash, however often the source changes, each      *)
(* readable document of the collection that a remembered digest was taken   *)
(* from has its candidate in review.                                        *)
THEOREM RememberedIsSubmitted == Spec => []ChecksumIsCovered
<1>1. TypeOK /\ CoverInv /\ [Next]_vars => TypeOK' /\ CoverInv'
  BY TypeStep, CoverStep
<1> QED
  BY <1>1, InitTypes, InitCover, CoverImplies, PTL DEF Spec

-----------------------------------------------------------------------------

(* No step takes a stamp back. *)
StampsKept ==
    \A n \in 1 .. Len(candidates) : candidates[n].stamped => candidates'[n].stamped

LEMMA StampsAreKept == TypeOK /\ [Next]_vars => StampsKept
<1> SUFFICES ASSUME TypeOK, [Next]_vars PROVE StampsKept
  OBVIOUS
<1>1. ASSUME NEW h \in Handlers, NEW d \in Docs, Submit(h, d) PROVE StampsKept
  BY <1>1 DEF Submit, StampsKept, TypeOK
<1>2. ASSUME NEW h \in Handlers, NEW n \in 1 .. Len(candidates), Stamp(h, n)
      PROVE StampsKept
  BY <1>2 DEF Stamp, StampsKept, TypeOK, Candidate
<1>3. CASE UNCHANGED candidates
  BY <1>3 DEF StampsKept
<1> QED
  BY <1>1, <1>2, <1>3 DEF Next, SourceChanges, Restart, Begin, Collect, Compare,
     Settle, Commit, AddRun, Route, Fail, Abort, vars, history

(* Candidate n is the only one of these for document d, and it says what    *)
(* the collection says.                                                     *)
Sole(cs, c, items, d, n) ==
    /\ cs[n].doc = d /\ cs[n].text = c.text[d]
    /\ \A k \in items : cs[k].doc = d => k = n

(* The candidates of a run are those of its collection, each one stamped.   *)
Complete(cs, c, items) ==
    /\ items \subseteq 1 .. Len(cs)
    /\ \A d \in Docs : c.text[d] # Blank =>
          \E n \in items : Sole(cs, c, items, d, n) /\ cs[n].stamped

(* How far a run in progress is from that.                                  *)
JobComplete(h) ==
    LET me == job[h]
    IN /\ me.pc \in {"idle", "collect", "compare"} => me.made = {} /\ me.run = NoRun
       /\ me.pc = "submit" => me.run.checksum = me.seen
       /\ me.pc = "submit" /\ me.run.status = "changed" =>
             /\ \A d \in me.todo : \A n \in me.made : candidates[n].doc # d
             /\ \A d \in Docs \ me.todo : me.seen.text[d] # Blank =>
                   \E n \in me.made : Sole(candidates, me.seen, me.made, d, n)
       /\ me.pc \in {"commit", "run"} /\ me.run.status = "changed" =>
             Complete(candidates, me.run.checksum, me.run.items)

CompleteInv ==
    /\ \A r \in 1 .. Len(runs) : runs[r].status = "changed" =>
          Complete(candidates, runs[r].checksum, runs[r].items)
    /\ \A h \in Handlers : JobComplete(h)

LEMMA SoleIsStable ==
  ASSUME Kept, NEW c, NEW items, items \subseteq 1 .. Len(candidates),
         NEW d, NEW n \in items, Sole(candidates, c, items, d, n)
  PROVE  Sole(candidates', c, items, d, n)
BY DEF Kept, Sole

LEMMA CompleteIsStable ==
  ASSUME TypeOK, TypeOK', Kept, StampsKept, NEW c, NEW items,
         Complete(candidates, c, items)
  PROVE  Complete(candidates', c, items)
<1>1. items \subseteq 1 .. Len(candidates')
  BY DEF Complete, Kept, TypeOK
<1>2. ASSUME NEW d \in Docs, c.text[d] # Blank
      PROVE  \E n \in items : Sole(candidates', c, items, d, n) /\ candidates'[n].stamped
  <2>1. PICK n \in items : Sole(candidates, c, items, d, n) /\ candidates[n].stamped
    BY <1>2 DEF Complete
  <2> QED
    BY <2>1, SoleIsStable DEF Complete, StampsKept
<1> QED
  BY <1>1, <1>2 DEF Complete

LEMMA WaitingJobComplete ==
  ASSUME TypeOK, TypeOK', Kept, StampsKept, NEW g \in Handlers, job'[g] = job[g],
         JobComplete(g)
  PROVE  JobComplete(g)'
<1>1. job[g].made \subseteq 1 .. Len(candidates)
  BY DEF TypeOK
<1>2. ASSUME NEW d \in Docs,
             \E n \in job[g].made : Sole(candidates, job[g].seen, job[g].made, d, n)
      PROVE  \E n \in job[g].made : Sole(candidates', job[g].seen, job[g].made, d, n)
  BY <1>1, <1>2, SoleIsStable
<1>3. ASSUME NEW d \in job[g].todo, \A n \in job[g].made : candidates[n].doc # d
      PROVE  \A n \in job[g].made : candidates'[n].doc # d
  BY <1>1, <1>3 DEF Kept
<1> QED
  BY <1>2, <1>3, CompleteIsStable DEF JobComplete

LEMMA CompleteMoves ==
  ASSUME TypeOK, TypeOK', Kept, StampsKept, CompleteInv, UNCHANGED runs, NEW h \in Handlers,
         \A g \in Handlers \ {h} : job'[g] = job[g], JobComplete(h)'
  PROVE  CompleteInv'
<1>1. \A g \in Handlers : JobComplete(g)'
  BY WaitingJobComplete DEF CompleteInv
<1>2. \A r \in 1 .. Len(runs) : runs[r].status = "changed" =>
          Complete(candidates', runs[r].checksum, runs[r].items)
  BY CompleteIsStable DEF CompleteInv
<1> QED
  BY <1>1, <1>2 DEF CompleteInv

LEMMA InitComplete == Init => CompleteInv
  BY DEF Init, CompleteInv, JobComplete, Idle

LEMMA CompleteStep == TypeOK /\ TypeOK' /\ CompleteInv /\ [Next]_vars => CompleteInv'
<1> SUFFICES ASSUME TypeOK, TypeOK', CompleteInv, [Next]_vars PROVE CompleteInv'
  OBVIOUS
<1>0. Kept /\ StampsKept
  BY CandidatesAreKept, StampsAreKept
<1>1. CASE SourceChanges \/ UNCHANGED vars
  <2>1. UNCHANGED <<candidates, runs, job>>
    BY <1>1 DEF SourceChanges, vars
  <2> QED
    BY <2>1 DEF CompleteInv, JobComplete
<1>2. CASE Restart
  <2>1. UNCHANGED <<candidates, runs>> /\ \A h \in Handlers : job'[h] = Idle
    BY <1>2 DEF Restart
  <2> QED
    BY <2>1 DEF CompleteInv, JobComplete, Idle
<1>3. ASSUME NEW h \in Handlers, Begin(h) PROVE CompleteInv'
  <2>1. /\ \A g \in Handlers \ {h} : job'[g] = job[g]
        /\ job'[h].made = {} /\ job'[h].run = NoRun
        /\ job'[h].pc \in {"run", "collect"} /\ UNCHANGED runs
    BY <1>3 DEF Begin, TypeOK, Job, CompleteInv, JobComplete
  <2>2. JobComplete(h)'
    BY <2>1 DEF JobComplete, NoRun
  <2> QED
    BY <1>0, <2>1, <2>2, CompleteMoves
<1>4. ASSUME NEW h \in Handlers, NEW order \in Orders, Collect(h, order) PROVE CompleteInv'
  <2>1. /\ \A g \in Handlers \ {h} : job'[g] = job[g]
        /\ job'[h].made = {} /\ job'[h].run = NoRun
        /\ job'[h].pc = "compare" /\ UNCHANGED runs
    BY <1>4 DEF Collect, TypeOK, Job, CompleteInv, JobComplete
  <2> QED
    BY <1>0, <2>1, CompleteMoves DEF JobComplete
<1>5. ASSUME NEW h \in Handlers, Compare(h) PROVE CompleteInv'
  <2>1. /\ \A g \in Handlers \ {h} : job'[g] = job[g]
        /\ job'[h].made = {} /\ job'[h].run.checksum = job[h].seen
        /\ job'[h].pc = "submit" /\ job'[h].seen = job[h].seen
        /\ job'[h].run.status = "changed" =>
              job'[h].todo = {d \in Docs : job[h].seen.text[d] # Blank}
        /\ UNCHANGED runs
    BY <1>5 DEF Compare, TypeOK, Job, CompleteInv, JobComplete
  <2> QED
    BY <1>0, <2>1, CompleteMoves DEF JobComplete
(* The candidate that Submit adds is the only one of its document.          *)
<1>6. ASSUME NEW h \in Handlers, NEW d \in Docs, Submit(h, d) PROVE CompleteInv'
  <2> DEFINE me == job[h]
             n == Len(candidates) + 1
  <2>1. /\ \A g \in Handlers \ {h} : job'[g] = job[g]
        /\ me.pc = "submit" /\ d \in me.todo
        /\ job'[h].pc = "submit" /\ job'[h].seen = me.seen /\ job'[h].run = me.run
        /\ job'[h].todo = me.todo \ {d} /\ job'[h].made = me.made \cup {n}
        /\ UNCHANGED runs
    BY <1>6 DEF Submit, TypeOK, Job
  <2>2. /\ candidates'[n].doc = d /\ candidates'[n].text = me.seen.text[d]
        /\ \A k \in 1 .. Len(candidates) : candidates'[k] = candidates[k]
    BY <1>6 DEF Submit, TypeOK
  <2>3. me.made \subseteq 1 .. Len(candidates) /\ n \notin 1 .. Len(candidates)
    BY DEF TypeOK
  <2>4. JobComplete(h)
    BY DEF CompleteInv
  <2>5. ASSUME me.run.status = "changed", NEW e \in Docs \ (me.todo \ {d}),
               me.seen.text[e] # Blank
        PROVE  \E k \in me.made \cup {n} :
                  Sole(candidates', me.seen, me.made \cup {n}, e, k)
    <3>1. CASE e = d
      <4>1. \A k \in me.made : candidates'[k].doc # d
        BY <2>1, <2>2, <2>3, <2>4, <2>5 DEF JobComplete
      <4>2. Sole(candidates', me.seen, me.made \cup {n}, d, n)
        BY <2>2, <4>1 DEF Sole
      <4> QED
        BY <3>1, <4>2
    <3>2. CASE e # d
      <4>1. PICK k \in me.made : Sole(candidates, me.seen, me.made, e, k)
        BY <2>1, <2>4, <2>5, <3>2 DEF JobComplete
      <4>2. Sole(candidates', me.seen, me.made \cup {n}, e, k)
        BY <2>2, <2>3, <3>2, <4>1 DEF Sole
      <4> QED
        BY <4>2
    <3> QED
      BY <3>1, <3>2
  <2>6. ASSUME me.run.status = "changed", NEW e \in me.todo \ {d}
        PROVE  \A k \in me.made \cup {n} : candidates'[k].doc # e
    BY <2>1, <2>2, <2>3, <2>4, <2>6 DEF JobComplete
  <2>7. JobComplete(h)'
    <3> DEFINE on == job'[h]
    <3>1. on.run.checksum = on.seen
      BY <2>1, <2>4 DEF JobComplete
    <3>2. on.run.status = "changed" =>
            \A e \in Docs \ on.todo : on.seen.text[e] # Blank =>
               \E k \in on.made : Sole(candidates', on.seen, on.made, e, k)
      <4>1. ASSUME on.run.status = "changed", NEW e \in Docs \ on.todo,
                   on.seen.text[e] # Blank
            PROVE  \E k \in on.made : Sole(candidates', on.seen, on.made, e, k)
        <5>1. /\ me.run.status = "changed" /\ e \in Docs \ (me.todo \ {d})
              /\ me.seen.text[e] # Blank
          BY <2>1, <4>1
        <5>2. PICK k \in me.made \cup {n} :
                Sole(candidates', me.seen, me.made \cup {n}, e, k)
          BY <2>5, <5>1
        <5> QED
          BY <2>1, <5>2
      <4> QED
        BY <4>1
    <3>3. on.run.status = "changed" =>
            \A e \in on.todo : \A k \in on.made : candidates'[k].doc # e
      BY <2>1, <2>6
    <3> QED
      BY <2>1, <3>1, <3>2, <3>3 DEF JobComplete
  <2> QED
    BY <1>0, <2>1, <2>7, CompleteMoves
<1>7. ASSUME NEW h \in Handlers, NEW n \in 1 .. Len(candidates), Stamp(h, n)
      PROVE CompleteInv'
  <2>1. UNCHANGED <<runs, job>>
    BY <1>7 DEF Stamp
  <2>2. JobComplete(h)'
    BY <1>0, <2>1, WaitingJobComplete DEF CompleteInv
  <2> QED
    BY <1>0, <2>1, <2>2, CompleteMoves
(* A run settles when each of its candidates is stamped.                    *)
<1>8. ASSUME NEW h \in Handlers, Settle(h) PROVE CompleteInv'
  <2> DEFINE me == job[h]
  <2>1. /\ \A g \in Handlers \ {h} : job'[g] = job[g]
        /\ me.pc = "submit" /\ me.todo = {}
        /\ \A n \in me.made : candidates[n].stamped
        /\ job'[h].pc = "commit" /\ job'[h].run.items = me.made
        /\ job'[h].run.status = me.run.status
        /\ job'[h].run.checksum = me.run.checksum
        /\ UNCHANGED <<runs, candidates>>
    BY <1>8 DEF Settle, TypeOK, Job, Run, Idle
  <2>2. me.made \subseteq 1 .. Len(candidates) /\ JobComplete(h)
    BY DEF TypeOK, CompleteInv
  <2>3. me.run.status = "changed" => Complete(candidates, me.run.checksum, me.made)
    BY <2>1, <2>2 DEF JobComplete, Complete
  <2> QED
    BY <1>0, <2>1, <2>3, CompleteMoves DEF JobComplete
<1>9. ASSUME NEW h \in Handlers, Commit(h) PROVE CompleteInv'
  <2>1. /\ \A g \in Handlers \ {h} : job'[g] = job[g]
        /\ UNCHANGED <<runs, candidates>>
        /\ \/ job'[h] = Idle
           \/ job[h].pc = "commit" /\ job'[h].pc = "run" /\ job'[h].run = job[h].run
    BY <1>9 DEF Commit, TypeOK, Job
  <2>2. JobComplete(h)'
    BY <2>1 DEF JobComplete, CompleteInv, Idle
  <2> QED
    BY <1>0, <2>1, <2>2, CompleteMoves
<1>10. ASSUME NEW h \in Handlers, AddRun(h) PROVE CompleteInv'
  <2>1. /\ \A g \in Handlers \ {h} : job'[g] = job[g]
        /\ UNCHANGED candidates /\ job'[h] = Idle
        /\ job[h].pc = "run" /\ runs' = Append(runs, job[h].run)
    BY <1>10 DEF AddRun, TypeOK, Job
  <2>2. \A g \in Handlers : JobComplete(g)'
    BY <1>0, <2>1, WaitingJobComplete DEF JobComplete, CompleteInv, Idle
  <2>3. job[h].run.status = "changed" =>
          Complete(candidates, job[h].run.checksum, job[h].run.items)
    BY <2>1 DEF JobComplete, CompleteInv
  <2>4. \A r \in 1 .. Len(runs') : 
             runs'[r] = job[h].run \/ (r \in 1 .. Len(runs) /\ runs'[r] = runs[r])
    <3>1. runs \in Seq(Run)
      BY DEF TypeOK
    <3> QED
      BY <2>1, <3>1
  <2> QED
    BY <2>1, <2>2, <2>3, <2>4 DEF CompleteInv
<1>11. ASSUME NEW h \in Handlers,
              Abort(h) \/ \E s \in {"paused", "active"} : Route(h, s)
       PROVE CompleteInv'
  <2>1. /\ \A g \in Handlers \ {h} : job'[g] = job[g]
        /\ UNCHANGED runs
        /\ job'[h].pc \in {"idle", "route"} /\ job'[h].made = {} /\ job'[h].run = NoRun
    <3> DEFINE on == [Idle EXCEPT !.pc = "route", !.row = sub']
    <3>1. DOMAIN job = Handlers
      BY DEF TypeOK
    <3>2. Abort(h) => job' = [job EXCEPT ![h] = Idle] /\ UNCHANGED runs
      BY DEF Abort
    <3>3. ASSUME NEW s \in {"paused", "active"}, Route(h, s)
          PROVE  job' = [job EXCEPT ![h] = on] /\ UNCHANGED runs
      BY <3>3 DEF Route
    <3>4. /\ Idle.pc = "idle" /\ Idle.made = {} /\ Idle.run = NoRun
          /\ on.pc = "route" /\ on.made = {} /\ on.run = NoRun
      BY DEF Idle
    <3> QED
      BY <1>11, <3>1, <3>2, <3>3, <3>4
  <2> QED
    BY <1>0, <2>1, CompleteMoves DEF JobComplete
<1>12. ASSUME NEW h \in Handlers, Fail(h) PROVE CompleteInv'
  <2>1. /\ \A g \in Handlers \ {h} : job'[g] = job[g]
        /\ UNCHANGED runs
        /\ job'[h].pc = "commit" /\ job'[h].run.status = "failed"
    BY <1>12 DEF Fail, TypeOK, Job, NoRun, Idle
  <2> QED
    BY <1>0, <2>1, CompleteMoves DEF JobComplete
<1> QED
  BY <1>1, <1>2, <1>3, <1>4, <1>5, <1>6, <1>7, <1>8, <1>9, <1>10, <1>11, <1>12 DEF Next

LEMMA CompleteImplies == CompleteInv => ChangedRunsAreComplete
  BY DEF CompleteInv, Complete, Sole, ChangedRunsAreComplete

(* Whatever overlaps, fails or crashes, a run recorded as changed names one *)
(* stamped candidate for each readable document of its checksum.            *)
THEOREM ChangedIsComplete == Spec => []ChangedRunsAreComplete
<1>1. TypeOK /\ CompleteInv /\ [Next]_vars => TypeOK' /\ CompleteInv'
  BY TypeStep, CompleteStep
<1> QED
  BY <1>1, InitTypes, InitComplete, CompleteImplies, PTL DEF Spec

-----------------------------------------------------------------------------
(* How many batches may still come without a collection that varies, a      *)
(* failure, a crash or an overlap: BatchInv keeps that many in reserve.     *)

Busy == {h \in Handlers : Running(h)}

(* The runs that have not compared their digest yet.                        *)
Early == {h \in Handlers : job[h].pc \in {"collect", "compare"}}

Differs(a, b) == IF a = b THEN 0 ELSE 1

(* The digest remembered, the last one and every one in use are the same.   *)
InUnison ==
    /\ Digest(sub.checksum) = latest
    /\ \A h \in Handlers :
          job[h].pc \in {"compare", "submit"} => Digest(job[h].seen) = latest

(* One run in progress: it may find a new digest, and so may the next run.  *)
Lone(h) ==
    LET known == Digest(sub.checksum)
        seen == Digest(job[h].seen)
    IN IF job[h].pc = "compare" THEN Differs(known, seen) + Differs(seen, latest)
       ELSE IF job[h].pc = "submit" /\ job[h].run.status = "changed"
       THEN Differs(seen, latest)
       ELSE Differs(known, latest)

(* Several runs: each that has not compared yet, and the next run.          *)
Many == Cardinality(Early) + (IF InUnison THEN 0 ELSE 1)

Limit == varied + errors + crashes + 2 * overlaps

Counters ==
    /\ varied \in Nat /\ errors \in Nat /\ crashes \in Nat
    /\ overlaps \in Nat /\ batches \in Nat

BatchInv ==
    /\ Counters
    /\ IsFiniteSet(Busy)
    /\ Busy = {} => batches + Differs(Digest(sub.checksum), latest) <= Limit
    /\ \A h \in Handlers : Busy = {h} => batches + Lone(h) <= Limit
    /\ (\E g, h \in Busy : g # h) => batches + Many <= Limit

LEMMA LoneFacts ==
  ASSUME NEW m \in Handlers
  PROVE  /\ Lone(m) \in 0 .. 2
         /\ InUnison => Lone(m) = 0
         /\ m \notin Early => Lone(m) <= 1
         /\ Busy = {m} /\ m \in Early /\ ~InUnison => Lone(m) >= 1
<1>1. Lone(m) \in 0 .. 2
  BY DEF Lone, Differs
<1>2. InUnison => Lone(m) = 0
  BY DEF Lone, Differs, InUnison
<1>3. m \notin Early => Lone(m) <= 1
  BY DEF Lone, Differs, Early
<1>4. ASSUME Busy = {m}, m \in Early, ~InUnison PROVE Lone(m) >= 1
  <2>1. \A g \in Handlers : g # m => job[g].pc \notin {"compare", "submit"}
    BY <1>4 DEF Busy, Running
  <2> QED
    BY <1>4, <2>1 DEF Lone, Differs, Early, InUnison
<1> QED
  BY <1>1, <1>2, <1>3, <1>4

LEMMA EarlyIsBusy == IsFiniteSet(Busy) => IsFiniteSet(Early) /\ Cardinality(Early) \in Nat
<1>1. Early \subseteq Busy
  BY DEF Early, Busy, Running
<1> QED
  BY <1>1, FS_Subset, FS_CardinalityType

LEMMA BatchesBounded == BatchInv => batches <= Limit
<1> SUFFICES ASSUME BatchInv PROVE batches <= Limit
  OBVIOUS
<1>0. Counters /\ Limit \in Nat
  BY DEF BatchInv, Counters, Limit
<1>1. CASE Busy = {}
  BY <1>0, <1>1 DEF BatchInv, Differs, Counters
<1>2. CASE \E m \in Handlers : Busy = {m}
  BY <1>0, <1>2, LoneFacts DEF BatchInv, Counters
<1>3. CASE \E g, h \in Busy : g # h
  BY <1>0, <1>3, EarlyIsBusy DEF BatchInv, Many, Counters
<1> QED
  BY <1>1, <1>2, <1>3 DEF Busy

(* The sets after a step of handler h. *)
LEMMA SetsMove ==
  ASSUME IsFiniteSet(Busy), NEW h \in Handlers,
         \A g \in Handlers \ {h} : job'[g] = job[g]
  PROVE  /\ IsFiniteSet(Busy')
         /\ Busy' = IF Running(h)' THEN Busy \cup {h} ELSE Busy \ {h}
         /\ Cardinality(Early) \in Nat /\ Cardinality(Early') \in Nat
         /\ (h \in Early <=> h \in Early') => Cardinality(Early') = Cardinality(Early)
         /\ h \notin Early /\ h \in Early' => Cardinality(Early') = Cardinality(Early) + 1
         /\ h \in Early /\ h \notin Early' => Cardinality(Early) = Cardinality(Early') + 1
<1>1. Busy' = IF Running(h)' THEN Busy \cup {h} ELSE Busy \ {h}
  BY DEF Busy, Running
<1>2. IsFiniteSet(Busy')
  BY <1>1, FS_AddElement, FS_RemoveElement
<1>3. IsFiniteSet(Early) /\ Cardinality(Early) \in Nat
  BY EarlyIsBusy
<1>4. Early' = IF h \in Early' THEN Early \cup {h} ELSE Early \ {h}
  BY DEF Early
<1>5. IsFiniteSet(Early') /\ Cardinality(Early') \in Nat
  <2>1. IsFiniteSet(Early')
    BY <1>3, <1>4, FS_AddElement, FS_RemoveElement
  <2> QED
    BY <2>1, FS_CardinalityType
<1>6. (h \in Early <=> h \in Early') => Early' = Early
  BY <1>4
<1>7. h \notin Early /\ h \in Early' => Cardinality(Early') = Cardinality(Early) + 1
  BY <1>3, <1>4, FS_AddElement
<1>8. h \in Early /\ h \notin Early' => Cardinality(Early') = Cardinality(Early) - 1
  BY <1>3, <1>4, FS_RemoveElement
<1> QED
  BY <1>1, <1>2, <1>3, <1>5, <1>6, <1>7, <1>8

(* Steps that no run notices.                                               *)
LEMMA QuietBatch ==
  ASSUME BatchInv, Counters', NEW more \in {0, 1}, Limit' = Limit + more,
         UNCHANGED <<latest, batches>>,
         sub'.checksum = sub.checksum,
         \A g \in Handlers :
            /\ Running(g)' <=> Running(g)
            /\ Running(g) => /\ job'[g].seen = job[g].seen
                             /\ \/ job'[g].pc = job[g].pc /\ job'[g].run = job[g].run
                                \/ {job'[g].pc, job[g].pc} \subseteq {"commit", "run"}
  PROVE  BatchInv'
<1>1. Busy' = Busy
  BY DEF Busy
<1>2. Early' = Early
  BY DEF Early, Running
<1>3. InUnison' = InUnison
  BY DEF InUnison, Running
<1>4. \A g \in Busy : Lone(g)' = Lone(g)
  BY DEF Lone, Busy
<1>5. Limit \in Nat /\ Limit <= Limit' /\ Limit' \in Nat
  <2>1. Limit \in Nat
    BY DEF BatchInv, Counters, Limit
  <2> QED
    BY <2>1
<1>6. Busy' = {} => batches' + Differs(Digest(sub.checksum), latest)' <= Limit'
  BY <1>1, <1>5 DEF BatchInv, Counters, Differs
<1>7. ASSUME NEW g \in Handlers, Busy' = {g} PROVE batches' + Lone(g)' <= Limit'
  BY <1>1, <1>4, <1>5, <1>7, LoneFacts DEF BatchInv, Counters
<1>8. Many' = Many
  BY <1>2, <1>3 DEF Many
<1>9. Many \in Nat
  BY EarlyIsBusy DEF BatchInv, Many
<1> QED
  BY <1>1, <1>5, <1>6, <1>7, <1>8, <1>9 DEF BatchInv, Counters

(* A run in progress moves on, without a batch of its own.                  *)
LEMMA RunMoves ==
  ASSUME BatchInv, NEW h \in Handlers, Running(h), Running(h)',
         \A g \in Handlers \ {h} : job'[g] = job[g],
         Counters', UNCHANGED <<latest, batches>>, NEW more \in {0, 1},
         Limit' = Limit + more,
         Lone(h)' <= Lone(h) + more, Lone(h)' \in 0 .. 2,
         h \in Early' => h \in Early,
         InUnison => InUnison'
  PROVE  BatchInv'
<1>1. Limit \in Nat /\ batches \in Nat
  BY DEF BatchInv, Counters, Limit
<1>2. Busy' = Busy /\ h \in Busy /\ IsFiniteSet(Busy)
  BY SetsMove DEF BatchInv, Busy
<1>3. /\ Cardinality(Early') <= Cardinality(Early)
      /\ Cardinality(Early) \in Nat /\ Cardinality(Early') \in Nat
  BY <1>2, SetsMove
<1>4. ASSUME NEW g \in Handlers, Busy' = {g} PROVE batches' + Lone(g)' <= Limit'
  <2>1. g = h /\ batches + Lone(h) <= Limit
    BY <1>2, <1>4 DEF BatchInv
  <2> QED
    BY <1>1, <2>1, LoneFacts
<1>5. ASSUME \E f, g \in Busy' : f # g PROVE batches' + Many' <= Limit'
  <2>1. batches + Many <= Limit
    BY <1>2, <1>5 DEF BatchInv
  <2>2. Many \in Nat
    BY <1>3 DEF Many
  <2>3. \A n \in Nat : n <= Many => batches + n <= Limit + more
    BY <1>1, <2>1, <2>2
  <2>4. Many' \in Nat /\ Many' <= Many
    BY <1>3 DEF Many
  <2>5. batches' = batches /\ Limit' = Limit + more
    OBVIOUS
  <2> QED
    BY <2>3, <2>4, <2>5, Zenon
<1> QED
  BY <1>2, <1>4, <1>5 DEF BatchInv

LEMMA InitBatches == Init => BatchInv
<1> SUFFICES ASSUME Init PROVE BatchInv
  OBVIOUS
<1>1. Busy = {}
  BY DEF Init, Busy, Running, Idle
<1>2. Digest(sub.checksum) = latest
  BY DEF Init, Digest
<1> QED
  BY <1>1, <1>2, FS_EmptySet DEF Init, BatchInv, Counters, Limit, Differs

LEMMA BeginBatch ==
  ASSUME TypeOK, BatchInv, NEW h \in Handlers, Begin(h)
  PROVE  BatchInv'
<1>1. /\ \A g \in Handlers \ {h} : job'[g] = job[g]
      /\ job[h].pc = "idle" /\ job'[h].pc \in {"run", "collect"}
      /\ UNCHANGED <<latest, sub, batches, varied, errors, crashes>>
      /\ overlaps' = IF \E g \in Handlers : Running(g) THEN overlaps + 1 ELSE overlaps
  BY DEF Begin, TypeOK, Job
<1>2. /\ ~Running(h) /\ Running(h)' /\ IsFiniteSet(Busy)
      /\ h \notin Busy /\ h \notin Early /\ Limit \in Nat /\ batches \in Nat
      /\ overlaps \in Nat
  BY <1>1 DEF Running, BatchInv, Busy, Early, Counters, Limit
<1>3. /\ Busy' = Busy \cup {h} /\ IsFiniteSet(Busy')
      /\ Cardinality(Early) \in Nat /\ Cardinality(Early') \in Nat
      /\ Cardinality(Early') <= Cardinality(Early) + 1
  BY <1>1, <1>2, SetsMove
<1>4. Counters'
  BY <1>1 DEF BatchInv, Counters
<1>5. InUnison' <=> InUnison
  BY <1>1 DEF InUnison
<1>6. CASE Busy = {}
  <2>1. overlaps' = overlaps /\ Limit' = Limit
    BY <1>1, <1>6 DEF Busy, Limit
  <2>2. Lone(h)' = Differs(Digest(sub.checksum), latest)
    BY <1>1 DEF Lone, Differs
  <2>3. Busy' = {h}
    BY <1>3, <1>6
  <2> QED
    BY <1>1, <1>3, <1>4, <1>6, <2>1, <2>2, <2>3 DEF BatchInv
<1>7. CASE Busy # {}
  <2>1. overlaps' = overlaps + 1
    BY <1>1, <1>7 DEF Busy
  <2>2. Limit' = Limit + 2
    BY <1>1, <1>2, <2>1 DEF Limit, BatchInv, Counters
  <2>3. Many' \in Nat
    BY <1>3 DEF Many
  <2>4. batches + Many' <= Limit + 2
    <3>1. CASE \E f, g \in Busy : f # g
      <4>1. batches + Many <= Limit /\ Many \in Nat
        BY <1>3, <3>1 DEF BatchInv, Many
      <4>2. \A n \in Nat : n <= Many + 1 => batches + n <= Limit + 2
        BY <1>2, <4>1
      <4>3. Many' <= Many + 1
        BY <1>3, <1>5 DEF Many
      <4> QED
        BY <2>3, <4>2, <4>3, Zenon
    <3>2. ASSUME NEW m \in Handlers, Busy = {m} PROVE batches + Many' <= Limit + 2
      <4>1. batches + Lone(m) <= Limit
        BY <3>2 DEF BatchInv
      <4>2. Early \subseteq {m}
        BY <3>2 DEF Early, Busy, Running
      <4>3. Cardinality(Early) = IF m \in Early THEN 1 ELSE 0
        <5>1. m \in Early => Early = {m}
          BY <4>2
        <5>2. m \notin Early => Early = {}
          BY <4>2
        <5> QED
          BY <5>1, <5>2, FS_EmptySet, FS_Singleton
      <4>4. Many' <= Lone(m) + 2
        BY <1>3, <1>5, <3>2, <4>3, LoneFacts DEF Many
      <4>5. \A n \in Nat : n <= Lone(m) + 2 => batches + n <= Limit + 2
        BY <1>2, <4>1, LoneFacts
      <4> QED
        BY <2>3, <4>4, <4>5, Zenon
    <3> QED
      BY <1>7, <3>1, <3>2 DEF Busy
  <2>5. Busy' # {} /\ \A g \in Handlers : Busy' # {g}
    BY <1>2, <1>3, <1>7
  <2> QED
    BY <1>1, <1>3, <1>4, <2>2, <2>4, <2>5 DEF BatchInv
<1> QED
  BY <1>6, <1>7

LEMMA CompareBatch ==
  ASSUME TypeOK, BatchInv, NEW h \in Handlers, Compare(h)
  PROVE  BatchInv'
<1>1. /\ \A g \in Handlers \ {h} : job'[g] = job[g]
      /\ job[h].pc = "compare" /\ job'[h].pc = "submit" /\ job'[h].seen = job[h].seen
      /\ UNCHANGED <<latest, sub, varied, overlaps, errors, crashes>>
      /\ batches' = IF Digest(sub.checksum) # Digest(job[h].seen) THEN batches + 1
                    ELSE batches
      /\ job'[h].run.status = IF Digest(sub.checksum) # Digest(job[h].seen)
                              THEN "changed" ELSE "unchanged"
  BY DEF Compare, TypeOK, Job
<1>2. /\ Running(h) /\ Running(h)' /\ IsFiniteSet(Busy) /\ h \in Busy
      /\ h \in Early /\ h \notin Early' /\ Limit \in Nat /\ batches \in Nat
  BY <1>1 DEF Running, BatchInv, Busy, Early, Counters, Limit
<1>3. /\ Busy' = Busy /\ Cardinality(Early) = Cardinality(Early') + 1
      /\ Cardinality(Early) \in Nat /\ Cardinality(Early') \in Nat
  BY <1>1, <1>2, SetsMove
<1>4. batches' = batches + Differs(Digest(sub.checksum), Digest(job[h].seen))
  BY <1>1, <1>2 DEF Differs
<1>5. Counters' /\ Limit' = Limit
  BY <1>1 DEF BatchInv, Counters, Limit
<1>6. ASSUME NEW g \in Handlers, Busy' = {g} PROVE batches' + Lone(g)' <= Limit'
  <2>1. g = h /\ batches + Lone(h) <= Limit
    BY <1>2, <1>3, <1>6 DEF BatchInv
  <2>2. /\ Lone(h) = Differs(Digest(sub.checksum), Digest(job[h].seen)) + Lone(h)'
        /\ Lone(h)' \in Nat
    BY <1>1 DEF Lone, Differs
  <2>3. Differs(Digest(sub.checksum), Digest(job[h].seen)) \in Nat
    BY DEF Differs
  <2> QED
    BY <1>2, <1>4, <1>5, <2>1, <2>2, <2>3
<1>7. ASSUME \E f, g \in Busy' : f # g PROVE batches' + Many' <= Limit'
  <2>1. batches + Many <= Limit
    BY <1>3, <1>7 DEF BatchInv
  <2>2. InUnison' <=> InUnison
    BY <1>1 DEF InUnison
  <2>3. Many \in Nat
    BY <1>3 DEF Many
  <2>4. \A n \in Nat : Many = n + 1 => batches + n <= Limit /\ batches + 1 + n <= Limit
    BY <1>2, <2>1, <2>3
  <2>5. Many' \in Nat /\ Many = Many' + 1
    BY <1>3, <2>2 DEF Many
  <2>6. batches' = batches \/ batches' = batches + 1
    BY <1>1
  <2>7. Limit' = Limit
    BY <1>5
  <2> QED
    BY <2>4, <2>5, <2>6, <2>7, Zenon
<1> QED
  BY <1>2, <1>3, <1>5, <1>6, <1>7 DEF BatchInv

(* A run ends, with a record or without. *)
LEMMA EndBatch ==
  ASSUME TypeOK, BatchInv, NEW h \in Handlers, Running(h), AddRun(h) \/ Abort(h)
  PROVE  BatchInv'
<1>1. /\ \A g \in Handlers \ {h} : job'[g] = job[g]
      /\ job[h].pc \in {"commit", "run"} /\ job'[h].pc = "idle"
      /\ UNCHANGED <<latest, sub, batches, varied, overlaps, crashes>>
      /\ errors' = errors \/ errors' = errors + 1
  BY DEF AddRun, Abort, Running, TypeOK, Idle, history
<1>2. /\ ~Running(h)' /\ IsFiniteSet(Busy) /\ h \in Busy
      /\ h \notin Early /\ h \notin Early' /\ Limit \in Nat /\ batches \in Nat
  BY <1>1 DEF Running, BatchInv, Busy, Early, Counters, Limit
<1>3. /\ Busy' = Busy \ {h} /\ IsFiniteSet(Busy')
      /\ Cardinality(Early) = Cardinality(Early') /\ Cardinality(Early) \in Nat
  BY <1>1, <1>2, SetsMove
<1>4. Counters' /\ Limit <= Limit' /\ Limit' \in Nat
  <2>1. Counters'
    BY <1>1 DEF BatchInv, Counters
  <2>2. Limit' = Limit \/ Limit' = Limit + 1
    BY <1>1 DEF BatchInv, Counters, Limit
  <2> QED
    BY <1>2, <2>1, <2>2
<1>5. InUnison' <=> InUnison
  BY <1>1 DEF InUnison
<1>6. ASSUME Busy' = {} PROVE batches' + Differs(Digest(sub.checksum), latest)' <= Limit'
  <2>1. Busy = {h}
    BY <1>2, <1>3, <1>6
  <2>2. batches + Lone(h) <= Limit
    BY <2>1 DEF BatchInv
  <2>3. Lone(h) = Differs(Digest(sub.checksum), latest)
    BY <1>1 DEF Lone
  <2>4. Differs(Digest(sub.checksum), latest)' = Differs(Digest(sub.checksum), latest)
    BY <1>1 DEF Differs
  <2> QED
    BY <1>1, <1>2, <1>4, <2>2, <2>3, <2>4, LoneFacts
<1>7. ASSUME NEW m \in Handlers, Busy' = {m} PROVE batches' + Lone(m)' <= Limit'
  <2>1. m # h /\ Busy = {h, m}
    BY <1>2, <1>3, <1>7
  <2>2. batches + Many <= Limit
    BY <2>1 DEF BatchInv
  <2>3. Lone(m)' = Lone(m)
    BY <1>1, <2>1 DEF Lone, Differs
  <2>4. Lone(m) <= Many
    <3>1. m \in Early => Early = {m}
      BY <1>2, <2>1 DEF Early, Busy, Running
    <3>2. m \in Early => Cardinality(Early) = 1
      BY <3>1, FS_Singleton
    <3> QED
      BY <1>3, <3>2, LoneFacts DEF Many
  <2>5. Many \in Nat
    BY <1>3 DEF Many
  <2> QED
    BY <1>1, <1>2, <1>4, <2>2, <2>3, <2>4, <2>5, LoneFacts
<1>8. ASSUME \E f, g \in Busy' : f # g PROVE batches' + Many' <= Limit'
  <2>1. batches + Many <= Limit
    BY <1>3, <1>8 DEF BatchInv
  <2>2. Many' = Many /\ Many \in Nat
    BY <1>3, <1>5 DEF Many
  <2> QED
    BY <1>1, <1>2, <1>4, <2>1, <2>2
<1> QED
  BY <1>3, <1>4, <1>6, <1>7, <1>8 DEF BatchInv

(* A collection with another digest adds one to the limit and at most one to *)
(* what may still come.                                                      *)
LEMMA CollectBatch ==
  ASSUME TypeOK, BatchInv, NEW h \in Handlers, NEW order \in Orders, Collect(h, order)
  PROVE  BatchInv'
<1> DEFINE more == Differs(latest, latest')
<1>1. /\ \A g \in Handlers \ {h} : job'[g] = job[g]
      /\ job[h].pc = "collect" /\ job'[h].pc = "compare" /\ Digest(job'[h].seen) = latest'
      /\ UNCHANGED <<sub, batches, overlaps, errors, crashes>>
      /\ varied' = IF latest # latest' THEN varied + 1 ELSE varied
  <2>1. Read(order) # NoDigest /\ Read(order).digest = Digest(Read(order))
    BY ReadIsTyped, RefreshAssumption DEF TypeOK, Digest
  <2> QED
    BY <2>1 DEF Collect, TypeOK, Job
<1>2. /\ Running(h) /\ Running(h)' /\ IsFiniteSet(Busy) /\ h \in Busy
      /\ h \in Early /\ h \in Early' /\ Limit \in Nat /\ batches \in Nat
  BY <1>1 DEF Running, BatchInv, Busy, Early, Counters, Limit
<1>3. /\ Busy' = Busy /\ Cardinality(Early) = Cardinality(Early')
      /\ Cardinality(Early) \in Nat
  BY <1>1, <1>2, SetsMove
<1>4. /\ more \in {0, 1} /\ varied' = varied + more
      /\ Counters' /\ Limit' = Limit + more
  <2>1. more \in {0, 1} /\ varied' = varied + more
    BY <1>1 DEF Differs, BatchInv, Counters
  <2> HIDE DEF more
  <2> QED
    BY <1>1, <2>1 DEF BatchInv, Counters, Limit
<1>5. ASSUME NEW g \in Handlers, Busy' = {g} PROVE batches' + Lone(g)' <= Limit'
  <2>1. g = h /\ batches + Lone(h) <= Limit
    BY <1>2, <1>3, <1>5 DEF BatchInv
  <2>2. Lone(h)' \in Nat /\ Lone(h)' <= Lone(h) + more
    BY <1>1 DEF Lone, Differs
  <2> HIDE DEF more
  <2> QED
    BY <1>1, <1>2, <1>4, <2>1, <2>2, LoneFacts
<1>6. ASSUME \E f, g \in Busy' : f # g PROVE batches' + Many' <= Limit'
  <2>1. batches + Many <= Limit
    BY <1>3, <1>6 DEF BatchInv
  <2>2. more = 0 => (InUnison => InUnison')
    BY <1>1 DEF InUnison, Differs
  <2> HIDE DEF more
  <2>3. Many \in Nat /\ Many' \in Nat /\ Many' <= Many + more
    BY <1>3, <1>4, <2>2 DEF Many
  <2>4. \A n \in Nat : n <= Many + more => batches + n <= Limit + more
    BY <1>2, <1>4, <2>1, <2>3
  <2>5. batches' = batches /\ Limit' = Limit + more
    BY <1>1, <1>4
  <2> QED
    BY <2>3, <2>4, <2>5, Zenon
<1> QED
  BY <1>2, <1>3, <1>4, <1>5, <1>6 DEF BatchInv

(* What the bookkeeping of a request does to the runs.                      *)
QuietMove(h) ==
    /\ \A g \in Handlers \ {h} : job'[g] = job[g]
    /\ \/ /\ job'[h].pc = job[h].pc /\ job'[h].seen = job[h].seen
          /\ job'[h].run = job[h].run
       \/ /\ job[h].pc = "commit" /\ job'[h].pc = "run"
          /\ job'[h].seen = job[h].seen
       \/ {job[h].pc, job'[h].pc} \subseteq {"idle", "route"}
    /\ UNCHANGED <<latest, batches, varied, overlaps, crashes>>
    /\ errors' = errors \/ errors' = errors + 1
    /\ sub'.checksum = sub.checksum

LEMMA BatchStep == TypeOK /\ BatchInv /\ [Next]_vars => BatchInv'
<1> SUFFICES ASSUME TypeOK, BatchInv, [Next]_vars PROVE BatchInv'
  OBVIOUS
<1>0. Counters /\ Limit \in Nat /\ batches <= Limit
  BY BatchesBounded DEF BatchInv, Counters, Limit
<1>1. CASE SourceChanges
  <2>1. UNCHANGED <<latest, sub, job, batches, varied, overlaps, errors, crashes>>
    BY <1>1 DEF SourceChanges
  <2>2. Counters' /\ Limit' = Limit + 0
    BY <1>0, <2>1 DEF Counters, Limit
  <2> QED
    BY <1>0, <2>1, <2>2, QuietBatch DEF Running
(* A crash forgets the runs: one batch more at most. *)
<1>2. CASE Restart
  <2>1. /\ UNCHANGED <<latest, batches, varied, overlaps, errors>>
        /\ crashes' = crashes + 1 /\ Busy' = {}
    BY <1>2 DEF Restart, history, Busy, Running, Idle
  <2>2. Counters' /\ Limit' = Limit + 1
    BY <1>0, <2>1 DEF Counters, Limit
  <2>3. Differs(Digest(sub.checksum), latest)' \in {0, 1}
    BY DEF Differs
  <2>4. batches' + Differs(Digest(sub.checksum), latest)' <= Limit'
    BY <1>0, <2>1, <2>2, <2>3 DEF Counters
  <2> QED
    BY <2>1, <2>2, <2>4, FS_EmptySet DEF BatchInv
<1>3. ASSUME NEW h \in Handlers, Begin(h) PROVE BatchInv'
  BY <1>3, BeginBatch
<1>4. ASSUME NEW h \in Handlers, NEW order \in Orders, Collect(h, order) PROVE BatchInv'
  BY <1>4, CollectBatch
<1>5. ASSUME NEW h \in Handlers, Compare(h) PROVE BatchInv'
  BY <1>5, CompareBatch
<1>6. ASSUME NEW h \in Handlers, QuietMove(h) PROVE BatchInv'
  <2>1. Counters'
    BY <1>0, <1>6 DEF Counters, QuietMove
  <2>2. Limit' = Limit + 0 \/ Limit' = Limit + 1
    BY <1>0, <1>6 DEF Counters, Limit, QuietMove
  <2>3. PICK more \in {0, 1} : Limit' = Limit + more
    BY <2>2
  <2> QED
    BY <1>6, <2>1, <2>3, QuietBatch DEF Running, QuietMove
<1>7. ASSUME NEW h \in Handlers, NEW d \in Docs, Submit(h, d) PROVE BatchInv'
  <2>1. QuietMove(h)
    BY <1>7 DEF QuietMove, Submit, history, TypeOK, Job
  <2> QED
    BY <1>6, <2>1
<1>8. ASSUME NEW h \in Handlers, NEW n \in 1 .. Len(candidates), Stamp(h, n)
       PROVE  BatchInv'
  <2>1. QuietMove(h)
    BY <1>8 DEF QuietMove, Stamp, history, TypeOK, Job
  <2> QED
    BY <1>6, <2>1
<1>9. ASSUME NEW h \in Handlers, Commit(h) PROVE BatchInv'
  <2>1. QuietMove(h)
    BY <1>9 DEF QuietMove, Commit, history, TypeOK, Job, Idle
  <2> QED
    BY <1>6, <2>1
<1>10. ASSUME NEW h \in Handlers, NEW s \in {"paused", "active"}, Route(h, s)
       PROVE  BatchInv'
  <2>1. QuietMove(h)
    BY <1>10 DEF QuietMove, Route, TypeOK, Job, Idle, Subscription
  <2> QED
    BY <1>6, <2>1
<1>11. ASSUME NEW h \in Handlers, Settle(h) PROVE BatchInv'
  <2>1. /\ \A g \in Handlers \ {h} : job'[g] = job[g]
        /\ job[h].pc = "submit" /\ job'[h].pc = "commit"
        /\ sub'.checksum = IF job[h].run.status = "changed" THEN job[h].seen
                           ELSE sub.checksum
        /\ UNCHANGED <<latest, batches, varied, overlaps, errors, crashes>>
    BY <1>11 DEF Settle, history, TypeOK, Job, Idle
  <2>2. Lone(h)' = Lone(h) /\ Lone(h) \in 0 .. 2
    BY <2>1 DEF Lone, Differs
  <2>3. InUnison => InUnison'
    BY <2>1 DEF InUnison
  <2>4. Counters' /\ Limit' = Limit + 0
    BY <1>0, <2>1 DEF Counters, Limit
  <2> QED
    BY <2>1, <2>2, <2>3, <2>4, RunMoves DEF Running, Early
<1>12. ASSUME NEW h \in Handlers, Fail(h) PROVE BatchInv'
  <2>1. /\ \A g \in Handlers \ {h} : job'[g] = job[g]
        /\ job[h].pc \in {"collect", "submit", "commit"} /\ job'[h].pc = "commit"
        /\ sub'.checksum = sub.checksum /\ errors' = errors + 1
        /\ UNCHANGED <<latest, batches, varied, overlaps, crashes>>
    BY <1>12 DEF Fail, history, TypeOK, Job, Subscription, Idle
  <2>2. Lone(h)' <= Lone(h) + 1 /\ Lone(h)' \in 0 .. 2
    BY <2>1 DEF Lone, Differs
  <2>3. InUnison => InUnison'
    BY <2>1 DEF InUnison
  <2>4. Counters' /\ Limit' = Limit + 1
    BY <1>0, <2>1 DEF Counters, Limit
  <2> QED
    BY <2>1, <2>2, <2>3, <2>4, RunMoves DEF Running, Early
<1>13. ASSUME NEW h \in Handlers, AddRun(h) \/ Abort(h) PROVE BatchInv'
  <2>1. CASE Running(h)
    BY <1>13, <2>1, EndBatch
  <2>2. CASE ~Running(h)
    <3>1. Abort(h) /\ job[h].pc = "route"
      BY <1>13, <2>2 DEF AddRun, Abort, Running
    <3>2. QuietMove(h)
      BY <3>1 DEF QuietMove, Abort, history, TypeOK, Job, Idle
    <3> QED
      BY <1>6, <3>2
  <2> QED
    BY <2>1, <2>2
<1>14. CASE UNCHANGED vars
  <2>1. UNCHANGED <<latest, sub, job, batches, varied, overlaps, errors, crashes>>
    BY <1>14 DEF vars, history
  <2>2. Counters' /\ Limit' = Limit + 0
    BY <1>0, <2>1 DEF Counters, Limit
  <2> QED
    BY <1>0, <2>1, <2>2, QuietBatch DEF Running
<1> QED
  BY <1>1, <1>2, <1>3, <1>4, <1>5, <1>7, <1>8, <1>9, <1>10, <1>11, <1>12, <1>13, <1>14
  DEF Next

(* However runs overlap, fail or crash, duplicates are bounded: one batch   *)
(* for each collection whose digest differs from the one before, for each   *)
(* failure and for each crash, and two for each overlap.                    *)
THEOREM DuplicatesAreBounded == Spec => []BatchesAreBounded
<1>1. TypeOK /\ BatchInv /\ [Next]_vars => TypeOK' /\ BatchInv'
  BY TypeStep, BatchStep
<1>2. BatchInv => BatchesAreBounded
  BY BatchesBounded DEF Limit, BatchesAreBounded
<1> QED
  BY <1>1, <1>2, InitTypes, InitBatches, PTL DEF Spec

=============================================================================
