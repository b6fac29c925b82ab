--------------------------- MODULE Curation_proofs ---------------------------
(***************************************************************************)
(* Machine-checked proofs about Curation, for any drawers, passes, garden  *)
(* runs and bounds, and at the end about Garden, the other half of what a  *)
(* garden run does.                                                        *)
(***************************************************************************)
EXTENDS Curation, FiniteSetTheorems, TLAPS

\* The roles of threads do not overlap.
LEMMA Roles ==
  /\ Passes \subseteq Threads /\ Gardens \subseteq Threads
  /\ Importer \in Threads \ (Passes \cup Gardens \cup {Conductor})
  /\ Conductor \in Threads \ (Passes \cup Gardens \cup {Importer})
  /\ Passes \cap Gardens = {}
BY CurationAssumption DEF Threads

\* A pass that gives up is over, and works on no fact any more.
LEMMA GivenUp ==
  ASSUME TypeOK, NEW p \in Passes, GiveUp(p)
  PROVE  /\ pc' \in [Threads -> Steps] /\ fails' \in 0 .. MaxFails
         /\ touched' \in [Passes -> [Drawers -> Outcomes]]
         /\ failures' \in [Passes -> BOOLEAN] /\ missing' \in [Gardens -> SUBSET Drawers]
         /\ job' \in [Threads -> SUBSET (Jobs \cup Records)]
         /\ \A t \in Threads : /\ job'[t] \subseteq IF t = Conductor THEN Records ELSE Jobs
                               /\ job'[t] # {} <=> pc'[t] \in Busy
                               /\ \A i, j \in job'[t] : i = j
<1>1. pc' = [pc EXCEPT ![p] = "end"] /\ job' = [job EXCEPT ![p] = {}]
  BY Roles DEF GiveUp, Goto, Drop
<1>2. pc' \in [Threads -> Steps] /\ job' \in [Threads -> SUBSET (Jobs \cup Records)]
  BY <1>1 DEF TypeOK, Steps
<1>3. \A t \in Threads : job'[t] = IF t = p THEN {} ELSE job[t]
  BY <1>1 DEF TypeOK
<1>4. \A t \in Threads : pc'[t] = IF t = p THEN "end" ELSE pc[t]
  BY <1>1 DEF TypeOK
<1>5. ASSUME NEW t \in Threads
      PROVE  /\ job'[t] \subseteq IF t = Conductor THEN Records ELSE Jobs
             /\ job'[t] # {} <=> pc'[t] \in Busy
             /\ \A i, j \in job'[t] : i = j
  BY <1>3, <1>4 DEF TypeOK, Busy
<1>6. touched' \in [Passes -> [Drawers -> Outcomes]]
  <2>1. touched \in [Passes -> [Drawers -> Outcomes]]
    BY DEF TypeOK
  <2>2. Untouched \in [Drawers -> Outcomes]
    BY DEF Untouched, Outcomes
  <2>3. touched' = [q \in Passes |-> IF q = p THEN Untouched ELSE touched[q]]
    BY DEF GiveUp
  <2> HIDE DEF Untouched
  <2>4. QED
    BY <2>1, <2>2, <2>3
<1>7. failures' \in [Passes -> BOOLEAN] /\ missing' \in [Gardens -> SUBSET Drawers]
  BY DEF GiveUp, TypeOK
<1>8. fails' \in 0 .. MaxFails
  BY CurationAssumption DEF GiveUp, TypeOK
<1>9. QED
  BY <1>2, <1>5, <1>6, <1>7, <1>8

\* An update that nobody waits for is written all the same.
LEMMA NobodyAnswered ==
  ASSUME NEW p, Unanswered(p)
  PROVE  /\ GiveUp(p)
         /\ UNCHANGED <<copied, edges, atomic, records, imports, rollbacks, bared>>
         /\ \E j \in job[p] : \E old, as :
              Write(j.drawer, Replaced(valid[j.drawer], old, j.new), as)
BY DEF Unanswered, Committed, Asserted

\* Facts, records and the steps of every thread keep their types.
LEMMA TypeInductive == TypeOK /\ [Next]_vars => TypeOK'
<1> SUFFICES ASSUME TypeOK, [Next]_vars PROVE TypeOK'
  OBVIOUS
<1> USE CurationAssumption, Roles DEF TypeOK, Steps, Busy, Jobs, Records, Values, Legacy,
        Outcomes, Untouched, threadVars, boundVars, Goto, Take, Drop
<1>1. ASSUME NEW p \in Passes, NEW seen \in [Drawers -> Outcomes], NEW others \in BOOLEAN, StartPass(p, seen, others)
      PROVE  TypeOK'
  BY <1>1 DEF StartPass
<1>2. ASSUME NEW p \in Passes, NEW d \in Drawers, Consider(p, d)
      PROVE  TypeOK'
  <2>1. PICK old \in Read(d), clears \in Gate(p, d) :
          LET new == Rating[touched[p][d]] IN
          IF clears /\ ~Unchanged(old, new)
          THEN Goto(p, "update") /\ Take(p, Job(d, old, new, valid[d]))
          ELSE UNCHANGED <<pc, job>>
    BY <1>2 DEF Consider
  <2>2. touched' \in [Passes -> [Drawers -> Outcomes]]
    BY <1>2 DEF Consider
  <2>3. Rating[touched[p][d]] \in Values
    BY <1>2 DEF Consider, Rating
  <2>4. old \in SUBSET Values
    BY <2>1 DEF Read
  <2>5. Job(d, old, Rating[touched[p][d]], valid[d]) \in Jobs
    BY <2>3, <2>4 DEF Job
  <2>6. CASE UNCHANGED <<pc, job>>
    BY <1>2, <2>2, <2>6 DEF Consider
  <2>7. CASE Goto(p, "update") /\ Take(p, Job(d, old, Rating[touched[p][d]], valid[d]))
    BY <1>2, <2>2, <2>5, <2>7 DEF Consider
  <2>8. QED
    BY <2>1, <2>6, <2>7
<1>3. ASSUME NEW p \in Passes, UpdateBatch(p) PROVE TypeOK'
  BY <1>3 DEF UpdateBatch, Committed, Write, Replaced, Record
<1>4. ASSUME NEW p \in Passes, Invalidate(p) PROVE TypeOK'
  BY <1>4 DEF Invalidate, Write
<1>5. ASSUME NEW p \in Passes, AssertNew(p) PROVE TypeOK'
  BY <1>5 DEF AssertNew, Asserted, Write, Replaced, Record
<1>6. ASSUME NEW p \in Passes, EndPass(p) PROVE TypeOK'
  BY <1>6 DEF EndPass
<1>7. ASSUME NEW m \in records, Rollback(m) PROVE TypeOK'
  BY <1>7 DEF Rollback, Write, Invalidated
<1>8. CASE Restore
  BY <1>8 DEF Restore, Write, Restored, Invalidated
<1>9. ASSUME NEW g \in Gardens, Garden(g) PROVE TypeOK'
  BY <1>9 DEF Garden
<1>10. ASSUME NEW g \in Gardens, EndGarden(g) PROVE TypeOK'
  BY <1>10 DEF EndGarden
<1>11. ASSUME NEW g \in Gardens, NEW d \in Drawers, Backfill(g, d)
       PROVE  TypeOK'
  BY <1>11 DEF Backfill, Write, Rating
<1>12. ASSUME NEW d \in Drawers, Import(d) PROVE TypeOK'
  <2>1. Job(d, {}, Legacy, {}) \in Jobs
    BY DEF Job
  <2>2. job' = [job EXCEPT ![Importer] = {Job(d, {}, Legacy, {})}]
    BY <1>12 DEF Import
  <2>3. pc' \in {[pc EXCEPT ![Importer] = "marker"], [pc EXCEPT ![Importer] = "fact"]}
    BY <1>12 DEF Import
  <2>4. QED
    BY <1>12, <2>1, <2>2, <2>3 DEF Import
<1>13. CASE ImportFact
  BY <1>13 DEF ImportFact, Write
<1>14. CASE ImportMarker
  <2>1. CASE job' = [job EXCEPT ![Importer] = {}] /\ pc' = [pc EXCEPT ![Importer] = "idle"]
    BY <1>14, <2>1 DEF ImportMarker
  <2>2. CASE UNCHANGED job /\ pc' = [pc EXCEPT ![Importer] = "copy"]
    BY <1>14, <2>2 DEF ImportMarker
  <2>3. QED
    BY <1>14, <2>1, <2>2 DEF ImportMarker
<1>15. CASE MarkerUnread
  BY <1>15 DEF MarkerUnread
<1>16. CASE ImportEmbedding
  BY <1>16 DEF ImportEmbedding
<1>17. CASE ImportCopied
  BY <1>17 DEF ImportCopied
<1>18. ASSUME NEW t \in Threads, Fail(t) PROVE TypeOK'
  BY <1>18 DEF Fail, GiveUp
<1>19. ASSUME NEW p \in Passes, Unanswered(p) PROVE TypeOK'
  <2>1. PICK j \in job[p] :
          \E old, as : Write(j.drawer, Replaced(valid[j.drawer], old, j.new), as)
    BY <1>19, NobodyAnswered
  <2>2. j.drawer \in Drawers /\ j.new \in Values
    BY <2>1
  <2> HIDE DEF Values, Legacy
  <2>3. valid' \in [Drawers -> SUBSET Values] /\ overtaken' \subseteq Drawers
    <3>0. PICK old, as : Write(j.drawer, Replaced(valid[j.drawer], old, j.new), as)
      BY <2>1
    <3>1. Replaced(valid[j.drawer], old, j.new) \in SUBSET Values
      BY <2>2 DEF Replaced
    <3>2. valid \in [Drawers -> SUBSET Values] /\ overtaken \subseteq Drawers
      OBVIOUS
    <3> HIDE DEF TypeOK, Jobs
    <3>3. QED
      BY <2>2, <3>0, <3>1, <3>2 DEF Write
  <2>4. UNCHANGED <<copied, edges, atomic, records, imports, rollbacks, bared>>
    BY <1>19, NobodyAnswered
  <2>5. GiveUp(p)
    BY <1>19, NobodyAnswered
  <2> HIDE DEF TypeOK, Steps, Busy, Jobs, Records, Outcomes, Goto, Drop
  <2>6. QED
    BY <2>3, <2>4, <2>5, GivenUp DEF TypeOK
<1>20. CASE UNCHANGED vars
  BY <1>20 DEF vars
<1> HIDE DEF TypeOK
<1>21. QED
  BY <1>1, <1>2, <1>3, <1>4, <1>5, <1>6, <1>7, <1>8, <1>9, <1>10,
     <1>11, <1>12, <1>13, <1>14, <1>15, <1>16, <1>17, <1>18, <1>19, <1>20
     DEF Next, Pass

THEOREM TypeCorrect == Spec => []TypeOK
<1>1. Init => TypeOK
  BY CurationAssumption
     DEF Init, TypeOK, Steps, Busy, Values, Legacy, Outcomes, Untouched, NoJob
<1>2. QED
  BY <1>1, TypeInductive, PTL DEF Spec

-----------------------------------------------------------------------------
\* What a writer knows is all there is, unless he has raced: inductive.
LEMMA OneInductive == TypeOK /\ OneInv /\ [Next]_vars => OneInv'
<1> SUFFICES ASSUME TypeOK, OneInv, [Next]_vars PROVE OneInv'
  OBVIOUS
<1> USE CurationAssumption, Roles DEF TypeOK, OneInv, Single, Faithful, Busy, Jobs, Records,
        threadVars, boundVars, Goto, Take, Drop
<1>1. ASSUME NEW p \in Passes, NEW seen \in [Drawers -> Outcomes], NEW others \in BOOLEAN, StartPass(p, seen, others)
      PROVE  OneInv'
  BY <1>1 DEF StartPass
<1>2. ASSUME NEW p \in Passes, NEW d \in Drawers, Consider(p, d)
      PROVE  OneInv'
  <2>1. PICK old \in Read(d), clears \in Gate(p, d) :
          LET new == Rating[touched[p][d]] IN
          IF clears /\ ~Unchanged(old, new)
          THEN Goto(p, "update") /\ Take(p, Job(d, old, new, valid[d]))
          ELSE UNCHANGED <<pc, job>>
    BY <1>2 DEF Consider
  <2>2. Single(old) /\ (d \notin overtaken => valid[d] = old)
    <3>1. CASE valid[d] = {}
      BY <3>1 DEF Read
    <3>2. ASSUME NEW v \in valid[d], old = {v} PROVE Single(old) /\ (d \notin overtaken => valid[d] = old)
      BY <3>2
    <3>3. valid[d] # {} => \E v \in valid[d] : old = {v}
      BY <2>1 DEF Read
    <3>4. QED
      BY <2>1, <3>1, <3>2, <3>3 DEF Read
  <2>3. CASE UNCHANGED <<pc, job>>
    BY <1>2, <2>3 DEF Consider
  <2>4. CASE Take(p, Job(d, old, Rating[touched[p][d]], valid[d]))
    BY <1>2, <2>2, <2>4 DEF Consider, Job
  <2>5. QED
    BY <2>1, <2>3, <2>4
<1>3. ASSUME NEW p \in Passes, UpdateBatch(p) PROVE OneInv'
  BY <1>3 DEF UpdateBatch, Committed, Write, Replaced, Record
<1>4. ASSUME NEW p \in Passes, Invalidate(p) PROVE OneInv'
  BY <1>4 DEF Invalidate, Write
<1>5. ASSUME NEW p \in Passes, AssertNew(p) PROVE OneInv'
  BY <1>5 DEF AssertNew, Asserted, Write, Replaced, Record
<1>6. ASSUME NEW p \in Passes, EndPass(p) PROVE OneInv'
  BY <1>6 DEF EndPass
<1>7. ASSUME NEW m \in records, Rollback(m) PROVE OneInv'
  BY <1>7 DEF Rollback, Write, Invalidated
<1>8. CASE Restore
  BY <1>8 DEF Restore, Write, Restored, Invalidated
<1>9. ASSUME NEW g \in Gardens, Garden(g) PROVE OneInv'
  BY <1>9 DEF Garden
<1>10. ASSUME NEW g \in Gardens, EndGarden(g) PROVE OneInv'
  BY <1>10 DEF EndGarden
<1>11. ASSUME NEW g \in Gardens, NEW d \in Drawers, Backfill(g, d)
       PROVE  OneInv'
  BY <1>11 DEF Backfill, Write, Rating
<1>12. ASSUME NEW d \in Drawers, Import(d) PROVE OneInv'
  BY <1>12 DEF Import, Job
<1>13. CASE ImportFact
  BY <1>13 DEF ImportFact, Write
<1>14. CASE ImportMarker
  BY <1>14 DEF ImportMarker, HasMarker
<1>15. CASE MarkerUnread
  BY <1>15 DEF MarkerUnread
<1>16. CASE ImportEmbedding
  BY <1>16 DEF ImportEmbedding
<1>17. CASE ImportCopied
  BY <1>17 DEF ImportCopied
<1>18. ASSUME NEW t \in Threads, Fail(t) PROVE OneInv'
  BY <1>18 DEF Fail, GiveUp
<1>19. ASSUME NEW p \in Passes, Unanswered(p) PROVE OneInv'
  <2>1. /\ \A x \in Threads : job'[x] \subseteq job[x]
        /\ UNCHANGED records
    BY <1>19 DEF Unanswered, GiveUp
  <2>3. PICK j \in job[p] : Committed(j) \/ Asserted(j)
    BY <1>19 DEF Unanswered
  <2>4. overtaken \subseteq overtaken'
    BY <2>3 DEF Committed, Asserted, Write
  <2>5. ASSUME NEW d \in Drawers \ overtaken' PROVE Single(valid'[d])
    BY <2>3, <2>5 DEF Committed, Asserted, Write, Replaced
  <2>6. QED
    BY <2>1, <2>4, <2>5
<1>20. CASE UNCHANGED vars
  BY <1>20 DEF vars
<1> HIDE DEF TypeOK, OneInv
<1>21. QED
  BY <1>1, <1>2, <1>3, <1>4, <1>5, <1>6, <1>7, <1>8, <1>9, <1>10,
     <1>11, <1>12, <1>13, <1>14, <1>15, <1>16, <1>17, <1>18, <1>19, <1>20
     DEF Next, Pass

LEMMA OneInvHolds == Spec => []OneInv
<1>1. Init => OneInv
  BY Roles DEF Init, OneInv, Single, Faithful, NoJob
<1>2. QED
  BY <1>1, TypeCorrect, OneInductive, PTL DEF Spec

\* A drawer that nobody wrote to over something unseen has one importance.
THEOREM OneImportance == Spec => []OneValue
<1>1. TypeOK /\ OneInv => OneValue
  <2> SUFFICES ASSUME OneInv, NEW d \in Drawers \ overtaken
               PROVE  Cardinality(valid[d]) <= 1
    BY DEF OneValue
  <2>1. valid[d] = {} \/ \E v : valid[d] = {v}
    BY DEF OneInv, Single
  <2>2. CASE valid[d] = {}
    BY <2>2, FS_EmptySet
  <2>3. ASSUME NEW v, valid[d] = {v} PROVE Cardinality(valid[d]) <= 1
    <3>1. Cardinality({v}) = 1
      BY FS_Singleton
    <3>2. QED
      BY <2>3, <3>1
  <2>4. QED
    BY <2>1, <2>2, <2>3
<1>2. QED
  BY <1>1, TypeCorrect, OneInvHolds, PTL

\* A rollback restores what the update it reverses had found.
THEOREM RollbacksRestore == Spec => RollbackRestores
<1>1. ASSUME TypeOK, OneInv, [Next]_vars
      PROVE  \A m \in records \ records' :
               m.drawer \in overtaken' \/ valid'[m.drawer] = m.before
  <2> SUFFICES ASSUME NEW m \in records \ records', m.drawer \notin overtaken'
               PROVE  valid'[m.drawer] = m.before
    BY <1>1
  <2>1. Restore
    BY <1>1 DEF Next, Pass, vars, StartPass, Consider, UpdateBatch, Record, Invalidate,
       AssertNew, EndPass, Rollback, Garden, EndGarden, Backfill, Import, ImportFact,
       ImportMarker, MarkerUnread, ImportEmbedding, ImportCopied, Fail, Unanswered
  <2>2. /\ m \in job[Conductor]
        /\ Write(m.drawer, Restored(valid[m.drawer], m), Invalidated(m.after, m))
    BY <2>1 DEF Restore
  <2>3. m.drawer \in Drawers /\ valid \in [Drawers -> SUBSET Values]
    BY <1>1 DEF TypeOK, Records
  <2>4. m.drawer \notin overtaken /\ valid[m.drawer] = Invalidated(m.after, m)
    BY <2>2 DEF Write
  <2>5. m.before = m.old /\ m.after = {m.new}
    BY <1>1, <2>2, <2>4 DEF OneInv, Faithful
  <2>6. QED
    BY <2>2, <2>3, <2>4, <2>5 DEF Write, Restored, Invalidated
<1>2. QED
  BY <1>1, TypeCorrect, OneInvHolds, PTL DEF Spec, RollbackRestores

-----------------------------------------------------------------------------
\* A step of a thread that was not between its two calls leaves who was.
LEMMA BetweenStays ==
  ASSUME NEW t \in Threads, pc[t] \notin {"assert", "restore"},
         \A u \in Threads \ {t} : pc'[u] = pc[u] /\ job'[u] = job[u]
  PROVE  \A d \in Drawers : Between(d) => Between(d)'
BY DEF Between

\* A drawer stays rated, or somebody's unfinished work.
LEMMA RatedStep ==
  ASSUME TypeOK, NeverUnrated, bared \subseteq bared',
         \A m \in records' :
           \/ m \in records
           \/ m.drawer \in Drawers /\ valid'[m.drawer] # {},
         \A d \in Drawers : valid'[d] = {} =>
           \/ Between(d)' \/ d \in bared'
           \/ valid[d] = {} /\ ~Between(d)
  PROVE  NeverUnrated'
BY DEF TypeOK, Records, NeverUnrated

\* Likewise when facts and records are left alone.
LEMMA RatedQuiet ==
  ASSUME TypeOK, NeverUnrated, UNCHANGED <<valid, records, bared>>,
         NEW t \in Threads, pc[t] \notin {"assert", "restore"},
         \A u \in Threads \ {t} : pc'[u] = pc[u] /\ job'[u] = job[u]
  PROVE  NeverUnrated'
<1>1. \A d \in Drawers : Between(d) => Between(d)'
  BY BetweenStays
<1>2. \A m \in records : m.drawer \in Drawers
  BY DEF TypeOK, Records
<1>3. QED
  BY <1>1, <1>2 DEF NeverUnrated

\* What a thread has in hand is a fact of a drawer.
LEMMA JobsOfDrawers ==
  ASSUME TypeOK, NEW t \in Threads
  PROVE  /\ \A j \in job[t] : j.drawer \in Drawers
         /\ \A i, j \in job[t] : i = j
         /\ pc[t] \in Busy => job[t] # {}
BY DEF TypeOK, Jobs, Records

\* An unrated drawer with a record is somebody's unfinished work: inductive.
LEMMA RatedInductive == TypeOK /\ NeverUnrated /\ [Next]_vars => NeverUnrated'
<1> SUFFICES ASSUME TypeOK, NeverUnrated, [Next]_vars PROVE NeverUnrated'
  OBVIOUS
<1> USE Roles DEF boundVars
<1>0. /\ valid \in [Drawers -> SUBSET Values]
      /\ \E U : pc \in [Threads -> U] /\ \E J : job \in [Threads -> J]
  BY DEF TypeOK
<1>1. ASSUME NEW p \in Passes, NEW seen \in [Drawers -> Outcomes], NEW others \in BOOLEAN, StartPass(p, seen, others)
      PROVE  NeverUnrated'
  <2>1. /\ UNCHANGED <<valid, records, bared>> /\ pc[p] \notin {"assert", "restore"}
        /\ \A u \in Threads \ {p} : pc'[u] = pc[u] /\ job'[u] = job[u]
    BY <1>0, <1>1 DEF StartPass, Goto
  <2>2. QED
    BY <2>1, RatedQuiet
<1>2. ASSUME NEW p \in Passes, NEW d \in Drawers, Consider(p, d)
      PROVE  NeverUnrated'
  <2>1. UNCHANGED <<valid, records, bared>> /\ pc[p] \notin {"assert", "restore"}
    BY <1>2 DEF Consider
  <2>2. \A u \in Threads \ {p} : pc'[u] = pc[u] /\ job'[u] = job[u]
    BY <1>0, <1>2 DEF Consider, Goto, Take
  <2>3. QED
    BY <2>1, <2>2, RatedQuiet
<1>3. ASSUME NEW p \in Passes, UpdateBatch(p) PROVE NeverUnrated'
  <2>1. PICK j \in job[p] : Committed(j) /\ Record(p, j, valid'[j.drawer])
    BY <1>3 DEF UpdateBatch
  <2>2. j.drawer \in Drawers
    BY <2>1, JobsOfDrawers
  <2>3. valid' = [valid EXCEPT ![j.drawer] = Replaced(valid[j.drawer], j.old, j.new)]
    BY <2>1 DEF Committed, Write
  <2>4. j.new \in valid'[j.drawer]
    BY <1>0, <2>2, <2>3 DEF Replaced
  <2>5. \A d \in Drawers : valid'[d] = {} => valid[d] = {}
    BY <1>0, <2>2, <2>3, <2>4
  <2>6. /\ pc[p] \notin {"assert", "restore"} /\ bared' = bared
        /\ \A u \in Threads \ {p} : pc'[u] = pc[u] /\ job'[u] = job[u]
    BY <1>0, <1>3 DEF UpdateBatch, Goto, Drop
  <2>7. \A d \in Drawers : Between(d) => Between(d)'
    BY <2>6, BetweenStays
  <2>8. \A m \in records' : m \in records \/ m.drawer = j.drawer
    BY <2>1 DEF Record
  <2>9. QED
    BY <2>2, <2>4, <2>5, <2>6, <2>7, <2>8, RatedStep
<1>4. ASSUME NEW p \in Passes, Invalidate(p) PROVE NeverUnrated'
  <2>1. PICK j \in job[p] : Write(j.drawer, valid[j.drawer] \ j.old, j.seen)
    BY <1>4 DEF Invalidate
  <2>2. \A d \in Drawers \ {j.drawer} : valid'[d] = valid[d]
    BY <1>0, <2>1 DEF Write
  <2>3. /\ pc[p] \notin {"assert", "restore"} /\ pc'[p] = "assert" /\ job' = job
        /\ \A u \in Threads \ {p} : pc'[u] = pc[u]
        /\ records' = records /\ bared' = bared
    BY <1>0, <1>4 DEF Invalidate, Goto
  <2>4. \A d \in Drawers : Between(d) => Between(d)'
    BY <2>3, BetweenStays
  <2>5. Between(j.drawer)'
    BY <2>1, <2>3 DEF Between
  <2>6. QED
    BY <2>2, <2>3, <2>4, <2>5, RatedStep
<1>5. ASSUME NEW p \in Passes, AssertNew(p) PROVE NeverUnrated'
  <2>1. PICK j \in job[p] : Asserted(j) /\ Record(p, j, valid'[j.drawer])
    BY <1>5 DEF AssertNew
  <2>2. j.drawer \in Drawers /\ \A i \in job[p] : i = j
    BY <2>1, JobsOfDrawers
  <2>3. valid' = [valid EXCEPT ![j.drawer] = Replaced(valid[j.drawer], {}, j.new)]
    BY <2>1 DEF Asserted, Write
  <2>4. j.new \in valid'[j.drawer]
    BY <1>0, <2>2, <2>3 DEF Replaced
  <2>5. \A d \in Drawers \ {j.drawer} : valid'[d] = valid[d]
    BY <1>0, <2>3
  <2>6. bared' = bared /\ \A u \in Threads \ {p} : pc'[u] = pc[u] /\ job'[u] = job[u]
    BY <1>0, <1>5 DEF AssertNew, Goto, Drop
  <2>7. \A d \in Drawers \ {j.drawer} : Between(d) => Between(d)'
    BY <2>2, <2>6 DEF Between
  <2>8. \A m \in records' : m \in records \/ m.drawer = j.drawer
    BY <2>1 DEF Record
  <2>9. QED
    BY <2>2, <2>4, <2>5, <2>6, <2>7, <2>8, RatedStep
<1>6. ASSUME NEW p \in Passes, EndPass(p) PROVE NeverUnrated'
  <2>1. /\ UNCHANGED <<valid, records, bared>> /\ pc[p] \notin {"assert", "restore"}
        /\ \A u \in Threads \ {p} : pc'[u] = pc[u] /\ job'[u] = job[u]
    BY <1>0, <1>6 DEF EndPass, Goto
  <2>2. QED
    BY <2>1, RatedQuiet
<1>7. ASSUME NEW m \in records, Rollback(m) PROVE NeverUnrated'
  <2>1. \A d \in Drawers \ {m.drawer} : valid'[d] = valid[d]
    BY <1>0, <1>7 DEF Rollback, Write
  <2>2. /\ pc[Conductor] \notin {"assert", "restore"} /\ pc'[Conductor] = "restore"
        /\ job'[Conductor] = {m}
        /\ \A u \in Threads \ {Conductor} : pc'[u] = pc[u] /\ job'[u] = job[u]
        /\ records' = records /\ bared' = bared
    BY <1>0, <1>7 DEF Rollback, Goto, Take
  <2>3. \A d \in Drawers : Between(d) => Between(d)'
    BY <2>2, BetweenStays
  <2>4. Between(m.drawer)'
    BY <2>2 DEF Between
  <2>5. QED
    BY <2>1, <2>2, <2>3, <2>4, RatedStep
<1>8. CASE Restore
  <2>1. PICK m \in job[Conductor] :
          /\ Write(m.drawer, Restored(valid[m.drawer], m), Invalidated(m.after, m))
          /\ records' = records \ {m}
          /\ bared' = IF m.old = {} THEN bared \cup {m.drawer} ELSE bared
    BY <1>8 DEF Restore
  <2>2. m.drawer \in Drawers /\ \A i \in job[Conductor] : i = m
    BY <2>1, JobsOfDrawers
  <2>3. valid'[m.drawer] = valid[m.drawer] \cup m.old
    BY <1>0, <2>1, <2>2 DEF Write, Restored
  <2>4. \A d \in Drawers \ {m.drawer} : valid'[d] = valid[d]
    BY <1>0, <2>1 DEF Write
  <2>5. valid'[m.drawer] = {} => m.drawer \in bared'
    BY <2>1, <2>3
  <2>6. \A u \in Threads \ {Conductor} : pc'[u] = pc[u] /\ job'[u] = job[u]
    BY <1>0, <1>8 DEF Restore, Goto, Drop
  <2>7. \A d \in Drawers \ {m.drawer} : Between(d) => Between(d)'
    BY <2>2, <2>6 DEF Between
  <2>8. records' \subseteq records /\ bared \subseteq bared'
    BY <2>1
  <2>9. QED
    BY <2>4, <2>5, <2>7, <2>8, RatedStep
<1>9. ASSUME NEW g \in Gardens, Garden(g) PROVE NeverUnrated'
  <2>1. /\ UNCHANGED <<valid, records, bared>> /\ pc[g] \notin {"assert", "restore"}
        /\ \A u \in Threads \ {g} : pc'[u] = pc[u] /\ job'[u] = job[u]
    BY <1>0, <1>9 DEF Garden, Goto
  <2>2. QED
    BY <2>1, RatedQuiet
<1>10. ASSUME NEW g \in Gardens, EndGarden(g) PROVE NeverUnrated'
  <2>1. /\ UNCHANGED <<valid, records, bared>> /\ pc[g] \notin {"assert", "restore"}
        /\ \A u \in Threads \ {g} : pc'[u] = pc[u] /\ job'[u] = job[u]
    BY <1>0, <1>10 DEF EndGarden, Goto
  <2>2. QED
    BY <2>1, RatedQuiet
<1>11. ASSUME NEW g \in Gardens, NEW d \in Drawers, Backfill(g, d)
       PROVE  NeverUnrated'
  <2>1. \A c \in Drawers : valid'[c] = {} => valid[c] = {}
    BY <1>0, <1>11 DEF Backfill, Write
  <2>2. UNCHANGED <<pc, job, records, bared>>
    BY <1>11 DEF Backfill
  <2>3. \A c \in Drawers : Between(c) => Between(c)'
    BY <2>2 DEF Between
  <2>4. QED
    BY <2>1, <2>2, <2>3, RatedStep
<1>12. ASSUME NEW d \in Drawers, Import(d) PROVE NeverUnrated'
  <2>1. UNCHANGED <<valid, records, bared>> /\ pc[Importer] \notin {"assert", "restore"}
    BY <1>12 DEF Import
  <2>2. \A u \in Threads \ {Importer} : pc'[u] = pc[u] /\ job'[u] = job[u]
    BY <1>0, <1>12 DEF Import, Goto, Take
  <2>3. QED
    BY <2>1, <2>2, RatedQuiet
<1>13. CASE ImportFact
  <2>1. \A c \in Drawers : valid'[c] = {} => valid[c] = {}
    BY <1>0, <1>13 DEF ImportFact, Write
  <2>2. /\ UNCHANGED <<records, bared>> /\ pc[Importer] \notin {"assert", "restore"}
        /\ \A u \in Threads \ {Importer} : pc'[u] = pc[u] /\ job'[u] = job[u]
    BY <1>0, <1>13 DEF ImportFact, Goto
  <2>3. \A c \in Drawers : Between(c) => Between(c)'
    BY <2>2, BetweenStays
  <2>4. QED
    BY <2>1, <2>2, <2>3, RatedStep
<1>14. CASE ImportMarker
  <2>1. UNCHANGED <<valid, records, bared>> /\ pc[Importer] \notin {"assert", "restore"}
    BY <1>14 DEF ImportMarker
  <2>2. \A u \in Threads \ {Importer} : pc'[u] = pc[u] /\ job'[u] = job[u]
    BY <1>0, <1>14 DEF ImportMarker, Goto, Drop
  <2>3. QED
    BY <2>1, <2>2, RatedQuiet
<1>15. ASSUME MarkerUnread \/ ImportEmbedding \/ ImportCopied PROVE NeverUnrated'
  <2>1. UNCHANGED <<valid, records, bared>> /\ pc[Importer] \notin {"assert", "restore"}
    BY <1>15 DEF MarkerUnread, ImportEmbedding, ImportCopied
  <2>2. \A u \in Threads \ {Importer} : pc'[u] = pc[u] /\ job'[u] = job[u]
    BY <1>0, <1>15 DEF MarkerUnread, ImportEmbedding, ImportCopied, Goto, Drop
  <2>3. QED
    BY <2>1, <2>2, RatedQuiet
<1>16. ASSUME NEW t \in Threads, Fail(t) PROVE NeverUnrated'
  <2>1. /\ \A u \in Threads \ {t} : pc'[u] = pc[u] /\ job'[u] = job[u]
        /\ valid' = valid /\ records' = records
    BY <1>0, <1>16 DEF Fail, GiveUp, Goto, Drop
  <2>2. bared' = bared \cup
          {j.drawer : j \in {x \in job[t] : pc[t] \in {"assert", "restore"}}}
    BY <1>16 DEF Fail
  <2>3. \A d \in Drawers : Between(d) => Between(d)' \/ d \in bared'
    BY <2>1, <2>2 DEF Between
  <2>4. QED
    BY <2>1, <2>2, <2>3, RatedStep
<1>17. ASSUME NEW p \in Passes, Unanswered(p) PROVE NeverUnrated'
  <2>1. PICK j \in job[p] : Committed(j) \/ Asserted(j)
    BY <1>17 DEF Unanswered
  <2>2. j.drawer \in Drawers /\ \A i \in job[p] : i = j
    BY <2>1, JobsOfDrawers
  <2>3. \E old : valid' = [valid EXCEPT ![j.drawer] = Replaced(valid[j.drawer], old, j.new)]
    BY <2>1 DEF Committed, Asserted, Write
  <2>4. j.new \in valid'[j.drawer]
    BY <1>0, <2>2, <2>3 DEF Replaced
  <2>5. \A d \in Drawers \ {j.drawer} : valid'[d] = valid[d]
    BY <1>0, <2>3
  <2>6. /\ UNCHANGED <<records, bared>>
        /\ \A u \in Threads \ {p} : pc'[u] = pc[u] /\ job'[u] = job[u]
    BY <1>0, <1>17 DEF Unanswered, GiveUp, Goto, Drop
  <2>7. \A d \in Drawers \ {j.drawer} : Between(d) => Between(d)'
    BY <2>2, <2>6 DEF Between
  <2>8. QED
    BY <2>4, <2>5, <2>6, <2>7, RatedStep
<1>18. CASE UNCHANGED vars
  BY <1>18 DEF vars, threadVars, NeverUnrated, Between
<1>19. QED
  BY <1>1, <1>2, <1>3, <1>4, <1>5, <1>6, <1>7, <1>8, <1>9, <1>10,
     <1>11, <1>12, <1>13, <1>14, <1>15, <1>16, <1>17, <1>18
     DEF Next, Pass

\* Who takes a drawer's last value away is between his two calls until the
\* drawer has one again, or is cut off there.
THEOREM StaysRated == Spec => []NeverUnrated
<1>1. Init => NeverUnrated
  BY DEF Init, NeverUnrated
<1>2. TypeOK /\ NeverUnrated /\ [Next]_vars => NeverUnrated'
  BY RatedInductive
<1>3. QED
  BY <1>1, <1>2, TypeCorrect, PTL DEF Spec

-----------------------------------------------------------------------------
\* Embeddings, markers and failures account for each other: inductive.
LEMMA EmbeddedInductive == TypeOK /\ EmbeddedInv /\ [Next]_vars => EmbeddedInv'
<1> SUFFICES ASSUME TypeOK, EmbeddedInv, [Next]_vars PROVE EmbeddedInv'
  OBVIOUS
<1> USE CurationAssumption, Roles DEF TypeOK, EmbeddedInv, At, Busy, Jobs,
        threadVars, boundVars, Goto, Take, Drop
<1>1. ASSUME NEW p \in Passes, NEW seen \in [Drawers -> Outcomes], NEW others \in BOOLEAN, StartPass(p, seen, others)
      PROVE  EmbeddedInv'
  BY <1>1 DEF StartPass
<1>2. ASSUME NEW p \in Passes, NEW d \in Drawers, Consider(p, d)
      PROVE  EmbeddedInv'
  BY <1>2 DEF Consider, Read, Job, Rating, Unchanged
<1>3. ASSUME NEW p \in Passes, UpdateBatch(p) PROVE EmbeddedInv'
  BY <1>3 DEF UpdateBatch, Committed, Write, Replaced, Record
<1>4. ASSUME NEW p \in Passes, Invalidate(p) PROVE EmbeddedInv'
  BY <1>4 DEF Invalidate, Write
<1>5. ASSUME NEW p \in Passes, AssertNew(p) PROVE EmbeddedInv'
  BY <1>5 DEF AssertNew, Asserted, Write, Replaced, Record
<1>6. ASSUME NEW p \in Passes, EndPass(p) PROVE EmbeddedInv'
  BY <1>6 DEF EndPass
<1>7. ASSUME NEW m \in records, Rollback(m) PROVE EmbeddedInv'
  BY <1>7 DEF Rollback, Write, Invalidated
<1>8. CASE Restore
  BY <1>8 DEF Restore, Write, Restored, Invalidated
<1>9. ASSUME NEW g \in Gardens, Garden(g) PROVE EmbeddedInv'
  BY <1>9 DEF Garden
<1>10. ASSUME NEW g \in Gardens, EndGarden(g) PROVE EmbeddedInv'
  BY <1>10 DEF EndGarden
<1>11. ASSUME NEW g \in Gardens, NEW d \in Drawers, Backfill(g, d)
       PROVE  EmbeddedInv'
  BY <1>11 DEF Backfill, Write, Rating
<1>12. ASSUME NEW d \in Drawers, Import(d) PROVE EmbeddedInv'
  BY <1>12 DEF Import, Job
<1>13. CASE ImportFact
  BY <1>13 DEF ImportFact, Write
<1>14. CASE ImportMarker
  <2>1. CASE job' = [job EXCEPT ![Importer] = {}] /\ pc' = [pc EXCEPT ![Importer] = "idle"]
    BY <1>14, <2>1 DEF ImportMarker
  <2>2. CASE UNCHANGED job /\ pc' = [pc EXCEPT ![Importer] = "copy"]
           /\ \E j \in job[Importer] : j.drawer \notin copied
    BY <1>14, <2>2 DEF ImportMarker
  <2>3. QED
    BY <1>14, <2>1, <2>2 DEF ImportMarker, HasMarker
<1>15. CASE MarkerUnread
  BY <1>15 DEF MarkerUnread
<1>16. CASE ImportEmbedding
  BY <1>16 DEF ImportEmbedding
<1>17. CASE ImportCopied
  BY <1>17 DEF ImportCopied
<1>18. ASSUME NEW t \in Threads, Fail(t) PROVE EmbeddedInv'
  BY <1>18 DEF Fail, GiveUp
<1>19. ASSUME NEW p \in Passes, Unanswered(p) PROVE EmbeddedInv'
  BY <1>19 DEF Unanswered, GiveUp, Committed, Asserted, Write, Replaced
<1>20. CASE UNCHANGED vars
  BY <1>20 DEF vars
<1> HIDE DEF TypeOK, EmbeddedInv
<1>21. QED
  BY <1>1, <1>2, <1>3, <1>4, <1>5, <1>6, <1>7, <1>8, <1>9, <1>10,
     <1>11, <1>12, <1>13, <1>14, <1>15, <1>16, <1>17, <1>18, <1>19, <1>20
     DEF Next, Pass

\* A drawer is embedded by the import once, and once more for every failure.
THEOREM OneEmbedding == Spec => []EmbeddedOnce
<1>1. Init => EmbeddedInv
  BY DEF Init, EmbeddedInv
<1>2. EmbeddedInv => EmbeddedOnce
  BY DEF EmbeddedInv, EmbeddedOnce
<1>3. QED
  BY <1>1, <1>2, TypeCorrect, EmbeddedInductive, PTL DEF Spec
==============================================================================
