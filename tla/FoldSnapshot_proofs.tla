------------------------ MODULE FoldSnapshot_proofs ------------------------
(***************************************************************************)
(* Machine-checked proofs about FoldSnapshot, for any set of readers and   *)
(* appenders, any reuse window and any number of appends.                  *)
(***************************************************************************)
EXTENDS FoldSnapshot, TLAPS

\* The fold cache never leaves its types: one snapshot, one build, one
\* extension base and one pending timer at most.
THEOREM TypeCorrect == Spec => []TypeOK
<1>1. Init => TypeOK
  BY FoldAssumption DEF Init, TypeOK, Steps
<1>2. TypeOK /\ [Next]_vars => TypeOK'
  <2> SUFFICES ASSUME TypeOK, [Next]_vars PROVE TypeOK'
    OBVIOUS
  <2> USE FoldAssumption DEF TypeOK, logVars, cacheVars, timerVars, readerVars, Goto
  <2>1. ASSUME NEW a \in Appenders, Append(a) PROVE TypeOK'
    BY <2>1 DEF Append
  <2>2. ASSUME NEW a \in Appenders, OnAppend(a) PROVE TypeOK'
    BY <2>2 DEF OnAppend, Bumped
  <2>3. ASSUME NEW r \in Readers, Call(r) PROVE TypeOK'
    BY <2>3 DEF Call, Steps
  <2>4. ASSUME NEW r \in Readers, Subscribe(r) PROVE TypeOK'
    BY <2>4 DEF Subscribe, Steps
  <2>5. ASSUME NEW r \in Readers, Hit(r) PROVE TypeOK'
    BY <2>5 DEF Hit, Steps
  <2>6. ASSUME NEW r \in Readers, Join(r) PROVE TypeOK'
    BY <2>6 DEF Join, Steps
  <2>7. ASSUME NEW r \in Readers, Own(r) PROVE TypeOK'
    BY <2>7 DEF Own, Steps
  <2>8. ASSUME NEW r \in Readers, Woken(r) PROVE TypeOK'
    BY <2>8 DEF Woken, Steps
  <2>9. ASSUME NEW r \in Readers, Build(r) PROVE TypeOK'
    BY <2>9 DEF Build, Steps, Fold
  <2>10. ASSUME NEW r \in Readers, BuildRaises(r) PROVE TypeOK'
    BY <2>10 DEF BuildRaises, AfterRaise, Steps
  <2>11. ASSUME NEW r \in Readers, UpdatePriorFold(r) PROVE TypeOK'
    BY <2>11 DEF UpdatePriorFold, NextPrior, Steps
  <2>12. ASSUME NEW r \in Readers, Arm(r) PROVE TypeOK'
    BY <2>12 DEF Arm, ArmExpiry, Steps
  <2>13. ASSUME NEW r \in Readers, Publish(r) PROVE TypeOK'
    BY <2>13 DEF Publish, Steps
  <2>14. ASSUME NEW r \in Readers, Finally(r) PROVE TypeOK'
    BY <2>14 DEF Finally, OthersBuild, Steps
  <2>15. ASSUME NEW r \in Readers, SetDone(r) PROVE TypeOK'
    BY <2>15 DEF SetDone, Steps
  <2>16. ASSUME NEW r \in Readers, Return(r) PROVE TypeOK'
    BY <2>16 DEF Return, Steps
  <2>17. CASE Expire
    <3>1. Remaining \in SUBSET (0 .. TTL)
      BY DEF Remaining
    <3>2. expiring' \in SUBSET (0 .. TTL)
      BY <2>17, <3>1 DEF Expire
    <3>3. QED
      BY <2>17, <3>2 DEF Expire
  <2>18. ASSUME NEW delay \in 0 .. TTL, Rearm(delay) PROVE TypeOK'
    BY <2>18 DEF Rearm, ArmExpiry
  <2>19. CASE Tick
    BY <2>19 DEF Tick, Older, Building
  <2>20. CASE UNCHANGED vars
    BY <2>20 DEF vars
  <2>21. QED
    BY <2>1, <2>2, <2>3, <2>4, <2>5, <2>6, <2>7, <2>8, <2>9, <2>10, <2>11,
       <2>12, <2>13, <2>14, <2>15, <2>16, <2>17, <2>18, <2>19, <2>20
       DEF Next, ReaderStep
<1>3. QED
  BY <1>1, <1>2, PTL DEF Spec

-----------------------------------------------------------------------------
\* The invariant behind fresh reads is inductive.
LEMMA FreshInvInductive == TypeOK /\ FreshInv /\ [Next]_vars => FreshInv'
<1> SUFFICES ASSUME TypeOK, FreshInv, [Next]_vars PROVE FreshInv'
  OBVIOUS
<1> USE FoldAssumption DEF TypeOK, FreshInv, FreshAt, SnapshotCurrent, Owner, Fold,
        logVars, cacheVars, timerVars, readerVars, Goto
<1>1. ASSUME NEW a \in Appenders, Append(a) PROVE FreshInv'
  BY <1>1 DEF Append
<1>2. ASSUME NEW a \in Appenders, OnAppend(a) PROVE FreshInv'
  BY <1>2 DEF OnAppend, Bumped
<1>3. ASSUME NEW r \in Readers, Call(r) PROVE FreshInv'
  BY <1>3 DEF Call
<1>4. ASSUME NEW r \in Readers, Subscribe(r) PROVE FreshInv'
  BY <1>4 DEF Subscribe
<1>5. ASSUME NEW r \in Readers, Hit(r) PROVE FreshInv'
  BY <1>5 DEF Hit, Reusable
<1>6. ASSUME NEW r \in Readers, Join(r) PROVE FreshInv'
  BY <1>6 DEF Join
<1>7. ASSUME NEW r \in Readers, Own(r) PROVE FreshInv'
  BY <1>7 DEF Own
<1>8. ASSUME NEW r \in Readers, Woken(r) PROVE FreshInv'
  <2>1. ASSUME NEW q \in Readers PROVE FreshAt(q)'
    <3>1. CASE q = r
      BY <1>8, <3>1 DEF Woken
    <3>2. CASE q # r
      BY <1>8, <3>2 DEF Woken
    <3>3. QED
      BY <3>1, <3>2
  <2>2. QED
    BY <1>8, <2>1 DEF Woken
<1>9. ASSUME NEW r \in Readers, Build(r) PROVE FreshInv'
  <2>1. ASSUME NEW q \in Readers PROVE FreshAt(q)'
    <3>1. CASE q = r
      <4>1. pc[r] = "build" /\ pc'[r] = "prior" /\ fold'[r] # {}
        BY <1>9 DEF Build
      <4>2. \A f \in fold'[r] : f.len = log
        BY <1>9 DEF Build
      <4>3. need[r] <= acked /\ acked <= log
        OBVIOUS
      <4>4. QED
        BY <1>9, <3>1, <4>1, <4>2, <4>3 DEF Build
    <3>2. CASE q # r
      BY <1>9, <3>2 DEF Build
    <3>3. QED
      BY <3>1, <3>2
  <2>2. QED
    BY <1>9, <2>1 DEF Build
<1>10. ASSUME NEW r \in Readers, BuildRaises(r) PROVE FreshInv'
  BY <1>10 DEF BuildRaises, AfterRaise
<1>11. ASSUME NEW r \in Readers, UpdatePriorFold(r) PROVE FreshInv'
  BY <1>11 DEF UpdatePriorFold
<1>12. ASSUME NEW r \in Readers, Arm(r) PROVE FreshInv'
  BY <1>12 DEF Arm
<1>13. ASSUME NEW r \in Readers, Publish(r) PROVE FreshInv'
  BY <1>13 DEF Publish, StillCurrent
<1>14. ASSUME NEW r \in Readers, Finally(r) PROVE FreshInv'
  BY <1>14 DEF Finally
<1>15. ASSUME NEW r \in Readers, SetDone(r) PROVE FreshInv'
  <2>1. ASSUME NEW q \in Readers PROVE FreshAt(q)'
    <3>1. CASE q = r
      BY <1>15, <3>1 DEF SetDone
    <3>2. CASE q # r
      BY <1>15, <3>2 DEF SetDone, Wakes
    <3>3. QED
      BY <3>1, <3>2
  <2>2. QED
    BY <1>15, <2>1 DEF SetDone
<1>16. ASSUME NEW r \in Readers, Return(r) PROVE FreshInv'
  BY <1>16 DEF Return
<1>17. CASE Expire
  BY <1>17 DEF Expire
<1>18. ASSUME NEW delay \in 0 .. TTL, Rearm(delay) PROVE FreshInv'
  BY <1>18 DEF Rearm
<1>19. CASE Tick
  BY <1>19 DEF Tick, Older
<1>20. CASE UNCHANGED vars
  BY <1>20 DEF vars
<1>21. QED
  BY <1>1, <1>2, <1>3, <1>4, <1>5, <1>6, <1>7, <1>8, <1>9, <1>10,
     <1>11, <1>12, <1>13, <1>14, <1>15, <1>16, <1>17, <1>18, <1>19, <1>20
     DEF Next, ReaderStep

LEMMA FreshInvHolds == Spec => []FreshInv
<1>1. Init => FreshInv
  BY DEF Init, FreshInv, FreshAt, SnapshotCurrent, Owner
<1>2. QED
  BY <1>1, TypeCorrect, FreshInvInductive, PTL DEF Spec

\* No read, cached, joined or built, misses an event acknowledged before it.
THEOREM ReadsAreFresh == Spec => []FreshRead
<1>1. TypeOK /\ FreshInv => FreshRead
  BY DEF TypeOK, FreshInv, FreshAt, FreshRead
<1>2. QED
  BY <1>1, TypeCorrect, FreshInvHolds, PTL

\* A published snapshot is current and complete whenever it can be reused.
THEOREM SnapshotIsCurrent == Spec => []SnapshotCurrent
<1>1. FreshInv => SnapshotCurrent
  BY DEF FreshInv
<1>2. QED
  BY <1>1, FreshInvHolds, PTL

-----------------------------------------------------------------------------
\* A step in which every reader keeps its phase, its answer and its demand,
\* and which leaves the log alone, is invisible to FreshReads.
LEMMA Invisible ==
  ASSUME UNCHANGED <<log, acked, need>>,
         \A q \in Readers : PhaseOf(q)' = PhaseOf(q) /\ AnswerOf(q)' = AnswerOf(q)
  PROVE  UNCHANGED Promise!vars
<1>1. [q \in Readers |-> PhaseOf(q)]' = [q \in Readers |-> PhaseOf(q)]
  OBVIOUS
<1>2. [q \in Readers |-> AnswerOf(q)]' = [q \in Readers |-> AnswerOf(q)]
  OBVIOUS
<1>3. QED
  BY <1>1, <1>2 DEF Promise!vars

\* A step in which one reader goes from reading to answered, with a prefix it
\* may be served, is an Answer step of FreshReads.
LEMMA Answers ==
  ASSUME TypeOK, NEW r \in Readers, NEW n \in need[r] .. log,
         UNCHANGED <<log, acked, need>>,
         PhaseOf(r) = "reading", PhaseOf(r)' = "answered", AnswerOf(r)' = {n},
         \A q \in Readers \ {r} :
           PhaseOf(q)' = PhaseOf(q) /\ AnswerOf(q)' = AnswerOf(q)
  PROVE  Promise!Answer(r)
<1> DEFINE phase == [q \in Readers |-> PhaseOf(q)]
           answer == [q \in Readers |-> AnswerOf(q)]
<1>1. phase' = [phase EXCEPT ![r] = "answered"]
  OBVIOUS
<1>2. answer' = [answer EXCEPT ![r] = {n}]
  OBVIOUS
<1>3. phase[r] = "reading"
  OBVIOUS
<1> HIDE DEF phase, answer
<1>4. QED
  BY <1>1, <1>2, <1>3 DEF Promise!Answer, phase, answer

\* Likewise for a reader that goes from reading to raised.
LEMMA Raises ==
  ASSUME NEW r \in Readers, UNCHANGED <<log, acked, need>>,
         PhaseOf(r) = "reading", PhaseOf(r)' = "raised", AnswerOf(r)' = AnswerOf(r),
         \A q \in Readers \ {r} :
           PhaseOf(q)' = PhaseOf(q) /\ AnswerOf(q)' = AnswerOf(q)
  PROVE  Promise!Raise(r)
<1> DEFINE phase == [q \in Readers |-> PhaseOf(q)]
<1>1. phase' = [phase EXCEPT ![r] = "raised"]
  OBVIOUS
<1>2. [q \in Readers |-> AnswerOf(q)]' = [q \in Readers |-> AnswerOf(q)]
  OBVIOUS
<1>3. phase[r] = "reading"
  OBVIOUS
<1> HIDE DEF phase
<1>4. QED
  BY <1>1, <1>2, <1>3 DEF Promise!Raise, phase

\* Every step of the cache is a step of FreshReads or invisible to it.
LEMMA StepSimulation ==
  TypeOK /\ FreshInv /\ [Next]_vars => [Promise!Next]_Promise!vars
<1> SUFFICES ASSUME TypeOK, FreshInv, [Next]_vars
             PROVE  Promise!Next \/ UNCHANGED Promise!vars
  OBVIOUS
<1> USE DEF logVars, cacheVars, timerVars, readerVars, Goto
<1>1. ASSUME NEW a \in Appenders, Append(a) PROVE Promise!Commit
  BY <1>1 DEF Append, Promise!Commit, PhaseOf, AnswerOf
<1>2. ASSUME NEW a \in Appenders, OnAppend(a) PROVE Promise!Acknowledge
  <2>1. acked' \in acked .. log
    BY <1>2 DEF OnAppend, TypeOK, FreshInv
  <2>2. QED
    BY <1>2, <2>1 DEF OnAppend, Promise!Acknowledge, PhaseOf, AnswerOf
<1>3. ASSUME NEW r \in Readers, Call(r) PROVE Promise!Call(r)
  <2> DEFINE phase == [q \in Readers |-> PhaseOf(q)]
  <2>1. phase[r] = "idle"
    BY <1>3 DEF Call, PhaseOf
  <2>2. phase' = [phase EXCEPT ![r] = "reading"]
    BY <1>3 DEF Call, PhaseOf, TypeOK
  <2>3. [q \in Readers |-> AnswerOf(q)]' = [q \in Readers |-> AnswerOf(q)]
    BY <1>3 DEF Call, AnswerOf, TypeOK
  <2> HIDE DEF phase
  <2>4. QED
    BY <1>3, <2>1, <2>2, <2>3 DEF Call, Promise!Call, phase
<1>4. ASSUME NEW r \in Readers, Subscribe(r) PROVE UNCHANGED Promise!vars
  BY <1>4, Invisible DEF Subscribe, PhaseOf, AnswerOf, TypeOK
<1>5. ASSUME NEW r \in Readers, Join(r) PROVE UNCHANGED Promise!vars
  BY <1>5, Invisible DEF Join, PhaseOf, AnswerOf, TypeOK
<1>6. ASSUME NEW r \in Readers, Own(r) PROVE UNCHANGED Promise!vars
  BY <1>6, Invisible DEF Own, PhaseOf, AnswerOf, TypeOK
<1>7. ASSUME NEW r \in Readers, Build(r) PROVE UNCHANGED Promise!vars
  BY <1>7, Invisible DEF Build, PhaseOf, AnswerOf, TypeOK
<1>8. ASSUME NEW r \in Readers, UpdatePriorFold(r) PROVE UNCHANGED Promise!vars
  BY <1>8, Invisible DEF UpdatePriorFold, PhaseOf, AnswerOf, TypeOK
<1>9. ASSUME NEW r \in Readers, Publish(r) PROVE UNCHANGED Promise!vars
  BY <1>9, Invisible DEF Publish, PhaseOf, AnswerOf, TypeOK
<1>10. ASSUME NEW r \in Readers, Finally(r) PROVE UNCHANGED Promise!vars
  BY <1>10, Invisible DEF Finally, PhaseOf, AnswerOf, TypeOK
<1>11. ASSUME NEW r \in Readers, Hit(r) PROVE Promise!Answer(r)
  <2>1. PICK s \in snapshot : fold' = [fold EXCEPT ![r] = {s.fold}]
    BY <1>11 DEF Hit
  <2>2. s.fold.len \in need[r] .. log
    BY <2>1 DEF TypeOK, Fold, FreshInv, FreshAt, SnapshotCurrent
  <2>3. PhaseOf(r) = "reading" /\ PhaseOf(r)' = "answered"
    BY <1>11, <2>1 DEF Hit, PhaseOf, TypeOK
  <2>4. AnswerOf(r)' = {s.fold.len}
    BY <1>11, <2>1 DEF Hit, AnswerOf, TypeOK
  <2>5. \A q \in Readers \ {r} :
          PhaseOf(q)' = PhaseOf(q) /\ AnswerOf(q)' = AnswerOf(q)
    BY <1>11, <2>1 DEF Hit, PhaseOf, AnswerOf, TypeOK
  <2>6. QED
    BY <1>11, <2>2, <2>3, <2>4, <2>5, Answers DEF Hit
<1>12. ASSUME NEW r \in Readers, Woken(r)
       PROVE  Promise!Answer(r) \/ UNCHANGED Promise!vars
  <2>1. CASE UNCHANGED fold /\ pc' = [pc EXCEPT ![r] = "build"]
    BY <1>12, <2>1, Invisible DEF Woken, PhaseOf, AnswerOf, TypeOK
  <2>2. ASSUME NEW s \in snapshot, fold' = [fold EXCEPT ![r] = {s.fold}],
               pc' = [pc EXCEPT ![r] = "done"]
        PROVE  Promise!Answer(r)
    <3>1. s.fold.len \in need[r] .. log
      BY DEF TypeOK, Fold, FreshInv, FreshAt, SnapshotCurrent
    <3>2. PhaseOf(r) = "reading" /\ PhaseOf(r)' = "answered"
      BY <1>12, <2>2 DEF Woken, PhaseOf, TypeOK
    <3>3. AnswerOf(r)' = {s.fold.len}
      BY <1>12, <2>2 DEF Woken, AnswerOf, TypeOK
    <3>4. \A q \in Readers \ {r} :
            PhaseOf(q)' = PhaseOf(q) /\ AnswerOf(q)' = AnswerOf(q)
      BY <1>12, <2>2 DEF Woken, PhaseOf, AnswerOf, TypeOK
    <3>5. QED
      BY <1>12, <3>1, <3>2, <3>3, <3>4, Answers DEF Woken
  <2>3. QED
    BY <1>12, <2>1, <2>2 DEF Woken
<1>13. ASSUME NEW r \in Readers, BuildRaises(r)
       PROVE  Promise!Raise(r) \/ UNCHANGED Promise!vars
  <2>1. CASE pc' = [pc EXCEPT ![r] = "finally"]
    BY <1>13, <2>1, Invisible DEF BuildRaises, PhaseOf, AnswerOf, TypeOK
  <2>2. CASE pc' = [pc EXCEPT ![r] = "raised"]
    BY <1>13, <2>2, Raises DEF BuildRaises, PhaseOf, AnswerOf, TypeOK
  <2>3. QED
    BY <1>13, <2>1, <2>2 DEF BuildRaises, AfterRaise
<1>14. ASSUME NEW r \in Readers, Arm(r)
       PROVE  Promise!Answer(r) \/ UNCHANGED Promise!vars
  <2>1. CASE pc' = [pc EXCEPT ![r] = "publish"]
    BY <1>14, <2>1, Invisible DEF Arm, PhaseOf, AnswerOf, TypeOK
  <2>2. CASE pc' = [pc EXCEPT ![r] = "done"]
    <3>1. PICK f \in fold[r] : fold[r] = {f}
      BY <1>14 DEF Arm, TypeOK, FreshInv, FreshAt
    <3>2. f.len \in need[r] .. log
      BY <3>1 DEF TypeOK, Fold, FreshInv, FreshAt
    <3>3. QED
      BY <1>14, <2>2, <3>1, <3>2, Answers DEF Arm, PhaseOf, AnswerOf, TypeOK
  <2>3. QED
    BY <1>14, <2>1, <2>2 DEF Arm
<1>15. ASSUME NEW r \in Readers, SetDone(r)
       PROVE  Promise!Raise(r) \/ UNCHANGED Promise!vars
  <2>1. \A q \in Readers \ {r} :
          PhaseOf(q)' = PhaseOf(q) /\ AnswerOf(q)' = AnswerOf(q)
    BY <1>15 DEF SetDone, Wakes, PhaseOf, AnswerOf, TypeOK
  <2>2. CASE pc'[r] = "rearm"
    BY <1>15, <2>1, <2>2, Invisible DEF SetDone, PhaseOf, AnswerOf, TypeOK
  <2>3. CASE pc'[r] = "raised"
    BY <1>15, <2>1, <2>3, Raises DEF SetDone, PhaseOf, AnswerOf, TypeOK
  <2>4. QED
    BY <1>15, <2>2, <2>3 DEF SetDone
<1>16. ASSUME NEW r \in Readers, Return(r) PROVE Promise!Return(r)
  <2> DEFINE phase == [q \in Readers |-> PhaseOf(q)]
             answer == [q \in Readers |-> AnswerOf(q)]
  <2>1. phase[r] \in {"answered", "raised"}
    BY <1>16 DEF Return, PhaseOf
  <2>2. phase' = [phase EXCEPT ![r] = "idle"]
    BY <1>16 DEF Return, PhaseOf, TypeOK
  <2>3. answer' = [answer EXCEPT ![r] = {}]
    BY <1>16 DEF Return, AnswerOf, TypeOK
  <2> HIDE DEF phase, answer
  <2>4. QED
    BY <1>16, <2>1, <2>2, <2>3 DEF Return, Promise!Return, phase, answer
<1>17. ASSUME \/ Expire
              \/ \E delay \in 0 .. TTL : Rearm(delay)
              \/ UNCHANGED vars
       PROVE  UNCHANGED Promise!vars
  BY <1>17 DEF Expire, Rearm, vars, Promise!vars, PhaseOf, AnswerOf
<1>18. ASSUME Tick PROVE UNCHANGED Promise!vars
  BY <1>18 DEF Tick, Promise!vars, PhaseOf, AnswerOf
<1>19. QED
  BY <1>1, <1>2, <1>3, <1>4, <1>5, <1>6, <1>7, <1>8, <1>9, <1>10, <1>11,
     <1>12, <1>13, <1>14, <1>15, <1>16, <1>17, <1>18
     DEF Next, ReaderStep, Promise!Next

\* The fold cache implements the promise of an uncached log.
THEOREM CacheIsInvisible == Spec => ImplementsFreshReads
<1>1. Init => Promise!Init
  BY DEF Init, Promise!Init, PhaseOf, AnswerOf
<1>2. QED
  BY <1>1, StepSimulation, TypeCorrect, FreshInvHolds, PTL
     DEF Spec, Promise!Spec, ImplementsFreshReads

-----------------------------------------------------------------------------
\* The invariant behind single flight and the release of waiters is inductive.
LEMMA FlightInvInductive == TypeOK /\ FlightInv /\ [Next]_vars => FlightInv'
<1> SUFFICES ASSUME TypeOK, FlightInv, [Next]_vars PROVE FlightInv'
  OBVIOUS
<1> USE FoldAssumption DEF TypeOK, FlightInv, FlightAt, SingleFlight,
        NoOrphanWaiter, Building, Owner,
        logVars, cacheVars, timerVars, readerVars, Goto
<1>1. ASSUME NEW a \in Appenders, Append(a) PROVE FlightInv'
  BY <1>1 DEF Append
<1>2. ASSUME NEW a \in Appenders, OnAppend(a) PROVE FlightInv'
  BY <1>2 DEF OnAppend, Bumped
<1>3. ASSUME NEW r \in Readers, Call(r) PROVE FlightInv'
  BY <1>3 DEF Call
<1>4. ASSUME NEW r \in Readers, Subscribe(r) PROVE FlightInv'
  BY <1>4 DEF Subscribe
<1>5. ASSUME NEW r \in Readers, Hit(r) PROVE FlightInv'
  BY <1>5 DEF Hit, Reusable
<1>6. ASSUME NEW r \in Readers, Join(r) PROVE FlightInv'
  BY <1>6 DEF Join
<1>7. ASSUME NEW r \in Readers, Own(r) PROVE FlightInv'
  <2>1. building' = {[gen |-> generation, by |-> r]} /\ Building(r)'
    BY <1>7 DEF Own
  <2>2. \A q \in Readers \ {r} :
          /\ (Building(q)' <=> Building(q)) /\ gen'[q] = gen[q]
          /\ pc'[q] = pc[q] /\ event'[q] = event[q]
    BY <1>7 DEF Own
  <2>3. ASSUME NEW q \in Readers, Building(q), gen[q] = generation PROVE FALSE
    <3>1. [gen |-> generation, by |-> q] \in building
      BY <2>3
    <3>2. QED
      BY <1>7, <3>1 DEF Own
  <2>4. SingleFlight'
    BY <1>7, <2>2, <2>3 DEF Own
  <2>5. NoOrphanWaiter'
    BY <1>7, <2>2 DEF Own
  <2>6. \A q \in Readers : FlightAt(q)'
    BY <1>7, <2>1, <2>2, <2>3 DEF Own
  <2>7. QED
    BY <1>7, <2>1, <2>4, <2>5, <2>6 DEF Own
<1>8. ASSUME NEW r \in Readers, Woken(r) PROVE FlightInv'
  BY <1>8 DEF Woken
<1>9. ASSUME NEW r \in Readers, Build(r) PROVE FlightInv'
  BY <1>9 DEF Build
<1>10. ASSUME NEW r \in Readers, BuildRaises(r) PROVE FlightInv'
  BY <1>10 DEF BuildRaises, AfterRaise
<1>11. ASSUME NEW r \in Readers, UpdatePriorFold(r) PROVE FlightInv'
  BY <1>11 DEF UpdatePriorFold
<1>12. ASSUME NEW r \in Readers, Arm(r) PROVE FlightInv'
  BY <1>12 DEF Arm
<1>13. ASSUME NEW r \in Readers, Publish(r) PROVE FlightInv'
  BY <1>13 DEF Publish
<1>14. ASSUME NEW r \in Readers, Finally(r) PROVE FlightInv'
  BY <1>14 DEF Finally, OthersBuild
<1>15. ASSUME NEW r \in Readers, SetDone(r) PROVE FlightInv'
  <2> DEFINE step(q) == IF q = r THEN IF fold[r] = {} THEN "raised" ELSE "rearm"
                        ELSE IF Wakes(r, q) THEN "woken" ELSE pc[q]
  <2>0. /\ \A q \in Readers : pc'[q] = step(q)
        /\ pc[r] = "set" /\ UNCHANGED <<gen, event, generation, building>>
    BY <1>15 DEF SetDone
  <2>1. \A q \in Readers : ~Building(q) => ~Building(q)'
    BY <2>0 DEF Wakes
  <2>2. \A q \in Readers : Building(q) => Building(q)' /\ pc'[q] = pc[q]
    BY <2>0 DEF Wakes
  <2>3. SingleFlight'
    BY <1>15, <2>1 DEF SetDone
  <2>4. NoOrphanWaiter'
    <3> SUFFICES ASSUME NEW w \in Readers, pc'[w] = "wait"
                 PROVE  \E o \in event[w] :
                          Building(o)' \/ (Owner(o)' /\ pc'[o] = "set")
      BY <2>0
    <3>1. pc[w] = "wait" /\ r \notin event[w]
      BY <2>0 DEF Wakes
    <3>2. PICK o \in event[w] : Building(o) \/ (Owner(o) /\ pc[o] = "set")
      BY <3>1
    <3>3. o \in Readers /\ o # r
      BY <3>1, <3>2
    <3>4. pc'[o] = pc[o]
      BY <2>0, <3>2, <3>3 DEF Wakes
    <3>5. QED
      BY <2>0, <3>2, <3>4
  <2>5. \A q \in Readers : FlightAt(q)'
    BY <2>0, <2>1 DEF Wakes
  <2>6. QED
    BY <2>0, <2>2, <2>3, <2>4, <2>5
<1>16. ASSUME NEW r \in Readers, Return(r) PROVE FlightInv'
  BY <1>16 DEF Return
<1>17. CASE Expire
  BY <1>17 DEF Expire
<1>18. ASSUME NEW delay \in 0 .. TTL, Rearm(delay) PROVE FlightInv'
  BY <1>18 DEF Rearm
<1>19. CASE Tick
  BY <1>19 DEF Tick
<1>20. CASE UNCHANGED vars
  BY <1>20 DEF vars
<1>21. QED
  BY <1>1, <1>2, <1>3, <1>4, <1>5, <1>6, <1>7, <1>8, <1>9, <1>10,
     <1>11, <1>12, <1>13, <1>14, <1>15, <1>16, <1>17, <1>18, <1>19, <1>20
     DEF Next, ReaderStep

LEMMA FlightInvHolds == Spec => []FlightInv
<1>1. Init => FlightInv
  BY DEF Init, FlightInv, FlightAt, SingleFlight, NoOrphanWaiter, Building, Owner
<1>2. QED
  BY <1>1, TypeCorrect, FlightInvInductive, PTL DEF Spec

\* Two readers never materialize the log for the same generation at once.
THEOREM BuildsAreShared == Spec => []SingleFlight
<1>1. FlightInv => SingleFlight
  BY DEF FlightInv
<1>2. QED
  BY <1>1, FlightInvHolds, PTL

\* A reader that waits can count on the owner of the Event it holds.
THEOREM WaitersAreOwed == Spec => []NoOrphanWaiter
<1>1. FlightInv => NoOrphanWaiter
  BY DEF FlightInv
<1>2. QED
  BY <1>1, FlightInvHolds, PTL

-----------------------------------------------------------------------------
\* The extension base is only ever extended or dropped.
THEOREM PriorNeverShrinks == Spec => PriorMonotone
<1>1. ASSUME TypeOK, [Next]_vars PROVE \A p \in prior, q \in prior' : p.len <= q.len
  <2> USE <1>1 DEF TypeOK, Fold, cacheVars, timerVars
  <2>1. ASSUME NEW r \in Readers, UpdatePriorFold(r)
        PROVE  \A p \in prior, q \in prior' : p.len <= q.len
    BY <2>1 DEF UpdatePriorFold, NextPrior
  <2>2. CASE Expire
    BY <2>2 DEF Expire
  <2>3. CASE prior' = prior
    BY <2>3
  <2>4. QED
    BY <2>1, <2>2, <2>3
       DEF Next, ReaderStep, Append, OnAppend, Call, Subscribe, Hit, Join, Own, Woken,
           Build, BuildRaises, Arm, Publish, Finally, SetDone, Return, Rearm, Tick, vars
<1>2. QED
  BY <1>1, TypeCorrect, PTL DEF Spec, PriorMonotone

\* What arms the timer for everything that is retained is inductive.
LEMMA RetentionInvInductive ==
  TypeOK /\ FreshInv /\ RetentionInv /\ [Next]_vars => RetentionInv'
<1> SUFFICES ASSUME TypeOK, FreshInv, RetentionInv, [Next]_vars PROVE RetentionInv'
  OBVIOUS
<1> USE FoldAssumption DEF TypeOK, RetentionInv, RetentionArmed,
        logVars, cacheVars, timerVars, readerVars, Goto
<1>1. ASSUME NEW a \in Appenders, Append(a) PROVE RetentionInv'
  BY <1>1 DEF Append
<1>2. ASSUME NEW a \in Appenders, OnAppend(a) PROVE RetentionInv'
  BY <1>2 DEF OnAppend
<1>3. ASSUME NEW r \in Readers, Call(r) PROVE RetentionInv'
  BY <1>3 DEF Call
<1>4. ASSUME NEW r \in Readers, Subscribe(r) PROVE RetentionInv'
  BY <1>4 DEF Subscribe
<1>5. ASSUME NEW r \in Readers, Hit(r) PROVE RetentionInv'
  BY <1>5 DEF Hit
<1>6. ASSUME NEW r \in Readers, Join(r) PROVE RetentionInv'
  BY <1>6 DEF Join
<1>7. ASSUME NEW r \in Readers, Own(r) PROVE RetentionInv'
  BY <1>7 DEF Own
<1>8. ASSUME NEW r \in Readers, Woken(r) PROVE RetentionInv'
  BY <1>8 DEF Woken
<1>9. ASSUME NEW r \in Readers, Build(r) PROVE RetentionInv'
  BY <1>9 DEF Build
<1>10. ASSUME NEW r \in Readers, BuildRaises(r) PROVE RetentionInv'
  <2>1. pc'[r] \in {"finally", "raised"} /\ fold[r] = {}
    BY <1>10 DEF BuildRaises, AfterRaise
  <2>2. \A q \in Readers \ {r} : pc'[q] = pc[q]
    BY <1>10 DEF BuildRaises
  <2>3. QED
    BY <1>10, <2>1, <2>2 DEF BuildRaises
<1>11. ASSUME NEW r \in Readers, UpdatePriorFold(r) PROVE RetentionInv'
  BY <1>11 DEF UpdatePriorFold, NextPrior
<1>12. ASSUME NEW r \in Readers, Arm(r) PROVE RetentionInv'
  <2>1. pc[r] \in {"arm", "rearm"} /\ fold[r] # {}
    BY <1>12 DEF Arm, FreshInv, FreshAt
  <2>2. timer' # {} /\ lastBuild' # {}
    BY <1>12, <2>1 DEF Arm, ArmExpiry
  <2>3. \A q \in Readers : fold'[q] = fold[q]
                          /\ pc'[q] \in {pc[q], "publish", "done"}
    BY <1>12 DEF Arm
  <2>4. QED
    BY <1>12, <2>2, <2>3 DEF Arm
<1>13. ASSUME NEW r \in Readers, Publish(r) PROVE RetentionInv'
  BY <1>13 DEF Publish, FreshInv, FreshAt
<1>14. ASSUME NEW r \in Readers, Finally(r) PROVE RetentionInv'
  BY <1>14 DEF Finally
<1>15. ASSUME NEW r \in Readers, SetDone(r) PROVE RetentionInv'
  BY <1>15 DEF SetDone, Wakes
<1>16. ASSUME NEW r \in Readers, Return(r) PROVE RetentionInv'
  BY <1>16 DEF Return
<1>17. CASE Expire
  <2>1. lastBuild # {} /\ UNCHANGED <<lastBuild, pc, fold>>
    BY <1>17 DEF Expire
  <2>2. CASE TTL \in lastBuild
    BY <1>17, <2>1, <2>2 DEF Expire
  <2>3. CASE TTL \notin lastBuild
    <3>1. PICK age \in lastBuild : TRUE
      BY <2>1
    <3>2. TTL - age \in expiring'
      BY <1>17, <2>3, <3>1 DEF Expire, Remaining
    <3>3. QED
      BY <2>1, <3>2
  <2>4. QED
    BY <2>2, <2>3
<1>18. ASSUME NEW delay \in 0 .. TTL, Rearm(delay) PROVE RetentionInv'
  BY <1>18 DEF Rearm, ArmExpiry
<1>19. CASE Tick
  BY <1>19 DEF Tick
<1>20. CASE UNCHANGED vars
  BY <1>20 DEF vars
<1>21. QED
  BY <1>1, <1>2, <1>3, <1>4, <1>5, <1>6, <1>7, <1>8, <1>9, <1>10,
     <1>11, <1>12, <1>13, <1>14, <1>15, <1>16, <1>17, <1>18, <1>19, <1>20
     DEF Next, ReaderStep

\* A fold that the store retains is never out of every timer's sight.
THEOREM RetainedIsArmed == Spec => []RetentionArmed
<1>1. Init => RetentionInv
  BY DEF Init, RetentionInv, RetentionArmed
<1>2. RetentionInv => RetentionArmed
  BY DEF RetentionInv
<1>3. QED
  BY <1>1, <1>2, TypeCorrect, FreshInvHolds, RetentionInvInductive, PTL DEF Spec
=============================================================================
