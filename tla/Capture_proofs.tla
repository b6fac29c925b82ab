--------------------------- MODULE Capture_proofs ---------------------------
(***************************************************************************)
(* Machine-checked proofs about the way of a tool output into the index:   *)
(* Capture, for any captures, queue bound, crashes and mounts; EmbedSweep, *)
(* for any drawers, threads and restarts, up to its refinement of Filing;  *)
(* and CapturePipeline, which puts the one before the promise of the other.*)
(***************************************************************************)
EXTENDS CapturePipeline, EmbedSweep, SequenceTheorems, FiniteSetTheorems, FunctionTheorems, TLAPS

\* Taking the head off a queue, and putting a job at its end.
LEMMA HeadAndTail ==
  ASSUME NEW S, NEW q \in Seq(S), q # <<>>
  PROVE  /\ Head(q) \in S /\ Tail(q) \in Seq(S) /\ Len(Tail(q)) < Len(q)
         /\ Head(q) \in Range(q) /\ Range(Tail(q)) \subseteq Range(q)
<1>1. Len(q) \in Nat /\ Len(q) > 0 /\ DOMAIN q = 1 .. Len(q)
  BY EmptySeq, LenProperties
<1>2. Head(q) = q[1] /\ Len(Tail(q)) = Len(q) - 1 /\ Tail(q) \in Seq(S)
  BY HeadTailProperties
<1>3. \A i \in 1 .. Len(Tail(q)) : Tail(q)[i] = q[i + 1]
  BY HeadTailProperties
<1>4. DOMAIN Tail(q) = 1 .. Len(Tail(q))
  BY <1>2, LenProperties
<1>5. \A i \in DOMAIN Tail(q) : i + 1 \in DOMAIN q
  BY <1>1, <1>2, <1>4
<1>6. Range(Tail(q)) \subseteq Range(q)
  BY <1>3, <1>4, <1>5 DEF Range
<1>7. QED
  BY <1>1, <1>2, <1>6, ElementOfSeq DEF Range

LEMMA RangeOfAppend ==
  ASSUME NEW S, NEW q \in Seq(S), NEW x \in S
  PROVE  Range(Append(q, x)) = Range(q) \cup {x}
<1>1. /\ Len(q) \in Nat /\ DOMAIN q = 1 .. Len(q)
      /\ DOMAIN Append(q, x) = 1 .. Len(q) + 1
      /\ \A i \in 1 .. Len(q) : Append(q, x)[i] = q[i]
      /\ Append(q, x)[Len(q) + 1] = x
  BY LenProperties, AppendProperties
<1>2. QED
  BY <1>1 DEF Range

\* put_nowait keeps the queue a bounded sequence of jobs, whether or not the
\* job fits.
LEMMA EnqueueTypes ==
  ASSUME TypeOK, NEW job \in Job, Enqueue(job)
  PROVE  /\ queue' \in Seq(Job) /\ Len(queue') <= MaxQueue
         /\ awaiting' \in [Captures -> Int]
<1>1. CASE Room
  <2>1. queue' \in Seq(Job) /\ Len(queue') = Len(queue) + 1
    BY <1>1 DEF Enqueue, TypeOK
  <2>2. Len(queue) + 1 <= MaxQueue
    BY <1>1, CaptureAssumption DEF Room, TypeOK
  <2>3. awaiting' \in [Captures -> Int]
    BY <1>1 DEF Enqueue, Wired, TypeOK
  <2>4. QED
    BY <2>1, <2>2, <2>3
<1>2. CASE ~Room
  BY <1>2 DEF Enqueue, CancelledOnFull, TypeOK
<1>3. QED
  BY <1>1, <1>2

\* The capture pipeline never leaves its types, and its queue never grows
\* beyond _QUEUE_MAXSIZE.
THEOREM TypeCorrect == Spec => []TypeOK
<1>1. Init => TypeOK
  BY CaptureAssumption DEF Init, TypeOK
<1>2. TypeOK /\ [Next]_vars => TypeOK'
  <2> SUFFICES ASSUME TypeOK, [Next]_vars PROVE TypeOK'
    OBVIOUS
  <2> USE CaptureAssumption DEF TypeOK, diskVars, loopVars, drainVars, boundVars,
                                historyVars
  <2>1. ASSUME NEW c \in Captures, SpoolWrite(c) PROVE TypeOK'
    BY <2>1 DEF SpoolWrite, Job
  <2>2. CASE LiveMount
    BY <2>2 DEF LiveMount
  <2>3. CASE PutNowait
    BY <2>3, EnqueueTypes DEF PutNowait, SpoolOnFull
  <2>4. CASE ReadFiledEvents
    BY <2>4 DEF ReadFiledEvents
  <2>5. CASE ReadFailedEvents
    BY <2>5 DEF ReadFailedEvents, Completed
  <2>6. CASE Glob
    BY <2>6 DEF Glob
  <2>7. CASE ReplayPut
    BY <2>7, EnqueueTypes DEF ReplayPut, Rest
  <2>8. CASE ReplayEnd
    BY <2>8 DEF ReplayEnd
  <2>9. ASSUME NEW c \in Captures, ReplayFile(c) PROVE TypeOK'
    <3>1. [id |-> c, spooled |-> TRUE] \in Job
      BY DEF Job
    <3>2. CASE ljob' = ljob
      BY <2>9, <3>2 DEF ReplayFile
    <3>3. CASE ljob' = {[id |-> c, spooled |-> TRUE]}
      BY <2>9, <3>1, <3>3 DEF ReplayFile
    <3>4. QED
      BY <2>9, <3>2, <3>3 DEF ReplayFile
  <2>10. CASE Get
    <3>1. queue \in Seq(Job) /\ queue # <<>> /\ Len(queue) <= MaxQueue
      BY <2>10 DEF Get
    <3>2. /\ Head(queue) \in Job /\ Tail(queue) \in Seq(Job)
          /\ Len(Tail(queue)) < Len(queue)
      BY <3>1, HeadAndTail
    <3>3. Len(Tail(queue)) <= MaxQueue
      BY <3>1, <3>2, LenProperties
    <3>4. QED
      BY <2>10, <3>2, <3>3 DEF Get
  <2>11. CASE FileDrawer
    BY <2>11 DEF FileDrawer, DrainStep, Job
  <2>12. CASE FileDrawerRaises
    BY <2>12 DEF FileDrawerRaises, DrainStep, Job
  <2>13. CASE WorkerRaises
    BY <2>13 DEF WorkerRaises, DrainStep, WorkerGuards, Job
  <2>14. CASE DrawerFiled
    BY <2>14 DEF DrawerFiled, DrainStep, Outcome, Resolved, Job
  <2>15. CASE CaptureFailed
    BY <2>15 DEF CaptureFailed, DrainStep, Outcome, Resolved, KeepsSpool, Job
  <2>16. CASE WorkerException
    BY <2>16 DEF WorkerException, DrainStep, Outcome, Resolved, Job
  <2>17. CASE SpoolDelete
    BY <2>17 DEF SpoolDelete, DrainStep, Job
  <2>18. CASE Crash
    BY <2>18 DEF Crash
  <2>19. CASE Restart
    BY <2>19 DEF Restart
  <2>20. CASE UNCHANGED vars
    BY <2>20 DEF vars
  <2>21. QED
    BY <2>1, <2>2, <2>3, <2>4, <2>5, <2>6, <2>7, <2>8, <2>9, <2>10, <2>11,
       <2>12, <2>13, <2>14, <2>15, <2>16, <2>17, <2>18, <2>19, <2>20 DEF Next, Loop, Drain
<1>3. QED
  BY <1>1, <1>2, PTL DEF Spec

-----------------------------------------------------------------------------
(* Nothing is lost silently                                                *)

\* Nobody deletes a spool entry before the outcome of its capture is on
\* record: the step-by-step reason for NothingIsLost.
LEMMA LossInductive == Spec => []LossInv
<1>1. Init => LossInv
  BY DEF Init, LossInv, NoSilentLoss
<1>2. TypeOK /\ LossInv /\ [Next]_vars => LossInv'
  <2> SUFFICES ASSUME TypeOK, LossInv, [Next]_vars PROVE LossInv'
    OBVIOUS
  <2> USE DEF LossInv, NoSilentLoss, Recorded, diskVars, loopVars, drainVars,
              boundVars, historyVars
  <2>1. ASSUME NEW c \in Captures, SpoolWrite(c) PROVE LossInv'
    BY <2>1 DEF SpoolWrite
  <2>2. ASSUME NEW c \in Captures, ReplayFile(c) PROVE LossInv'
    BY <2>2 DEF ReplayFile
  <2>3. CASE LiveMount
    BY <2>3 DEF LiveMount
  <2>4. CASE PutNowait
    BY <2>4 DEF PutNowait, Enqueue, SpoolOnFull
  <2>5. CASE ReadFiledEvents
    BY <2>5 DEF ReadFiledEvents
  <2>6. CASE ReadFailedEvents
    BY <2>6 DEF ReadFailedEvents, Completed
  <2>7. CASE Glob
    BY <2>7 DEF Glob
  <2>8. CASE ReplayPut
    BY <2>8 DEF ReplayPut, Enqueue
  <2>9. CASE ReplayEnd
    BY <2>9 DEF ReplayEnd
  <2>10. CASE Get
    BY <2>10 DEF Get
  <2>11. CASE FileDrawer
    BY <2>11 DEF FileDrawer, DrainStep
  <2>12. CASE FileDrawerRaises
    BY <2>12 DEF FileDrawerRaises, DrainStep
  <2>13. CASE WorkerRaises
    BY <2>13 DEF WorkerRaises, DrainStep, WorkerGuards
  <2>14. CASE DrawerFiled
    BY <2>14 DEF DrawerFiled, DrainStep, Outcome
  <2>15. CASE CaptureFailed
    BY <2>15 DEF CaptureFailed, DrainStep, Outcome, KeepsSpool
  <2>16. CASE WorkerException
    BY <2>16 DEF WorkerException, DrainStep, Outcome
  <2>17. CASE SpoolDelete
    BY <2>17 DEF SpoolDelete, DrainStep
  <2>18. CASE Crash
    BY <2>18 DEF Crash
  <2>19. CASE Restart
    BY <2>19 DEF Restart
  <2>20. CASE UNCHANGED vars
    BY <2>20 DEF vars
  <2>21. QED
    BY <2>1, <2>2, <2>3, <2>4, <2>5, <2>6, <2>7, <2>8, <2>9, <2>10,
       <2>11, <2>12, <2>13, <2>14, <2>15, <2>16, <2>17, <2>18, <2>19,
       <2>20 DEF Next, Loop, Drain
<1>3. QED
  BY <1>1, <1>2, TypeCorrect, PTL DEF Spec

\* A capture whose spool entry reached the disk is stored, or spooled, or has
\* its failure on record, in every state of every execution: crashes, full
\* queues, failed filings and replays included.
THEOREM NothingIsLost == Spec => []NoSilentLoss
<1>1. LossInv => NoSilentLoss
  BY DEF LossInv
<1>2. QED
  BY <1>1, LossInductive, PTL

\* With the event log switched off, a failed filing is retried by later
\* replays until it succeeds: its spool entry stays until it is stored.
THEOREM SilentFailuresAreRetried ==
  Spec => []SilentFailuresStayRetryable
<1>1. NoSilentLoss => SilentFailuresStayRetryable
  BY DEF NoSilentLoss, SilentFailuresStayRetryable, FailedStaysRetryable
<1>2. QED
  BY <1>1, NothingIsLost, PTL

-----------------------------------------------------------------------------
(* Replay queues orphans only                                              *)

\* The empty queue and an idle drain thread hold no capture.
LEMMA NobodyHolds == queue' = <<>> /\ djob' = {} => Held' = {}
  BY DEF Held, Queued, Range

\* The step-by-step reason for ReplayIsForOrphans.
LEMMA OrphanInductive == Spec => []OrphanInv
<1>1. Init => OrphanInv
  BY DEF Init, OrphanInv, Held, Queued, Range
<1>2. TypeOK /\ OrphanInv /\ [Next]_vars => OrphanInv'
  <2> SUFFICES ASSUME TypeOK, OrphanInv, [Next]_vars PROVE OrphanInv'
    OBVIOUS
  <2> USE DEF OrphanInv, diskVars, loopVars, drainVars, boundVars, historyVars
  <2>1. ASSUME NEW c \in Captures, SpoolWrite(c) PROVE OrphanInv'
    BY <2>1 DEF SpoolWrite
  <2>2. ASSUME NEW c \in Captures, ReplayFile(c) PROVE OrphanInv'
    BY <2>2 DEF ReplayFile, Held, Queued
  <2>3. CASE LiveMount
    BY <2>3, CaptureAssumption DEF LiveMount, TypeOK
  <2>4. CASE PutNowait
    BY <2>4 DEF PutNowait, TypeOK
  <2>5. CASE ReadFiledEvents
    BY <2>5 DEF ReadFiledEvents, Held, Queued
  <2>6. CASE ReadFailedEvents
    BY <2>6 DEF ReadFailedEvents, Held, Queued
  <2>7. CASE Glob
    BY <2>7 DEF Glob, Held, Queued
  <2>8. CASE ReplayPut
    <3>1. PICK job \in ljob : /\ Enqueue(job)
                              /\ todo' = IF Room THEN Rest(job.id) ELSE {}
      BY <2>8 DEF ReplayPut
    <3>2. CASE Room
      <4>1. queue \in Seq(Job) /\ job \in Job
        BY <3>1 DEF TypeOK
      <4>2. queue' = Append(queue, job)
        BY <3>1, <3>2 DEF Enqueue
      <4>3. Range(Append(queue, job)) = Range(queue) \cup {job}
        BY ONLY <4>1, RangeOfAppend
      <4>4. Range(queue') = Range(queue) \cup {job}
        BY ONLY <4>2, <4>3
      <4>5. Held' = Held \cup {job.id}
        BY <2>8, <4>4 DEF ReplayPut, Held, Queued
      <4>6. QED
        BY <2>8, <3>1, <3>2, <4>5 DEF ReplayPut, Rest
    <3>3. CASE ~Room
      BY <2>8, <3>1, <3>3 DEF ReplayPut
    <3>4. QED
      BY <3>2, <3>3
  <2>9. CASE ReplayEnd
    BY <2>9 DEF ReplayEnd, Held, Queued
  <2>10. CASE Get
    <3>1. Held' \subseteq Held
      <4>1. queue \in Seq(Job) /\ queue # <<>>
        BY <2>10 DEF Get, TypeOK
      <4>2. /\ Head(queue) \in Range(queue)
            /\ Range(Tail(queue)) \subseteq Range(queue)
        BY <4>1, HeadAndTail
      <4>3. QED
        BY <2>10, <4>2 DEF Get, Held, Queued
    <3>2. QED
      BY <2>10, <3>1 DEF Get
  <2>11. CASE FileDrawer
    BY <2>11 DEF FileDrawer, DrainStep, Held, Queued
  <2>12. CASE FileDrawerRaises
    BY <2>12 DEF FileDrawerRaises, DrainStep, Held, Queued
  <2>13. CASE WorkerRaises
    BY <2>13 DEF WorkerRaises, DrainStep, WorkerGuards, Held, Queued
  <2>14. CASE DrawerFiled
    BY <2>14 DEF DrawerFiled, DrainStep, Held, Queued
  <2>15. CASE CaptureFailed
    BY <2>15 DEF CaptureFailed, DrainStep, KeepsSpool, Held, Queued
  <2>16. CASE WorkerException
    BY <2>16 DEF WorkerException, DrainStep, Held, Queued
  <2>17. CASE SpoolDelete
    BY <2>17 DEF SpoolDelete, DrainStep, Held, Queued
  <2>18. CASE Crash
    BY <2>18, NobodyHolds DEF Crash
  <2>19. CASE Restart
    BY <2>19 DEF Restart, Held, Queued
  <2>20. CASE UNCHANGED vars
    BY <2>20 DEF vars, Held, Queued
  <2>21. QED
    BY <2>1, <2>2, <2>3, <2>4, <2>5, <2>6, <2>7, <2>8, <2>9, <2>10,
       <2>11, <2>12, <2>13, <2>14, <2>15, <2>16, <2>17, <2>18, <2>19,
       <2>20 DEF Next, Loop, Drain
<1>3. QED
  BY <1>1, <1>2, TypeCorrect, PTL DEF Spec

\* In processes that mount the hook once, replay never queues a capture that
\* is already queued or in the hands of the drain thread, however often the
\* process is killed and resumed.
THEOREM ReplayIsForOrphans ==
  Spec => []ReplaysOnlyOrphans
<1>1. OrphanInv => ReplaysOnlyOrphans
  BY DEF OrphanInv, ReplaysOnlyOrphans
<1>2. QED
  BY <1>1, OrphanInductive, PTL

-----------------------------------------------------------------------------
(* Replay queues what is incomplete                                        *)

\* The step-by-step reason for ReplayIsOfIncomplete.
LEMMA IncompleteInductive == Spec => []IncompleteInv
<1>1. Init => IncompleteInv
  BY DEF Init, IncompleteInv
<1>2. TypeOK /\ OrphanInv /\ IncompleteInv /\ [Next]_vars => IncompleteInv'
  <2> SUFFICES ASSUME TypeOK, OrphanInv, IncompleteInv, [Next]_vars
               PROVE  IncompleteInv'
    OBVIOUS
  <2> USE DEF IncompleteInv, diskVars, loopVars, drainVars, boundVars, historyVars
  <2>a. \A j \in djob : j.id \in Held
    BY DEF Held
  <2>1. ASSUME NEW c \in Captures, SpoolWrite(c) PROVE IncompleteInv'
    BY <2>1 DEF SpoolWrite
  <2>2. ASSUME NEW c \in Captures, ReplayFile(c) PROVE IncompleteInv'
    BY <2>2 DEF ReplayFile
  <2>3. CASE LiveMount
    BY <2>3, CaptureAssumption DEF LiveMount, TypeOK
  <2>4. CASE PutNowait
    BY <2>4 DEF PutNowait
  <2>5. CASE ReadFiledEvents
    BY <2>5 DEF ReadFiledEvents
  <2>6. CASE ReadFailedEvents
    BY <2>6 DEF ReadFailedEvents, Completed
  <2>7. CASE Glob
    BY <2>7 DEF Glob
  <2>8. CASE ReplayPut
    BY <2>8 DEF ReplayPut, Rest
  <2>9. CASE ReplayEnd
    BY <2>9 DEF ReplayEnd
  <2>10. CASE Get
    BY <2>10 DEF Get
  <2>11. CASE FileDrawer
    BY <2>11 DEF FileDrawer, DrainStep
  <2>12. CASE FileDrawerRaises
    BY <2>12 DEF FileDrawerRaises, DrainStep
  <2>13. CASE WorkerRaises
    BY <2>13 DEF WorkerRaises, DrainStep
  <2>14. CASE DrawerFiled
    BY <2>14, <2>a DEF DrawerFiled, DrainStep, Outcome, OrphanInv
  <2>15. CASE CaptureFailed
    BY <2>15, <2>a DEF CaptureFailed, DrainStep, Outcome, OrphanInv
  <2>16. CASE WorkerException
    BY <2>16, <2>a DEF WorkerException, DrainStep, Outcome, OrphanInv
  <2>17. CASE SpoolDelete
    BY <2>17 DEF SpoolDelete, DrainStep
  <2>18. CASE Crash
    BY <2>18 DEF Crash
  <2>19. CASE Restart
    BY <2>19 DEF Restart
  <2>20. CASE UNCHANGED vars
    BY <2>20 DEF vars
  <2>21. QED
    BY <2>1, <2>2, <2>3, <2>4, <2>5, <2>6, <2>7, <2>8, <2>9, <2>10,
       <2>11, <2>12, <2>13, <2>14, <2>15, <2>16, <2>17, <2>18, <2>19,
       <2>20 DEF Next, Loop, Drain
<1>3. QED
  BY <1>1, <1>2, TypeCorrect, OrphanInductive, PTL DEF Spec

\* What the replay of a process's only mount puts on the queue has no outcome on
\* record, however much the drain thread logs during the sweep.
THEOREM ReplayIsOfIncomplete == Spec => []ReplayedIsIncomplete
<1>1. OrphanInv /\ IncompleteInv => ReplayedIsIncomplete
  BY DEF OrphanInv, IncompleteInv, ReplayedIsIncomplete
<1>2. QED
  BY <1>1, OrphanInductive, IncompleteInductive, PTL

-----------------------------------------------------------------------------
(* Every future is answered once                                           *)

\* How often a capture is queued: none in an empty queue,
LEMMA CountEmpty == \A c : Count(<<>>, c) = 0
<1>1. DOMAIN <<>> = {}
  BY EmptySeq, LenProperties
<1>2. QED
  BY <1>1, FS_EmptySet DEF Count

\* some number in any queue,
LEMMA CountType ==
  ASSUME NEW q \in Seq(Job), NEW c
  PROVE  /\ IsFiniteSet({i \in DOMAIN q : q[i].id = c})
         /\ Count(q, c) \in Nat
<1>1. DOMAIN q = 1 .. Len(q) /\ Len(q) \in Nat
  BY LenProperties
<1>2. IsFiniteSet(DOMAIN q)
  BY <1>1, FS_Interval
<1>3. IsFiniteSet({i \in DOMAIN q : q[i].id = c})
  BY <1>2, FS_Subset
<1>4. QED
  BY <1>3, FS_CardinalityType DEF Count

\* one more behind a job for it,
LEMMA CountAppend ==
  ASSUME NEW q \in Seq(Job), NEW job \in Job, NEW c
  PROVE  Count(Append(q, job), c) = Count(q, c) + (IF job.id = c THEN 1 ELSE 0)
<1> DEFINE at(s) == {i \in DOMAIN s : s[i].id = c}
<1>1. /\ Len(q) \in Nat /\ DOMAIN q = 1 .. Len(q)
      /\ DOMAIN Append(q, job) = 1 .. Len(q) + 1
      /\ \A i \in 1 .. Len(q) : Append(q, job)[i] = q[i]
      /\ Append(q, job)[Len(q) + 1] = job
  BY LenProperties, AppendProperties
<1>2. IsFiniteSet(at(q)) /\ Len(q) + 1 \notin at(q)
  <2>1. IsFiniteSet(at(q))
    BY CountType
  <2>2. QED
    BY <1>1, <2>1
<1>3. at(Append(q, job)) = IF job.id = c THEN at(q) \cup {Len(q) + 1} ELSE at(q)
  BY <1>1
<1>4. Cardinality(at(q) \cup {Len(q) + 1}) = Cardinality(at(q)) + 1
  BY <1>2, FS_AddElement
<1>5. CASE job.id = c
  BY <1>3, <1>4, <1>5 DEF Count
<1>6. CASE job.id # c
  <2>1. at(Append(q, job)) = at(q)
    BY <1>3, <1>6
  <2>2. Count(q, c) \in Nat
    BY CountType
  <2>3. Count(Append(q, job), c) = Count(q, c)
    BY <2>1 DEF Count
  <2>4. QED
    BY <1>6, <2>2, <2>3
<1>7. QED
  BY <1>5, <1>6

\* and one less when a job for it is taken off the head.
LEMMA CountTail ==
  ASSUME NEW q \in Seq(Job), q # <<>>, NEW c
  PROVE  Count(q, c) = Count(Tail(q), c) + (IF Head(q).id = c THEN 1 ELSE 0)
<1> DEFINE at(s) == {i \in DOMAIN s : s[i].id = c}
           rest == at(q) \ {1}
<1>1. /\ Len(q) \in Nat /\ Len(q) > 0 /\ DOMAIN q = 1 .. Len(q)
      /\ DOMAIN Tail(q) = 1 .. Len(q) - 1
      /\ \A i \in 1 .. Len(q) - 1 : Tail(q)[i] = q[i + 1]
      /\ Head(q) = q[1]
  BY EmptySeq, LenProperties, HeadTailProperties
<1>2. IsFiniteSet(at(Tail(q))) /\ IsFiniteSet(rest)
  <2>1. Tail(q) \in Seq(Job)
    BY HeadTailProperties
  <2>2. IsFiniteSet(at(Tail(q))) /\ IsFiniteSet(at(q))
    BY <2>1, CountType
  <2>3. QED
    BY <2>2, FS_Subset
<1>3. Cardinality(at(Tail(q))) = Cardinality(rest)
  <2> DEFINE next == [i \in at(Tail(q)) |-> i + 1]
  <2>1. ASSUME NEW i \in at(Tail(q)) PROVE next[i] \in rest
    BY <1>1
  <2>2. ASSUME NEW i \in at(Tail(q)), NEW j \in at(Tail(q)), next[i] = next[j]
        PROVE  i = j
    BY <1>1, <2>2
  <2>3. ASSUME NEW k \in rest PROVE \E i \in at(Tail(q)) : next[i] = k
    <3>1. k - 1 \in at(Tail(q)) /\ (k - 1) + 1 = k
      BY <1>1
    <3>2. QED
      BY <3>1
  <2>4. next \in Bijection(at(Tail(q)), rest)
    BY <2>1, <2>2, <2>3, Fun_IsBij
  <2>5. QED
    BY <1>2, <2>4, FS_Bijection DEF ExistsBijection
<1>4. at(q) = IF Head(q).id = c THEN rest \cup {1} ELSE rest
  BY <1>1
<1>5. Cardinality(rest \cup {1}) = Cardinality(rest) + 1
  BY <1>2, FS_AddElement
<1>6. CASE Head(q).id = c
  BY <1>3, <1>4, <1>5, <1>6 DEF Count
<1>7. CASE Head(q).id # c
  <2>1. at(q) = rest
    BY <1>4, <1>7
  <2>2. Count(q, c) \in Nat
    BY CountType
  <2>3. Count(q, c) = Count(Tail(q), c)
    BY <1>3, <2>1 DEF Count
  <2>4. QED
    BY <1>7, <2>2, <2>3
<1>8. QED
  BY <1>6, <1>7

\* put_nowait wires a bridge for the job it queues, and for no other.
LEMMA EnqueueOwes ==
  ASSUME TypeOK, BridgesOwed, NEW job \in Job, Enqueue(job), UNCHANGED <<emit, drainVars>>
  PROVE  BridgesOwed'
<1> USE DEF drainVars
<1>1. CASE Room
  <2>1. queue \in Seq(Job) /\ queue' = Append(queue, job) /\ awaiting' = Wired(job.id)
    BY <1>1 DEF Enqueue, TypeOK
  <2>2. \A c : /\ Count(queue, c) \in Nat
               /\ Count(queue', c) = Count(queue, c) + (IF job.id = c THEN 1 ELSE 0)
    BY <2>1, CountType, CountAppend
  <2>3. ASSUME NEW c \in Captures
        PROVE  awaiting'[c] = awaiting[c] + (IF emit /\ job.id = c THEN 1 ELSE 0)
    BY <2>1 DEF Wired, TypeOK
  <2>4. \A c : InHand(c)' <=> InHand(c)
    BY DEF InHand
  <2>5. QED
    BY <2>2, <2>3, <2>4 DEF BridgesOwed, TypeOK
<1>2. CASE ~Room
  BY <1>2 DEF Enqueue, CancelledOnFull, BridgesOwed, InHand
<1>3. QED
  BY <1>1, <1>2

\* A coordinator task waits for exactly the jobs that are queued or in the drain
\* thread's hands: whatever fails, none is forgotten and none answered twice.
THEOREM BridgesAreOwed == Spec => []BridgesOwed
<1>1. Init => BridgesOwed
  BY CountEmpty DEF Init, BridgesOwed, InHand
<1>2. TypeOK /\ BridgesOwed /\ [Next]_vars => BridgesOwed'
  <2> SUFFICES ASSUME TypeOK, BridgesOwed, [Next]_vars PROVE BridgesOwed'
    OBVIOUS
  <2> USE DEF diskVars, loopVars, drainVars, boundVars, historyVars
  <2>a. ASSUME UNCHANGED <<emit, queue>>, awaiting' = Resolved,
               dpc \notin {"get", "unlink"}, dpc' \in {"get", "unlink"}
        PROVE  BridgesOwed'
    <3>1. \A c : ~InHand(c)' /\ (InHand(c) <=> \E j \in djob : j.id = c)
      BY <2>a DEF InHand
    <3>2. \A c : Count(queue, c) \in Nat
      BY CountType DEF TypeOK
    <3>3. QED
      BY <2>a, <3>1, <3>2 DEF BridgesOwed, Resolved, TypeOK
  <2>b. ASSUME UNCHANGED <<emit, queue, awaiting, djob>>,
               dpc \in {"get", "unlink"} <=> dpc' \in {"get", "unlink"}
        PROVE  BridgesOwed'
    BY <2>b DEF BridgesOwed, InHand
  <2>1. ASSUME NEW c \in Captures, SpoolWrite(c) PROVE BridgesOwed'
    BY <2>1, <2>b DEF SpoolWrite
  <2>2. ASSUME NEW c \in Captures, ReplayFile(c) PROVE BridgesOwed'
    BY <2>2, <2>b DEF ReplayFile
  <2>3. CASE LiveMount
    BY <2>3, <2>b DEF LiveMount
  <2>4. CASE PutNowait
    BY <2>4, EnqueueOwes DEF PutNowait, TypeOK
  <2>5. CASE ReadFiledEvents
    BY <2>5, <2>b DEF ReadFiledEvents
  <2>6. CASE ReadFailedEvents
    BY <2>6, <2>b DEF ReadFailedEvents
  <2>7. CASE Glob
    BY <2>7, <2>b DEF Glob
  <2>8. CASE ReplayPut
    BY <2>8, EnqueueOwes DEF ReplayPut, TypeOK
  <2>9. CASE ReplayEnd
    BY <2>9, <2>b DEF ReplayEnd
  <2>10. CASE Get
    <3>1. /\ queue \in Seq(Job) /\ queue # <<>> /\ queue' = Tail(queue)
          /\ dpc = "get" /\ dpc' = "file" /\ djob' = {Head(queue)}
          /\ UNCHANGED <<emit, awaiting>>
      BY <2>10 DEF Get, TypeOK
    <3>2. \A c : Count(queue, c) = Count(queue', c) + (IF Head(queue).id = c THEN 1 ELSE 0)
      BY <3>1, CountTail
    <3>3. \A c : ~InHand(c) /\ (InHand(c)' <=> Head(queue).id = c)
      BY <3>1 DEF InHand
    <3>4. \A c : Count(queue, c) \in Nat /\ Count(queue', c) \in Nat
      BY <3>1, HeadAndTail, CountType
    <3>5. QED
      BY <3>1, <3>2, <3>3, <3>4 DEF BridgesOwed
  <2>11. CASE FileDrawer
    BY <2>11, <2>b DEF FileDrawer, DrainStep
  <2>12. CASE FileDrawerRaises
    BY <2>12, <2>b DEF FileDrawerRaises, DrainStep
  <2>13. CASE WorkerRaises
    BY <2>13, <2>b DEF WorkerRaises, DrainStep, WorkerGuards
  <2>14. CASE DrawerFiled
    BY <2>14, <2>a DEF DrawerFiled, DrainStep
  <2>15. CASE CaptureFailed
    BY <2>15, <2>a DEF CaptureFailed, DrainStep, KeepsSpool
  <2>16. CASE WorkerException
    BY <2>16, <2>a DEF WorkerException, DrainStep
  <2>17. CASE SpoolDelete
    BY <2>17 DEF SpoolDelete, DrainStep, BridgesOwed, InHand
  <2>18. CASE Crash
    BY <2>18, CountEmpty DEF Crash, BridgesOwed, InHand
  <2>19. CASE Restart
    BY <2>19, <2>b DEF Restart
  <2>20. CASE UNCHANGED vars
    BY <2>20, <2>b DEF vars
  <2>21. QED
    BY <2>1, <2>2, <2>3, <2>4, <2>5, <2>6, <2>7, <2>8, <2>9, <2>10,
       <2>11, <2>12, <2>13, <2>14, <2>15, <2>16, <2>17, <2>18, <2>19,
       <2>20 DEF Next, Loop, Drain
<1>3. QED
  BY <1>1, <1>2, TypeCorrect, PTL DEF Spec
-----------------------------------------------------------------------------
(* The pipeline: Capture and the memory daemon                             *)

\* A step of the pipeline is one of the hook, or of the daemon, or of both.
LEMMA StepOfEither ==
  [PipelineNext]_pipelineVars => [Next]_vars /\ [Daemon!Next]_Daemon!vars
<1> SUFFICES ASSUME [PipelineNext]_pipelineVars
             PROVE  [Next]_vars /\ [Daemon!Next]_Daemon!vars
  OBVIOUS
<1>1. CASE DaemonStep
  BY <1>1 DEF DaemonStep
<1>2. CASE HookStep
  BY <1>2 DEF HookStep, Next, daemonVars, Daemon!vars
<1>3. CASE LoopStep
  BY <1>3 DEF LoopStep, Next, daemonVars, Daemon!vars
<1>4. CASE DrainTurn
  BY <1>4 DEF DrainTurn, DrainAlone, FileReturns, FileRaises, Next, Drain,
              daemonVars, Daemon!vars
<1>5. CASE UNCHANGED pipelineVars
  BY <1>5 DEF pipelineVars, daemonVars, Daemon!vars
<1>6. QED
  BY <1>1, <1>2, <1>3, <1>4, <1>5 DEF PipelineNext

\* Composed with a daemon, the hook still behaves as Capture, and the daemon
\* as Filing: what is proved about either holds of the pipeline.
THEOREM PipelineKeepsBoth == PipelineSpec => Spec /\ Daemon!Spec
<1>1. PipelineInit => Init /\ Daemon!Init
  BY DEF PipelineInit
<1>2. QED
  BY <1>1, StepOfEither, PTL DEF PipelineSpec, Spec, Daemon!Spec

\* With a daemon that keeps its promise, the hook loses nothing silently,
\* replays orphans only, and owes exactly the bridges that wait.
THEOREM PipelineInherits ==
  PipelineSpec => [](/\ NoSilentLoss /\ ReplaysOnlyOrphans
                     /\ ReplayedIsIncomplete /\ BridgesOwed)
BY PipelineKeepsBoth, NothingIsLost, ReplayIsForOrphans, ReplayIsOfIncomplete,
   BridgesAreOwed, PTL

\* The daemon's part of DeliveryInv: it takes no answer back, and answers
\* nothing that cannot be found.
LEMMA FilingKeeps ==
  ASSUME answered \subseteq reachable, [Daemon!Next]_Daemon!vars
  PROVE  /\ answered \subseteq answered' /\ reachable \subseteq reachable'
         /\ answered' \subseteq reachable'
  BY DEF Daemon!Next, Daemon!Put, Daemon!Grows, Daemon!vars

\* The hook's part: it records a capture as filed only behind an answer, and
\* forgets its spool entry only behind a record.
LEMMA DeliveryInductive == PipelineSpec => []DeliveryInv
<1>1. PipelineInit => DeliveryInv
  BY DEF PipelineInit, Init, Daemon!Init, DeliveryInv, DeliveredOrKept, InHands
<1>2. /\ TypeOK /\ LossInv /\ DeliveryInv /\ [PipelineNext]_pipelineVars
      => DeliveryInv'
  <2> SUFFICES ASSUME TypeOK, LossInv, DeliveryInv,
                      [PipelineNext]_pipelineVars
      PROVE  DeliveryInv'
    OBVIOUS
  <2>1. /\ answered \subseteq answered' /\ reachable \subseteq reachable'
        /\ answered' \subseteq reachable'
    BY StepOfEither, FilingKeeps DEF DeliveryInv
  <2> USE <2>1 DEF DeliveryInv, DeliveredOrKept, InHands, diskVars, loopVars,
                   drainVars, boundVars, historyVars
  <2>2. CASE DaemonStep
    BY <2>2 DEF DaemonStep, vars
  <2>3. ASSUME NEW c \in Captures, SpoolWrite(c) PROVE DeliveryInv'
    BY <2>3 DEF SpoolWrite
  <2>4. ASSUME NEW c \in Captures, ReplayFile(c) PROVE DeliveryInv'
    BY <2>4 DEF ReplayFile, LossInv
  <2>5. CASE LiveMount
    BY <2>5 DEF LiveMount
  <2>6. CASE PutNowait
    BY <2>6 DEF PutNowait, Enqueue, SpoolOnFull
  <2>7. CASE ReadFiledEvents \/ ReadFailedEvents \/ Glob \/ ReplayEnd
    BY <2>7 DEF ReadFiledEvents, ReadFailedEvents, Glob, ReplayEnd
  <2>8. CASE ReplayPut
    BY <2>8 DEF ReplayPut
  <2>9. CASE Get
    BY <2>9 DEF Get
  <2>10. CASE FileReturns
    BY <2>10 DEF FileReturns, FileDrawer, DrainStep
  <2>11. CASE FileRaises
    BY <2>11 DEF FileRaises, FileDrawerRaises, DrainStep
  <2>12. CASE WorkerRaises
    BY <2>12 DEF WorkerRaises, DrainStep, WorkerGuards
  <2>13. CASE DrawerFiled
    BY <2>13 DEF DrawerFiled, DrainStep, Outcome
  <2>14. CASE CaptureFailed
    BY <2>14 DEF CaptureFailed, DrainStep, Outcome, KeepsSpool
  <2>15. CASE WorkerException
    BY <2>15 DEF WorkerException, DrainStep, Outcome, LossInv
  <2>16. CASE SpoolDelete
    BY <2>16 DEF SpoolDelete, DrainStep
  <2>17. CASE Crash
    BY <2>17 DEF Crash
  <2>18. CASE Restart
    BY <2>18 DEF Restart
  <2>19. CASE UNCHANGED pipelineVars
    BY <2>19 DEF pipelineVars, vars, daemonVars
  <2>20. QED
    BY <2>2, <2>3, <2>4, <2>5, <2>6, <2>7, <2>8, <2>9, <2>10, <2>11, <2>12,
       <2>13, <2>14, <2>15, <2>16, <2>17, <2>18, <2>19
       DEF PipelineNext, HookStep, LoopStep, Loop, DrainTurn, DrainAlone
<1>3. QED
  BY <1>1, <1>2, PipelineKeepsBoth, TypeCorrect, LossInductive, PTL
     DEF PipelineSpec

\* Whatever fails, in the hook or in the daemon or between the two: a capture
\* that reached the disk can be found by search, or its spool entry is kept for
\* a replay, or its failure is on record.
THEOREM CapturesAreDelivered == PipelineSpec => []DeliveredOrKept
<1>1. DeliveryInv => DeliveredOrKept
  BY DEF DeliveryInv
<1>2. QED
  BY <1>1, DeliveryInductive, PTL

-----------------------------------------------------------------------------
(* The sweep                                                               *)

\* The sweep and the request handlers keep their types, and never hold the
\* write lock twice.
THEOREM SweepTypeCorrect == SweepSpec => []SweepTypeOK
<1> USE SweepAssumption
<1>1. SweepInit => SweepTypeOK
  BY DEF SweepInit, SweepTypeOK, Start, None, Threads
<1>2. SweepTypeOK /\ [SweepNext]_sweepVars => SweepTypeOK'
  <2> SUFFICES ASSUME SweepTypeOK, [SweepNext]_sweepVars PROVE SweepTypeOK'
    OBVIOUS
  <2> USE DEF SweepTypeOK, Threads, logVars, threadVars,
              sweepBounds, Goto
  <2>1. CASE Warm
    BY <2>1 DEF Warm
  <2>2. CASE Poll
    BY <2>2 DEF Poll
  <2>3. ASSUME NEW t \in Requests, NEW ds \in SUBSET Drawers,
               Request(t, ds)
        PROVE  SweepTypeOK'
    BY <2>3 DEF Request
  <2>4. ASSUME NEW t \in Threads, Query(t) PROVE SweepTypeOK'
    BY <2>4 DEF Query
  <2>5. ASSUME NEW t \in Threads, NEW d \in Drawers,
               SweepEmbed(t, d)
        PROVE  SweepTypeOK'
    BY <2>5 DEF SweepEmbed
  <2>6. ASSUME NEW t \in Threads, NEW d \in Drawers,
               SweepEmbedRaises(t, d)
        PROVE  SweepTypeOK'
    BY <2>6 DEF SweepEmbedRaises, StaysMarked
  <2>7. ASSUME NEW t \in Threads, Attach(t) PROVE SweepTypeOK'
    BY <2>7 DEF Attach, Free, AddEdges
  <2>8. ASSUME NEW t \in Threads, Clear(t) PROVE SweepTypeOK'
    BY <2>8 DEF Clear
  <2>9. ASSUME NEW t \in Threads, SweepWriteRaises(t)
        PROVE  SweepTypeOK'
    BY <2>9 DEF SweepWriteRaises
  <2>10. ASSUME NEW t \in Threads, SweepDone(t) PROVE SweepTypeOK'
    BY <2>10 DEF SweepDone
  <2>11. ASSUME NEW t \in Requests, Check(t) PROVE SweepTypeOK'
    BY <2>11 DEF Check
  <2>12. ASSUME NEW t \in Requests, Embed(t) PROVE SweepTypeOK'
    BY <2>12 DEF Embed
  <2>13. ASSUME NEW t \in Requests, EmbedRaises(t) PROVE SweepTypeOK'
    BY <2>13 DEF EmbedRaises
  <2>14. ASSUME NEW t \in Requests, File(t) PROVE SweepTypeOK'
    BY <2>14 DEF File, Free, AddEdges
  <2>15. ASSUME NEW t \in Requests, Mark(t) PROVE SweepTypeOK'
    BY <2>15 DEF Mark, Marks
  <2>16. ASSUME NEW t \in Requests, Return(t) PROVE SweepTypeOK'
    BY <2>16 DEF Return, EndRequest
  <2>17. ASSUME NEW t \in Threads, RequestRaises(t)
         PROVE  SweepTypeOK'
    BY <2>17 DEF RequestRaises, EndRequest
  <2>18. CASE CloseStore
    BY <2>18 DEF CloseStore
  <2>19. CASE RestartDaemon
    BY <2>19 DEF RestartDaemon, Start, None
  <2>20. CASE UNCHANGED sweepVars
    BY <2>20 DEF sweepVars
  <2>21. QED
    BY <2>1, <2>2, <2>3, <2>4, <2>5, <2>6, <2>7, <2>8, <2>9, <2>10,
       <2>11, <2>12, <2>13, <2>14, <2>15, <2>16, <2>17, <2>18, <2>19,
       <2>20 DEF SweepNext, NewRequest, Sweep, Serve,
                 Threads
<1>3. QED
  BY <1>1, <1>2, PTL DEF SweepSpec

\* Markers are cleared behind an edge, and remember returns behind an edge or a
\* marker (FindableInv is inductive on its own).
LEMMA FindableInductive == SweepSpec => []FindableInv
<1> USE SweepAssumption
<1>1. SweepInit => FindableInv
  BY DEF SweepInit, FindableInv, AckedIsFindable, Start,
         Threads
<1>2. SweepTypeOK /\ FindableInv /\ [SweepNext]_sweepVars => FindableInv'
  <2> SUFFICES ASSUME SweepTypeOK, FindableInv, [SweepNext]_sweepVars
      PROVE  FindableInv'
    OBVIOUS
  <2> USE DEF SweepTypeOK, FindableInv, AckedIsFindable,
              Findable, Threads, logVars,
              threadVars, sweepBounds, Goto
  <2>1. CASE Warm
    BY <2>1 DEF Warm
  <2>2. CASE Poll
    BY <2>2 DEF Poll
  <2>3. ASSUME NEW t \in Requests, NEW ds \in SUBSET Drawers,
               Request(t, ds)
        PROVE  FindableInv'
    BY <2>3 DEF Request
  <2>4. ASSUME NEW t \in Threads, Query(t) PROVE FindableInv'
    BY <2>4 DEF Query
  <2>5. ASSUME NEW t \in Threads, NEW d \in Drawers,
               SweepEmbed(t, d)
        PROVE  FindableInv'
    BY <2>5 DEF SweepEmbed
  <2>6. ASSUME NEW t \in Threads, NEW d \in Drawers,
               SweepEmbedRaises(t, d)
        PROVE  FindableInv'
    BY <2>6 DEF SweepEmbedRaises, StaysMarked
  <2>7. ASSUME NEW t \in Threads, Attach(t)
        PROVE  FindableInv'
    BY <2>7 DEF Attach, Free, AddEdges
  <2>8. ASSUME NEW t \in Threads, Clear(t) PROVE FindableInv'
    BY <2>8 DEF Clear
  <2>9. ASSUME NEW t \in Threads, SweepWriteRaises(t)
        PROVE  FindableInv'
    BY <2>9 DEF SweepWriteRaises
  <2>10. ASSUME NEW t \in Threads, SweepDone(t)
         PROVE  FindableInv'
    BY <2>10 DEF SweepDone
  <2>11. ASSUME NEW t \in Requests, Check(t) PROVE FindableInv'
    BY <2>11 DEF Check
  <2>12. ASSUME NEW t \in Requests, Embed(t) PROVE FindableInv'
    BY <2>12 DEF Embed
  <2>13. ASSUME NEW t \in Requests, EmbedRaises(t)
         PROVE  FindableInv'
    BY <2>13 DEF EmbedRaises
  <2>14. ASSUME NEW t \in Requests, File(t) PROVE FindableInv'
    BY <2>14 DEF File, Free, AddEdges
  <2>15. ASSUME NEW t \in Requests, Mark(t) PROVE FindableInv'
    BY <2>15 DEF Mark, Marks
  <2>16. ASSUME NEW t \in Requests, Return(t) PROVE FindableInv'
    BY <2>16 DEF Return, EndRequest
  <2>17. ASSUME NEW t \in Threads, RequestRaises(t)
         PROVE  FindableInv'
    BY <2>17 DEF RequestRaises, EndRequest
  <2>18. CASE CloseStore
    BY <2>18 DEF CloseStore
  <2>19. CASE RestartDaemon
    BY <2>19 DEF RestartDaemon, Start, None
  <2>20. CASE UNCHANGED sweepVars
    BY <2>20 DEF sweepVars
  <2>21. QED
    BY <2>1, <2>2, <2>3, <2>4, <2>5, <2>6, <2>7, <2>8, <2>9, <2>10,
       <2>11, <2>12, <2>13, <2>14, <2>15, <2>16, <2>17, <2>18, <2>19,
       <2>20 DEF SweepNext, NewRequest, Sweep, Serve,
                 Threads
<1>3. QED
  BY <1>1, <1>2, SweepTypeCorrect, PTL DEF SweepSpec

\* A remember that has returned leaves a drawer vector search can find, and no
\* sweep, failing embed, shutdown or restart ever takes that away again.
THEOREM AckedStayFindable == SweepSpec => []AckedIsFindable
<1>1. FindableInv => AckedIsFindable
  BY DEF FindableInv
<1>2. QED
  BY <1>1, FindableInductive, PTL

\* Without a stop of the daemon, whoever finds the write lock free finds every
\* drawer with a vector or a marker.
THEOREM OrphansComeFromStops == SweepSpec => []OnlyStopsOrphan
<1> USE SweepAssumption
<1>1. SweepInit => MarkInv
  BY DEF SweepInit, MarkInv, Start, Threads
<1>2. /\ SweepTypeOK /\ FindableInv /\ MarkInv
      /\ [SweepNext]_sweepVars
      => MarkInv'
  <2> SUFFICES ASSUME SweepTypeOK, FindableInv, MarkInv,
                      [SweepNext]_sweepVars
      PROVE  MarkInv'
    OBVIOUS
  <2> USE DEF SweepTypeOK, MarkInv, Findable, Threads,
              logVars, threadVars,
              sweepBounds, Goto
  <2>1. CASE Warm
    BY <2>1 DEF Warm
  <2>2. CASE Poll
    BY <2>2 DEF Poll
  <2>3. ASSUME NEW t \in Requests, NEW ds \in SUBSET Drawers,
               Request(t, ds)
        PROVE  MarkInv'
    BY <2>3 DEF Request
  <2>4. ASSUME NEW t \in Threads, Query(t) PROVE MarkInv'
    BY <2>4 DEF Query
  <2>5. ASSUME NEW t \in Threads, NEW d \in Drawers,
               SweepEmbed(t, d)
        PROVE  MarkInv'
    BY <2>5 DEF SweepEmbed
  <2>6. ASSUME NEW t \in Threads, NEW d \in Drawers,
               SweepEmbedRaises(t, d)
        PROVE  MarkInv'
    BY <2>6 DEF SweepEmbedRaises, StaysMarked
  <2>7. ASSUME NEW t \in Threads, Attach(t) PROVE MarkInv'
    BY <2>7 DEF Attach, Free, AddEdges
  <2>8. ASSUME NEW t \in Threads, Clear(t) PROVE MarkInv'
    BY <2>8 DEF Clear, FindableInv
  <2>9. ASSUME NEW t \in Threads, SweepWriteRaises(t)
        PROVE  MarkInv'
    BY <2>9 DEF SweepWriteRaises
  <2>10. ASSUME NEW t \in Threads, SweepDone(t)
         PROVE  MarkInv'
    BY <2>10 DEF SweepDone
  <2>11. ASSUME NEW t \in Requests, Check(t) PROVE MarkInv'
    BY <2>11 DEF Check
  <2>12. ASSUME NEW t \in Requests, Embed(t) PROVE MarkInv'
    BY <2>12 DEF Embed
  <2>13. ASSUME NEW t \in Requests, EmbedRaises(t) PROVE MarkInv'
    BY <2>13 DEF EmbedRaises
  <2>14. ASSUME NEW t \in Requests, File(t) PROVE MarkInv'
    BY <2>14 DEF File, Free, AddEdges
  <2>15. ASSUME NEW t \in Requests, Mark(t) PROVE MarkInv'
    BY <2>15 DEF Mark, Marks
  <2>16. ASSUME NEW t \in Requests, Return(t) PROVE MarkInv'
    BY <2>16 DEF Return, EndRequest
  <2>17. ASSUME NEW t \in Threads, RequestRaises(t)
         PROVE  MarkInv'
    BY <2>17 DEF RequestRaises, EndRequest
  <2>18. CASE CloseStore
    BY <2>18 DEF CloseStore
  <2>19. CASE RestartDaemon
    BY <2>19 DEF RestartDaemon, Start, None
  <2>20. CASE UNCHANGED sweepVars
    BY <2>20 DEF sweepVars
  <2>21. QED
    BY <2>1, <2>2, <2>3, <2>4, <2>5, <2>6, <2>7, <2>8, <2>9, <2>10,
       <2>11, <2>12, <2>13, <2>14, <2>15, <2>16, <2>17, <2>18, <2>19,
       <2>20 DEF SweepNext, NewRequest, Sweep, Serve,
                 Threads
<1>3. MarkInv => OnlyStopsOrphan
  BY DEF MarkInv, OnlyStopsOrphan, Free, Threads
<1>4. QED
  BY <1>1, <1>2, <1>3, SweepTypeCorrect, FindableInductive, PTL DEF SweepSpec
-----------------------------------------------------------------------------
(* The sweep keeps the promise of Filing                                   *)

\* What a sweep has in hand was marked, so it is stored, and a marker is only
\* cleared behind an edge: it stays findable.
LEMMA FilingInductive == SweepSpec => []FilingInv
<1> USE SweepAssumption
<1>1. SweepInit => FilingInv
  BY DEF SweepInit, FilingInv, None, Threads
<1>2. /\ SweepTypeOK /\ FindableInv /\ FilingInv /\ [SweepNext]_sweepVars
      => FilingInv'
  <2> SUFFICES ASSUME SweepTypeOK, FindableInv, FilingInv,
                      [SweepNext]_sweepVars
      PROVE  FilingInv'
    OBVIOUS
  <2> USE DEF SweepTypeOK, FilingInv, Findable, Threads, logVars, threadVars,
              sweepBounds, Goto
  <2>1. CASE Warm
    BY <2>1 DEF Warm
  <2>2. CASE Poll
    BY <2>2 DEF Poll
  <2>3. ASSUME NEW t \in Requests, NEW d \in Drawers,
               Request(t, {}) \/ Request(t, {d})
        PROVE  FilingInv'
    BY <2>3 DEF Request
  <2>4. ASSUME NEW t \in Threads, Query(t) PROVE FilingInv'
    BY <2>4 DEF Query
  <2>5. ASSUME NEW t \in Threads, NEW d \in Drawers, SweepEmbed(t, d)
        PROVE  FilingInv'
    BY <2>5 DEF SweepEmbed
  <2>6. ASSUME NEW t \in Threads, NEW d \in Drawers, SweepEmbedRaises(t, d)
        PROVE  FilingInv'
    BY <2>6 DEF SweepEmbedRaises, StaysMarked
  <2>7. ASSUME NEW t \in Threads, Attach(t) PROVE FilingInv'
    BY <2>7 DEF Attach, Free, AddEdges
  <2>8. ASSUME NEW t \in Threads, Clear(t) PROVE FilingInv'
    BY <2>8 DEF Clear, FindableInv
  <2>9. ASSUME NEW t \in Threads, SweepWriteRaises(t) PROVE FilingInv'
    BY <2>9 DEF SweepWriteRaises
  <2>10. ASSUME NEW t \in Threads, SweepDone(t) PROVE FilingInv'
    BY <2>10 DEF SweepDone
  <2>11. ASSUME NEW t \in Requests, Check(t) PROVE FilingInv'
    BY <2>11 DEF Check
  <2>12. ASSUME NEW t \in Requests, Embed(t) PROVE FilingInv'
    BY <2>12 DEF Embed
  <2>13. ASSUME NEW t \in Requests, EmbedRaises(t) PROVE FilingInv'
    BY <2>13 DEF EmbedRaises
  <2>14. ASSUME NEW t \in Requests, File(t) PROVE FilingInv'
    BY <2>14 DEF File, Free, AddEdges
  <2>15. ASSUME NEW t \in Requests, Mark(t) PROVE FilingInv'
    BY <2>15 DEF Mark, Marks, FindableInv
  <2>16. ASSUME NEW t \in Requests, Return(t) PROVE FilingInv'
    BY <2>16 DEF Return, EndRequest
  <2>17. ASSUME NEW t \in Threads, RequestRaises(t) PROVE FilingInv'
    BY <2>17 DEF RequestRaises, EndRequest
  <2>18. CASE CloseStore
    BY <2>18 DEF CloseStore
  <2>19. CASE RestartDaemon
    BY <2>19 DEF RestartDaemon, Start, None
  <2>20. CASE UNCHANGED sweepVars
    BY <2>20 DEF sweepVars
  <2>21. QED
    BY <2>1, <2>2, <2>3, <2>4, <2>5, <2>6, <2>7, <2>8, <2>9, <2>10,
       <2>11, <2>12, <2>13, <2>14, <2>15, <2>16, <2>17, <2>18, <2>19,
       <2>20 DEF SweepNext, NewRequest, Sweep, Serve
<1>3. QED
  BY <1>1, <1>2, SweepTypeCorrect, FindableInductive, PTL DEF SweepSpec

\* A step that leaves the log and the answers alone shows nobody anything.
LEMMA LogUntouched ==
  ASSUME UNCHANGED <<stored, acked>>,
         \A d \in Drawers : Findable(d)' <=> Findable(d)
  PROVE  UNCHANGED Promise!vars
<1>1. {d \in Drawers : Findable(d)}' = {d \in Drawers : Findable(d)}
  OBVIOUS
<1>2. QED
  BY <1>1 DEF Promise!vars

\* A step on behalf of one drawer is a Put, if it takes nothing back.
LEMMA StepForOne ==
  ASSUME NEW d \in Drawers, stored' = stored \cup {d},
         \A e \in Drawers \ {d} : Findable(e)' <=> Findable(e),
         Findable(d) => Findable(d)',
         acked' \in {acked, acked \cup {d}},
         acked \subseteq Drawers, AckedIsFindable'
  PROVE  Promise!Put(d)
<1> DEFINE now == {e \in Drawers : Findable(e)}
           next == {e \in Drawers : Findable(e)'}
<1>1. next = now \/ next = now \cup {d}
  OBVIOUS
<1>2. acked' \subseteq next
  BY DEF AckedIsFindable
<1>3. QED
  BY <1>1, <1>2 DEF Promise!Put, Promise!Grows

\* Every step of the daemon is a Put of one drawer, or shows nothing.
LEMMA SweepSimulation ==
  /\ SweepTypeOK /\ FindableInv /\ FindableInv' /\ FilingInv
  /\ [SweepNext]_sweepVars
  => [Promise!Next]_Promise!vars
<1> SUFFICES ASSUME SweepTypeOK, FindableInv, FindableInv', FilingInv,
                    [SweepNext]_sweepVars
             PROVE  Promise!Next \/ UNCHANGED Promise!vars
  OBVIOUS
<1> USE SweepAssumption DEF logVars, threadVars, sweepBounds, Threads
<1>1. CASE Warm \/ Poll \/ CloseStore \/ RestartDaemon \/ UNCHANGED sweepVars
  BY <1>1, LogUntouched
     DEF Warm, Poll, CloseStore, RestartDaemon, sweepVars, Findable
<1>2. CASE NewRequest
  BY <1>2, LogUntouched DEF NewRequest, Request, Findable
<1>3. ASSUME NEW t \in Threads,
             \/ Query(t) \/ SweepWriteRaises(t) \/ SweepDone(t)
             \/ RequestRaises(t)
             \/ \E d \in Drawers : SweepEmbed(t, d) \/ SweepEmbedRaises(t, d)
      PROVE  UNCHANGED Promise!vars
  BY <1>3, LogUntouched
     DEF Query, SweepWriteRaises, SweepDone, RequestRaises, SweepEmbed,
         SweepEmbedRaises, StaysMarked, Findable
<1>4. ASSUME NEW t \in Threads, Attach(t) PROVE UNCHANGED Promise!vars
  <2>1. UNCHANGED <<stored, marked, acked>>
    BY <1>4 DEF Attach
  <2>2. \A d \in Drawers : IF d \in item[t] THEN vectors'[d] > 0
                                           ELSE vectors'[d] = vectors[d]
    BY <1>4 DEF Attach, AddEdges, SweepTypeOK
  <2>3. \A d \in item[t] : Findable(d)
    BY DEF FilingInv
  <2>4. \A d \in Drawers : Findable(d)' <=> Findable(d)
    BY <2>1, <2>2, <2>3 DEF Findable
  <2>5. QED
    BY <2>1, <2>4, LogUntouched
<1>5. ASSUME NEW t \in Threads, Clear(t) PROVE UNCHANGED Promise!vars
  <2>1. UNCHANGED <<stored, vectors, acked>> /\ marked' = marked \ item[t]
    BY <1>5 DEF Clear
  <2>2. \A d \in item[t] : vectors[d] > 0
    BY <1>5 DEF Clear, FindableInv
  <2>3. \A d \in Drawers : Findable(d)' <=> Findable(d)
    BY <2>1, <2>2 DEF Findable
  <2>4. QED
    BY <2>1, <2>3, LogUntouched
<1>6. ASSUME NEW t \in Requests, Check(t) \/ Embed(t) \/ EmbedRaises(t)
      PROVE  UNCHANGED Promise!vars
  BY <1>6, LogUntouched DEF Check, Embed, EmbedRaises, Findable
<1>7. ASSUME NEW t \in Requests, File(t) \/ Mark(t) \/ Return(t)
      PROVE  Promise!Next \/ UNCHANGED Promise!vars
  <2>1. /\ stored' \in {stored, stored \cup drawer[t]}
        /\ \A d \in Drawers : d \notin drawer[t] => vectors'[d] = vectors[d]
        /\ \A d \in Drawers : vectors[d] > 0 => vectors'[d] > 0
        /\ marked' \in {marked, marked \cup drawer[t]}
        /\ acked' \in {acked, acked \cup drawer[t]}
    BY <1>7 DEF File, AddEdges, Mark, Marks, Return, SweepTypeOK
  <2>2. drawer[t] \subseteq stored'
    BY <1>7 DEF File, Mark, Return, FindableInv, Findable
  <2>3. CASE drawer[t] = {}
    BY <2>1, <2>3, LogUntouched DEF Findable
  <2>4. ASSUME NEW d \in drawer[t] PROVE Promise!Next
    <3>1. drawer[t] = {d} /\ d \in Drawers
      BY DEF FilingInv, SweepTypeOK
    <3>2. stored' = stored \cup {d} /\ acked' \in {acked, acked \cup {d}}
      BY <2>1, <2>2, <3>1
    <3>3. \A e \in Drawers \ {d} : Findable(e)' <=> Findable(e)
      BY <2>1, <3>1, <3>2 DEF Findable
    <3>4. Findable(d) => Findable(d)'
      BY <2>1, <3>1, <3>2 DEF Findable
    <3>5. AckedIsFindable' /\ acked \subseteq Drawers
      BY DEF FindableInv, SweepTypeOK
    <3>6. Promise!Put(d)
      BY <3>1, <3>2, <3>3, <3>4, <3>5, StepForOne
    <3>7. QED
      BY <3>1, <3>6 DEF Promise!Next
  <2>5. QED
    BY <2>3, <2>4
<1>8. QED
  BY <1>1, <1>2, <1>3, <1>4, <1>5, <1>6, <1>7 DEF SweepNext, Sweep, Serve

\* The daemon, with its two-step writes, its racing sweeps and its restarts,
\* keeps the promise of Filing: what it has acknowledged is findable, and what
\* is findable stays so.
THEOREM DaemonFiles == SweepSpec => ImplementsFiling
<1>1. SweepInit => Promise!Init
  BY DEF SweepInit, Promise!Init, Findable
<1>2. QED
  BY <1>1, SweepSimulation, SweepTypeCorrect, FindableInductive,
     FilingInductive, PTL
     DEF SweepSpec, Promise!Spec, ImplementsFiling
=============================================================================
