--------------------- MODULE DaemonLifecycle_proofs ---------------------
(***************************************************************************)
(* Machine-checked proofs about DaemonLifecycle, for any sessions, process *)
(* ids, crashes and reused pids.                                           *)
(***************************************************************************)
EXTENDS DaemonLifecycle, TLAPS

\* Sessions and daemons keep their types; the discovery file, the spawn lock
\* and the owner lock each name one process at most.
THEOREM TypeCorrect == Spec => []TypeOK
<1> USE LifecycleAssumption
<1>1. Init => TypeOK
  BY DEF Init, TypeOK, AtMost1, ClientSteps, DaemonSteps
<1>2. TypeOK /\ [Next]_vars => TypeOK'
  <2> SUFFICES ASSUME TypeOK, [Next]_vars PROVE TypeOK'
    OBVIOUS
  <2> USE DEF TypeOK, AtMost1, ClientSteps, DaemonSteps, fileVars, daemonVars,
              localVars, restVars, Goto, Step
  <2>1. ASSUME NEW c \in Clients, Call(c) PROVE TypeOK'
    BY <2>1 DEF Call
  <2>2. ASSUME NEW c \in Clients, ReadJson(c) PROVE TypeOK'
    BY <2>2 DEF ReadJson
  <2>3. ASSUME NEW c \in Clients, Healthy(c) PROVE TypeOK'
    BY <2>3 DEF Healthy
  <2>4. ASSUME NEW c \in Clients, Retire(c) PROVE TypeOK'
    BY <2>4 DEF Retire, NotFound, Answers
  <2>5. ASSUME NEW c \in Clients, Unhealthy(c) PROVE TypeOK'
    BY <2>5 DEF Unhealthy, NotFound
  <2>6. ASSUME NEW c \in Clients, Recovered(c) PROVE TypeOK'
    BY <2>6 DEF Recovered, RecoverOnce
  <2>7. ASSUME NEW c \in Clients, Terminate(c) PROVE TypeOK'
    BY <2>7 DEF Terminate, NotFound
  <2>8. ASSUME NEW c \in Clients, CreateLock(c) PROVE TypeOK'
    BY <2>8 DEF CreateLock
  <2>9. ASSUME NEW c \in Clients, LockExists(c) PROVE TypeOK'
    BY <2>9 DEF LockExists, MayClear
  <2>10. ASSUME NEW c \in Clients, ClearStaleLock(c) PROVE TypeOK'
    BY <2>10 DEF ClearStaleLock
  <2>11. ASSUME NEW c \in Clients, Popen(c) PROVE TypeOK'
    BY <2>11 DEF Popen
  <2>12. ASSUME NEW c \in Clients, Poll(c) PROVE TypeOK'
    BY <2>12 DEF Poll
  <2>13. ASSUME NEW c \in Clients, PollProbe(c) PROVE TypeOK'
    BY <2>13 DEF PollProbe
  <2>14. ASSUME NEW c \in Clients, PollTimeout(c) PROVE TypeOK'
    BY <2>14 DEF PollTimeout
  <2>15. ASSUME NEW c \in Clients, Unlock(c) PROVE TypeOK'
    BY <2>15 DEF Unlock
  <2>16. ASSUME NEW c \in Clients, Return(c) PROVE TypeOK'
    BY <2>16 DEF Return, Forget
  <2>17. ASSUME NEW c \in Clients, KillClient(c) PROVE TypeOK'
    BY <2>17 DEF KillClient, Forget
  <2>18. ASSUME NEW d \in Daemons, NEW from \in {"acquire", "grace"}, Acquire(d, from) PROVE TypeOK'
    BY <2>18 DEF Acquire
  <2>19. ASSUME NEW d \in Daemons, AcquireFails(d) PROVE TypeOK'
    BY <2>19 DEF AcquireFails
  <2>20. ASSUME NEW d \in Daemons, Duplicate(d) PROVE TypeOK'
    BY <2>20 DEF Duplicate
  <2>21. ASSUME NEW d \in Daemons, NotReachable(d) PROVE TypeOK'
    BY <2>21 DEF NotReachable
  <2>22. ASSUME NEW d \in Daemons, GraceOver(d) PROVE TypeOK'
    BY <2>22 DEF GraceOver, GivesUp
  <2>23. ASSUME NEW d \in Daemons, OpenStore(d) PROVE TypeOK'
    BY <2>23 DEF OpenStore
  <2>24. ASSUME NEW d \in Daemons, WriteJson(d) PROVE TypeOK'
    BY <2>24 DEF WriteJson
  <2>25. ASSUME NEW d \in Daemons, Serve(d) PROVE TypeOK'
    BY <2>25 DEF Serve
  <2>26. ASSUME NEW d \in Daemons, StopServing(d) PROVE TypeOK'
    BY <2>26 DEF StopServing
  <2>27. ASSUME NEW d \in Daemons, CloseStore(d) PROVE TypeOK'
    BY <2>27 DEF CloseStore
  <2>28. ASSUME NEW d \in Daemons, CheckJson(d) PROVE TypeOK'
    BY <2>28 DEF CheckJson
  <2>29. ASSUME NEW d \in Daemons, UnlinkJson(d) PROVE TypeOK'
    BY <2>29 DEF UnlinkJson
  <2>30. ASSUME NEW d \in Daemons, Release(d) PROVE TypeOK'
    BY <2>30 DEF Release
  <2>31. ASSUME NEW d \in Daemons, Exit(d) PROVE TypeOK'
    BY <2>31 DEF Exit
  <2>32. ASSUME NEW d \in Daemons, KillDaemon(d) PROVE TypeOK'
    BY <2>32 DEF KillDaemon
  <2>33. ASSUME NEW d \in Daemons, Recycle(d) PROVE TypeOK'
    BY <2>33 DEF Recycle
  <2>34. CASE LockGrowsOld
    <3>1. CASE lock = {}
      BY <2>34, <3>1 DEF LockGrowsOld
    <3>2. ASSUME NEW l \in [by : Clients, old : BOOLEAN], lock = {l} PROVE TypeOK'
      <4>1. lock' = {[l EXCEPT !.old = TRUE]}
        BY <2>34, <3>2 DEF LockGrowsOld
      <4>2. [l EXCEPT !.old = TRUE] \in [by : Clients, old : BOOLEAN]
        OBVIOUS
      <4>3. QED
        BY <2>34, <4>1, <4>2 DEF LockGrowsOld
    <3>3. QED
      BY <3>1, <3>2
  <2>35. CASE UNCHANGED vars
    BY <2>35 DEF vars
  <2>36. QED
    BY <2>1, <2>2, <2>3, <2>4, <2>5, <2>6, <2>7, <2>8, <2>9, <2>10,
       <2>11, <2>12, <2>13, <2>14, <2>15, <2>16, <2>17, <2>18, <2>19,
       <2>20, <2>21, <2>22, <2>23, <2>24, <2>25, <2>26, <2>27, <2>28,
       <2>29, <2>30, <2>31, <2>32, <2>33, <2>34, <2>35 DEF Next,
       ClientStep, DaemonStep
<1>3. QED
  BY <1>1, <1>2, PTL DEF Spec

\* The flock has one holder.
LEMMA OneHolder ==
  ASSUME OwnerInv, NEW d \in Daemons, NEW e \in Daemons,
         dpc[d] \in Holding, dpc[e] \in Holding
  PROVE  d = e
<1>1. owner = {d} /\ owner = {e}
  BY DEF OwnerInv
<1>2. d \in {e}
  BY <1>1, SMT
<1>3. QED
  BY <1>2

\* A daemon that gives the flock back, or dies, leaves the others as they were.
LEMMA Leaves ==
  ASSUME OwnerInv, dpc \in [Daemons -> DaemonSteps], NEW d \in Daemons,
         NEW to \in {"gone", "return"}, dpc' = [dpc EXCEPT ![d] = to],
         owner' = owner \ {d}, json' = json
  PROVE  OwnerInv'
<1>1. SUFFICES ASSUME NEW e \in Daemons, dpc'[e] \in Holding
               PROVE  owner' = {e} /\ (dpc'[e] \in Published => json' = {e})
  BY DEF OwnerInv, Holding, Published
<1>2. e # d /\ dpc[e] = dpc'[e]
  BY <1>1 DEF Holding
<1>3. owner = {e} /\ (dpc'[e] \in Published => json = {e})
  BY <1>1, <1>2 DEF OwnerInv
<1>4. owner \ {d} = {e}
  BY <1>2, <1>3
<1>5. QED
  BY <1>3, <1>4

\* The owner lock and daemon.json follow the daemon that runs (OwnerInv is
\* inductive on its own).
LEMMA OwnerInductive == Spec => []OwnerInv
<1>1. Init => OwnerInv
  BY DEF Init, OwnerInv, Holding, Published
<1>2. TypeOK /\ OwnerInv /\ [Next]_vars => OwnerInv'
  <2> SUFFICES ASSUME TypeOK, OwnerInv, [Next]_vars PROVE OwnerInv'
    OBVIOUS
  <2>0. dpc \in [Daemons -> DaemonSteps]
    BY DEF TypeOK
  <2>a. \A d, e \in Daemons : dpc[d] \in Holding /\ dpc[e] \in Holding => d = e
    BY OneHolder
  <2> USE <2>0, <2>a DEF OwnerInv, Holding, Published, fileVars, daemonVars, localVars,
              restVars, Step
  <2>1. ASSUME NEW c \in Clients, Call(c) PROVE OwnerInv'
    BY <2>1 DEF Call
  <2>2. ASSUME NEW c \in Clients, ReadJson(c) PROVE OwnerInv'
    BY <2>2 DEF ReadJson
  <2>3. ASSUME NEW c \in Clients, Healthy(c) PROVE OwnerInv'
    BY <2>3 DEF Healthy
  <2>4. ASSUME NEW c \in Clients, Retire(c) PROVE OwnerInv'
    BY <2>4 DEF Retire
  <2>5. ASSUME NEW c \in Clients, Unhealthy(c) PROVE OwnerInv'
    BY <2>5 DEF Unhealthy
  <2>6. ASSUME NEW c \in Clients, Recovered(c) PROVE OwnerInv'
    BY <2>6 DEF Recovered
  <2>7. ASSUME NEW c \in Clients, Terminate(c) PROVE OwnerInv'
    <3>1. PICK d \in info[c] : Terminate(c)!2!(d)
      BY <2>7 DEF Terminate
    <3>2. d \in Daemons /\ UNCHANGED json
      BY <2>7, <3>1 DEF Terminate, TypeOK, AtMost1
    <3>3. CASE UNCHANGED <<dpc, owner>>
      BY <3>2, <3>3
    <3>4. CASE dpc' = [dpc EXCEPT ![d] = "gone"] /\ owner' = owner \ {d}
      BY <2>0, <3>2, <3>4, Leaves
    <3>5. QED
      BY <3>1, <3>3, <3>4
  <2>8. ASSUME NEW c \in Clients, CreateLock(c) PROVE OwnerInv'
    BY <2>8 DEF CreateLock
  <2>9. ASSUME NEW c \in Clients, LockExists(c) PROVE OwnerInv'
    BY <2>9 DEF LockExists
  <2>10. ASSUME NEW c \in Clients, ClearStaleLock(c) PROVE OwnerInv'
    BY <2>10 DEF ClearStaleLock
  <2>11. ASSUME NEW c \in Clients, Popen(c) PROVE OwnerInv'
    BY <2>11 DEF Popen, Alive
  <2>12. ASSUME NEW c \in Clients, Poll(c) PROVE OwnerInv'
    BY <2>12 DEF Poll
  <2>13. ASSUME NEW c \in Clients, PollProbe(c) PROVE OwnerInv'
    BY <2>13 DEF PollProbe
  <2>14. ASSUME NEW c \in Clients, PollTimeout(c) PROVE OwnerInv'
    BY <2>14 DEF PollTimeout
  <2>15. ASSUME NEW c \in Clients, Unlock(c) PROVE OwnerInv'
    BY <2>15 DEF Unlock
  <2>16. ASSUME NEW c \in Clients, Return(c) PROVE OwnerInv'
    BY <2>16 DEF Return
  <2>17. ASSUME NEW c \in Clients, KillClient(c) PROVE OwnerInv'
    BY <2>17 DEF KillClient
  <2>18. ASSUME NEW d \in Daemons, NEW from \in {"acquire", "grace"}, Acquire(d, from) PROVE OwnerInv'
    BY <2>18 DEF Acquire
  <2>19. ASSUME NEW d \in Daemons, AcquireFails(d) PROVE OwnerInv'
    BY <2>19 DEF AcquireFails
  <2>20. ASSUME NEW d \in Daemons, Duplicate(d) PROVE OwnerInv'
    BY <2>20 DEF Duplicate
  <2>21. ASSUME NEW d \in Daemons, NotReachable(d) PROVE OwnerInv'
    BY <2>21 DEF NotReachable
  <2>22. ASSUME NEW d \in Daemons, GraceOver(d) PROVE OwnerInv'
    BY <2>22 DEF GraceOver, GivesUp
  <2>23. ASSUME NEW d \in Daemons, OpenStore(d) PROVE OwnerInv'
    BY <2>23 DEF OpenStore
  <2>24. ASSUME NEW d \in Daemons, WriteJson(d) PROVE OwnerInv'
    <3>1. \A e \in Daemons : e # d => dpc[e] \notin Holding /\ dpc'[e] = dpc[e]
      BY <2>24 DEF WriteJson
    <3>2. json' = {d} /\ owner' = {d}
      BY <2>24 DEF WriteJson
    <3>3. QED
      BY <3>1, <3>2
  <2>25. ASSUME NEW d \in Daemons, Serve(d) PROVE OwnerInv'
    BY <2>25 DEF Serve
  <2>26. ASSUME NEW d \in Daemons, StopServing(d) PROVE OwnerInv'
    BY <2>26 DEF StopServing
  <2>27. ASSUME NEW d \in Daemons, CloseStore(d) PROVE OwnerInv'
    BY <2>27 DEF CloseStore
  <2>28. ASSUME NEW d \in Daemons, CheckJson(d) PROVE OwnerInv'
    BY <2>28 DEF CheckJson
  <2>29. ASSUME NEW d \in Daemons, UnlinkJson(d) PROVE OwnerInv'
    <3>1. \A e \in Daemons : e # d => dpc[e] \notin Holding /\ dpc'[e] = dpc[e]
      BY <2>29 DEF UnlinkJson
    <3>2. dpc'[d] \notin Published /\ owner' = {d}
      BY <2>29 DEF UnlinkJson
    <3>3. QED
      BY <3>1, <3>2
  <2>30. ASSUME NEW d \in Daemons, Release(d) PROVE OwnerInv'
    BY <2>30, <2>0, Leaves DEF Release
  <2>31. ASSUME NEW d \in Daemons, Exit(d) PROVE OwnerInv'
    BY <2>31 DEF Exit
  <2>32. ASSUME NEW d \in Daemons, KillDaemon(d) PROVE OwnerInv'
    BY <2>32, <2>0, Leaves DEF KillDaemon
  <2>33. ASSUME NEW d \in Daemons, Recycle(d) PROVE OwnerInv'
    BY <2>33 DEF Recycle
  <2>34. CASE LockGrowsOld
    BY <2>34 DEF LockGrowsOld
  <2>35. CASE UNCHANGED vars
    BY <2>35 DEF vars
  <2>36. QED
    BY <2>1, <2>2, <2>3, <2>4, <2>5, <2>6, <2>7, <2>8, <2>9, <2>10,
       <2>11, <2>12, <2>13, <2>14, <2>15, <2>16, <2>17, <2>18, <2>19,
       <2>20, <2>21, <2>22, <2>23, <2>24, <2>25, <2>26, <2>27, <2>28,
       <2>29, <2>30, <2>31, <2>32, <2>33, <2>34, <2>35 DEF Next,
       ClientStep, DaemonStep
<1>3. QED
  BY <1>1, <1>2, TypeCorrect, PTL DEF Spec

\* Two daemons never serve the same home.
THEOREM OneDaemonServes == Spec => []OneServing
<1>1. OwnerInv => OneServing
  BY OneHolder DEF OneServing, Holding
<1>2. QED
  BY <1>1, OwnerInductive, PTL

\* The daemon that serves is the one daemon.json names, for as long as it does.
THEOREM ServingIsDiscoverable == Spec => []Discoverable
<1>1. OwnerInv => Discoverable
  BY DEF OwnerInv, Discoverable, Published
<1>2. QED
  BY <1>1, OwnerInductive, PTL

\* A store is open only in a process between open and the exit.
LEMMA OpenInductive == Spec => []OpenInv
<1>1. Init => OpenInv
  BY DEF Init, OpenInv
<1>2. TypeOK /\ OpenInv /\ [Next]_vars => OpenInv'
  <2> SUFFICES ASSUME TypeOK, OpenInv, [Next]_vars PROVE OpenInv'
    OBVIOUS
  <2>0. dpc \in [Daemons -> DaemonSteps] /\ opened \subseteq Daemons
    BY DEF TypeOK
  <2> USE <2>0 DEF OpenInv, Opened, Holding, fileVars, daemonVars, localVars,
              restVars, Step
  <2>1. ASSUME NEW c \in Clients, Call(c) PROVE OpenInv'
    BY <2>1 DEF Call
  <2>2. ASSUME NEW c \in Clients, ReadJson(c) PROVE OpenInv'
    BY <2>2 DEF ReadJson
  <2>3. ASSUME NEW c \in Clients, Healthy(c) PROVE OpenInv'
    BY <2>3 DEF Healthy
  <2>4. ASSUME NEW c \in Clients, Retire(c) PROVE OpenInv'
    BY <2>4 DEF Retire
  <2>5. ASSUME NEW c \in Clients, Unhealthy(c) PROVE OpenInv'
    BY <2>5 DEF Unhealthy
  <2>6. ASSUME NEW c \in Clients, Recovered(c) PROVE OpenInv'
    BY <2>6 DEF Recovered
  <2>7. ASSUME NEW c \in Clients, Terminate(c) PROVE OpenInv'
    BY <2>7 DEF Terminate
  <2>8. ASSUME NEW c \in Clients, CreateLock(c) PROVE OpenInv'
    BY <2>8 DEF CreateLock
  <2>9. ASSUME NEW c \in Clients, LockExists(c) PROVE OpenInv'
    BY <2>9 DEF LockExists
  <2>10. ASSUME NEW c \in Clients, ClearStaleLock(c) PROVE OpenInv'
    BY <2>10 DEF ClearStaleLock
  <2>11. ASSUME NEW c \in Clients, Popen(c) PROVE OpenInv'
    BY <2>11 DEF Popen, Alive
  <2>12. ASSUME NEW c \in Clients, Poll(c) PROVE OpenInv'
    BY <2>12 DEF Poll
  <2>13. ASSUME NEW c \in Clients, PollProbe(c) PROVE OpenInv'
    BY <2>13 DEF PollProbe
  <2>14. ASSUME NEW c \in Clients, PollTimeout(c) PROVE OpenInv'
    BY <2>14 DEF PollTimeout
  <2>15. ASSUME NEW c \in Clients, Unlock(c) PROVE OpenInv'
    BY <2>15 DEF Unlock
  <2>16. ASSUME NEW c \in Clients, Return(c) PROVE OpenInv'
    BY <2>16 DEF Return
  <2>17. ASSUME NEW c \in Clients, KillClient(c) PROVE OpenInv'
    BY <2>17 DEF KillClient
  <2>18. ASSUME NEW d \in Daemons, NEW from \in {"acquire", "grace"}, Acquire(d, from) PROVE OpenInv'
    BY <2>18 DEF Acquire
  <2>19. ASSUME NEW d \in Daemons, AcquireFails(d) PROVE OpenInv'
    BY <2>19 DEF AcquireFails
  <2>20. ASSUME NEW d \in Daemons, Duplicate(d) PROVE OpenInv'
    BY <2>20 DEF Duplicate
  <2>21. ASSUME NEW d \in Daemons, NotReachable(d) PROVE OpenInv'
    BY <2>21 DEF NotReachable
  <2>22. ASSUME NEW d \in Daemons, GraceOver(d) PROVE OpenInv'
    BY <2>22 DEF GraceOver, GivesUp
  <2>23. ASSUME NEW d \in Daemons, OpenStore(d) PROVE OpenInv'
    BY <2>23 DEF OpenStore
  <2>24. ASSUME NEW d \in Daemons, WriteJson(d) PROVE OpenInv'
    BY <2>24 DEF WriteJson
  <2>25. ASSUME NEW d \in Daemons, Serve(d) PROVE OpenInv'
    BY <2>25 DEF Serve
  <2>26. ASSUME NEW d \in Daemons, StopServing(d) PROVE OpenInv'
    BY <2>26 DEF StopServing
  <2>27. ASSUME NEW d \in Daemons, CloseStore(d) PROVE OpenInv'
    BY <2>27 DEF CloseStore
  <2>28. ASSUME NEW d \in Daemons, CheckJson(d) PROVE OpenInv'
    BY <2>28 DEF CheckJson
  <2>29. ASSUME NEW d \in Daemons, UnlinkJson(d) PROVE OpenInv'
    BY <2>29 DEF UnlinkJson
  <2>30. ASSUME NEW d \in Daemons, Release(d) PROVE OpenInv'
    BY <2>30 DEF Release
  <2>31. ASSUME NEW d \in Daemons, Exit(d) PROVE OpenInv'
    BY <2>31 DEF Exit
  <2>32. ASSUME NEW d \in Daemons, KillDaemon(d) PROVE OpenInv'
    BY <2>32 DEF KillDaemon
  <2>33. ASSUME NEW d \in Daemons, Recycle(d) PROVE OpenInv'
    BY <2>33 DEF Recycle
  <2>34. CASE LockGrowsOld
    BY <2>34 DEF LockGrowsOld
  <2>35. CASE UNCHANGED vars
    BY <2>35 DEF vars
  <2>36. QED
    BY <2>1, <2>2, <2>3, <2>4, <2>5, <2>6, <2>7, <2>8, <2>9, <2>10,
       <2>11, <2>12, <2>13, <2>14, <2>15, <2>16, <2>17, <2>18, <2>19,
       <2>20, <2>21, <2>22, <2>23, <2>24, <2>25, <2>26, <2>27, <2>28,
       <2>29, <2>30, <2>31, <2>32, <2>33, <2>34, <2>35 DEF Next,
       ClientStep, DaemonStep
<1>3. QED
  BY <1>1, <1>2, TypeCorrect, PTL DEF Spec

\* Two processes have the log open only when one of them is about to exit.
THEOREM StoresDoNotOverlap == Spec => []OneStoreOpen
<1>1. TypeOK /\ OwnerInv /\ OpenInv => OneStoreOpen
  <2>1. SUFFICES ASSUME TypeOK, OwnerInv, OpenInv, NEW d \in opened, NEW e \in opened,
                        dpc[d] # "return", dpc[e] # "return"
                 PROVE  d = e
    BY DEF OneStoreOpen
  <2>2. dpc[d] \in Holding /\ dpc[e] \in Holding
    BY <2>1 DEF OpenInv, Opened
  <2>3. QED
    BY <2>1, <2>2, OneHolder DEF TypeOK
<1>2. QED
  BY <1>1, TypeCorrect, OwnerInductive, OpenInductive, PTL

-----------------------------------------------------------------------------
(* The home implements Home                                                *)

\* A step that shows neither in the files nor in who serves.
LEMMA Unseen ==
  ASSUME UNCHANGED <<owner, json>>, Serving' = Serving
  PROVE  UNCHANGED Promise!vars
BY DEF Promise!vars

\* A daemon's step from and to where it does not serve.
LEMMA SameServing ==
  ASSUME dpc \in [Daemons -> DaemonSteps], NEW d \in Daemons, NEW from, NEW to,
         Step(d, from, to), from # "serve", to # "serve"
  PROVE  Serving' = Serving
BY DEF Serving, Step

\* Who serves is the holder, and alone.
LEMMA ServesAlone ==
  ASSUME OwnerInv, NEW d \in Daemons, owner = {d}
  PROVE  Serving = IF dpc[d] = "serve" THEN {d} ELSE {}
<1>1. \A e \in Daemons : dpc[e] = "serve" => owner = {e}
  BY DEF OwnerInv, Holding
<1>2. \A e \in Daemons : owner = {e} => e = d
  OBVIOUS
<1>3. QED
  BY <1>1, <1>2 DEF Serving

\* A free home serves nobody.
LEMMA FreeIsSilent == ASSUME OwnerInv, owner = {} PROVE Serving = {}
<1>1. \A e \in Daemons : dpc[e] = "serve" => owner = {e}
  BY DEF OwnerInv, Holding
<1>2. QED
  BY <1>1 DEF Serving

\* A daemon that ends leaves the home, if it was its.
LEMMA Ends ==
  ASSUME TypeOK, OwnerInv, NEW d \in Daemons, NEW to \in {"gone", "return"},
         dpc' = [dpc EXCEPT ![d] = to], owner' = owner \ {d}, json' = json
  PROVE  Promise!Leave(d) \/ UNCHANGED Promise!vars
<1>0. dpc \in [Daemons -> DaemonSteps] /\ owner \in AtMost1(Daemons)
  BY DEF TypeOK
<1>1. Serving' = Serving \ {d}
  BY <1>0 DEF Serving
<1>2. CASE owner = {d}
  <2>1. Serving \ {d} = {}
    BY <1>2, ServesAlone
  <2>2. QED
    BY <1>1, <1>2, <2>1 DEF Promise!Leave
<1>3. CASE owner # {d}
  <2>1. owner' = owner
    BY <1>0, <1>3 DEF AtMost1
  <2>2. dpc[d] # "serve"
    BY <1>3 DEF OwnerInv, Holding
  <2>3. Serving' = Serving
    BY <1>1, <2>2 DEF Serving
  <2>4. QED
    BY <2>1, <2>3, Unseen
<1>4. QED
  BY <1>2, <1>3

\* What sessions do shows only when their SIGTERM kills a daemon.
LEMMA SessionSimulation ==
  ASSUME TypeOK, OwnerInv, NEW c \in Clients,
         Call(c) \/ ClientStep(c) \/ PollTimeout(c) \/ KillClient(c)
  PROVE  [Promise!Next]_Promise!vars
<1>0. dpc \in [Daemons -> DaemonSteps]
  BY DEF TypeOK
<1>1. CASE UNCHANGED <<json, owner, dpc>>
  BY <1>1, Unseen DEF Serving
<1>2. CASE Popen(c)
  <2>1. PICK d \in Daemons : Step(d, "gone", "acquire")
    BY <1>2 DEF Popen
  <2>2. QED
    BY <1>0, <1>2, <2>1, SameServing, Unseen DEF Popen, fileVars
<1>3. CASE Terminate(c)
  <2>1. PICK d \in info[c] : Terminate(c)!2!(d)
    BY <1>3 DEF Terminate
  <2>2. d \in Daemons /\ UNCHANGED json
    BY <1>3, <2>1 DEF Terminate, TypeOK, AtMost1
  <2>3. CASE dpc' = [dpc EXCEPT ![d] = "gone"] /\ owner' = owner \ {d}
    BY <2>2, <2>3, Ends DEF Promise!Next
  <2>4. QED
    BY <1>1, <2>1, <2>2, <2>3
<1>4. ASSUME ~Popen(c), ~Terminate(c) PROVE UNCHANGED <<json, owner, dpc>>
  <2>1. Call(c) \/ PollTimeout(c) \/ KillClient(c) => UNCHANGED <<json, owner, dpc>>
    BY DEF Call, PollTimeout, KillClient, fileVars, daemonVars
  <2>2. ReadJson(c) \/ Healthy(c) \/ Retire(c) \/ Unhealthy(c) \/ Recovered(c)
          => UNCHANGED <<json, owner, dpc>>
    BY DEF ReadJson, Healthy, Retire, Unhealthy, Recovered, fileVars, daemonVars
  <2>3. CreateLock(c) \/ LockExists(c) \/ ClearStaleLock(c) \/ Poll(c)
          => UNCHANGED <<json, owner, dpc>>
    BY DEF CreateLock, LockExists, ClearStaleLock, Poll, fileVars, daemonVars
  <2>4. PollProbe(c) \/ Unlock(c) \/ Return(c) => UNCHANGED <<json, owner, dpc>>
    BY DEF PollProbe, Unlock, Return, fileVars, daemonVars
  <2>5. QED
    BY <1>4, <2>1, <2>2, <2>3, <2>4 DEF ClientStep
<1>5. QED
  BY <1>1, <1>2, <1>3, <1>4

\* What a daemon does is a step of the abstract one, or does not show.
LEMMA DaemonSimulation ==
  ASSUME TypeOK, OwnerInv, NEW d \in Daemons, DaemonStep(d)
  PROVE  [Promise!Next]_Promise!vars
<1>0. dpc \in [Daemons -> DaemonSteps]
  BY DEF TypeOK
<1>a. dpc[d] \in Holding => owner = {d}
  BY DEF OwnerInv
<1>b. dpc[d] \in Published => json = {d}
  BY DEF OwnerInv
<1>1. ASSUME NEW from \in {"acquire", "grace"}, Acquire(d, from)
      PROVE  Promise!Take(d)
  <2>1. Serving = {} /\ Serving' = Serving
    BY <1>0, <1>1, SameServing, FreeIsSilent DEF Acquire
  <2>2. QED
    BY <1>1, <2>1 DEF Acquire, Promise!Take
<1>2. CASE WriteJson(d)
  <2>1. owner = {d} /\ dpc[d] # "serve"
    BY <1>2, <1>a DEF WriteJson, Step, Holding
  <2>2. Serving = {} /\ Serving' = Serving
    BY <1>0, <1>2, <2>1, SameServing, ServesAlone DEF WriteJson
  <2>3. Promise!Announce(d)
    BY <1>2, <2>1, <2>2 DEF WriteJson, Promise!Announce
  <2>4. QED
    BY <2>3 DEF Promise!Next
<1>3. CASE Serve(d)
  <2>1. owner = {d} /\ json = {d} /\ dpc[d] = "arm"
    BY <1>3, <1>a, <1>b DEF Serve, Step, Holding, Published
  <2>2. Serving = {}
    BY <2>1, ServesAlone
  <2>3. Serving' = {d}
    BY <1>0, <1>3, <2>2 DEF Serve, Step, Serving
  <2>4. Promise!Serve(d)
    BY <1>3, <2>1, <2>2, <2>3 DEF Serve, fileVars, Promise!Serve
  <2>5. QED
    BY <2>4 DEF Promise!Next
<1>4. CASE StopServing(d)
  <2>1. owner = {d} /\ dpc[d] = "serve"
    BY <1>4, <1>a DEF StopServing, Step, Holding
  <2>2. Serving = {d}
    BY <2>1, ServesAlone
  <2>3. Serving' = {}
    BY <1>0, <1>4, <2>2 DEF StopServing, Step, Serving
  <2>4. Promise!Stop(d)
    BY <1>4, <2>2, <2>3 DEF StopServing, fileVars, Promise!Stop
  <2>5. QED
    BY <2>4 DEF Promise!Next
<1>5. CASE UnlinkJson(d)
  <2>1. owner = {d} /\ json = {d} /\ dpc[d] = "unlink"
    BY <1>5, <1>a, <1>b DEF UnlinkJson, Step, Holding, Published
  <2>2. Serving = {} /\ Serving' = Serving
    BY <1>0, <1>5, <2>1, SameServing, ServesAlone DEF UnlinkJson
  <2>3. Promise!Withdraw(d)
    BY <1>5, <2>1, <2>2 DEF UnlinkJson, Promise!Withdraw
  <2>4. QED
    BY <2>3 DEF Promise!Next
<1>6. CASE Release(d)
  <2>1. dpc' = [dpc EXCEPT ![d] = "return"]
    BY <1>6 DEF Release, Step
  <2>2. owner' = owner \ {d} /\ json' = json
    BY <1>6 DEF Release
  <2>3. QED
    BY <2>1, <2>2, Ends DEF Promise!Next
<1>7. CASE AcquireFails(d) \/ Duplicate(d) \/ NotReachable(d) \/ GraceOver(d)
  <2>1. UNCHANGED <<owner, json>>
    BY <1>7 DEF AcquireFails, Duplicate, NotReachable, GraceOver, fileVars
  <2>2. Serving' = Serving
    BY <1>0, <1>7, SameServing
       DEF AcquireFails, Duplicate, NotReachable, GraceOver, GivesUp
  <2>3. QED
    BY <2>1, <2>2, Unseen
<1>8. CASE OpenStore(d) \/ CheckJson(d) \/ Exit(d)
  <2>1. UNCHANGED <<owner, json>>
    BY <1>8 DEF OpenStore, CheckJson, Exit, fileVars
  <2>2. Serving' = Serving
    BY <1>0, <1>8, SameServing DEF OpenStore, CheckJson, Exit
  <2>3. QED
    BY <2>1, <2>2, Unseen
<1>9. CASE CloseStore(d)
  BY <1>9, Unseen DEF CloseStore, fileVars, Serving
<1>10. QED
  BY <1>1, <1>2, <1>3, <1>4, <1>5, <1>6, <1>7, <1>8, <1>9
     DEF DaemonStep, Promise!Next

\* However sessions race and daemons are killed, signalled and replaced, the home
\* has one holder at a time, who alone writes and removes daemon.json, serves
\* only under its own name, and has stopped before the next one begins.
THEOREM HomeHasOneHolder == Spec => ImplementsHome
<1>1. Init => Promise!Init
  BY DEF Init, Promise!Init, Serving
<1>2. TypeOK /\ OwnerInv /\ [Next]_vars => [Promise!Next]_Promise!vars
  <2> SUFFICES ASSUME TypeOK, OwnerInv, [Next]_vars
               PROVE  [Promise!Next]_Promise!vars
    OBVIOUS
  <2>1. ASSUME NEW d \in Daemons, KillDaemon(d) PROVE [Promise!Next]_Promise!vars
    <3>1. dpc' = [dpc EXCEPT ![d] = "gone"] /\ owner' = owner \ {d} /\ json' = json
      BY <2>1 DEF KillDaemon
    <3>2. QED
      BY <3>1, Ends DEF Promise!Next
  <2>2. ASSUME NEW d \in Daemons, Recycle(d) PROVE [Promise!Next]_Promise!vars
    BY <2>2, Unseen DEF Recycle, fileVars, daemonVars, Serving
  <2>3. CASE LockGrowsOld \/ UNCHANGED vars
    BY <2>3, Unseen DEF LockGrowsOld, vars, fileVars, daemonVars, Serving
  <2>4. QED
    BY <2>1, <2>2, <2>3, SessionSimulation, DaemonSimulation DEF Next
<1>3. QED
  BY <1>1, <1>2, TypeCorrect, OwnerInductive, PTL
     DEF Spec, Promise!Spec, ImplementsHome
=============================================================================
