-------------------------- MODULE Briefing_proofs --------------------------
(***************************************************************************)
(* Machine-checked proofs about Briefing, for any sessions and roles, any  *)
(* number of tasks and fetches, and any look-ups; and about Interject, for *)
(* any parallel tool calls, cooldown and number of turns.                  *)
(***************************************************************************)
EXTENDS Briefing, Interject, Integers, TLAPS

\* A task that moves stays a task of its session.
LEMMA AtTypes ==
  ASSUME TasksOK, NEW t \in Tasks, NEW s \in Sessions, NEW event \in Events,
         NEW at \in {"idle", "miss", "check", "wait", "interject"},
         At(t, s, event, at)
  PROVE  TasksOK'
<1> DEFINE new == IF at = "idle" THEN Idle ELSE [s |-> s, event |-> event, at |-> at]
<1>1. new \in TaskState /\ (new.at # "idle" => new.s \in Sessions)
  BY DEF Idle, TaskState, Events
<1>2. task' = [task EXCEPT ![t] = new]
  BY DEF At
<1> HIDE DEF new
<1>3. QED
  BY <1>1, <1>2 DEF TasksOK

\* So does a hook one of whose fields is set.
LEMMA HookTypes ==
  ASSUME hook \in [Sessions -> HookState], NEW s \in Sessions, NEW v,
         \/ v \in Fetches /\ Hook(s, "future", v)
         \/ v = TRUE /\ (Hook(s, "delivered", v) \/ Hook(s, "deferred", v))
  PROVE  hook' \in [Sessions -> HookState]
<1>1. \A h \in HookState, f \in Fetches \cup {None} :
        /\ [h EXCEPT !.future = f] \in HookState
        /\ [h EXCEPT !.delivered = TRUE] \in HookState
        /\ [h EXCEPT !.deferred = TRUE] \in HookState
  BY DEF HookState
<1>2. \/ hook' = [hook EXCEPT ![s] = [hook[s] EXCEPT !.future = v]] /\ v \in Fetches
      \/ hook' = [hook EXCEPT ![s] = [hook[s] EXCEPT !.delivered = TRUE]]
      \/ hook' = [hook EXCEPT ![s] = [hook[s] EXCEPT !.deferred = TRUE]]
  BY DEF Hook
<1>3. PICK h \in HookState : hook' = [hook EXCEPT ![s] = h]
  BY <1>1, <1>2
<1>4. QED
  BY <1>3

\* What prefetch() does to the hook and its task.
LEMMA PrefetchDoes ==
  ASSUME TypeOK, NEW t \in Tasks, NEW s \in Sessions, NEW event,
         NEW then, NEW h \in HookState, Prefetch(t, s, event, then, h)
  PROVE  \E f \in Fetches \cup {None}, at \in {then, "miss"} :
           /\ hook' = [hook EXCEPT ![s] = [h EXCEPT !.future = f]]
           /\ At(t, s, event, at)
           /\ f = h.future \/ f = None \/ ~BadlyDone(f)
<1>1. [h EXCEPT !.future = h.future] = h /\ h.future \in Fetches \cup {None}
  BY DEF HookState
<1>2. Reusable \subseteq Fetches /\ \A f \in Reusable : ~BadlyDone(f)
  BY DEF TypeOK, CacheOK, Reusable
<1>3. QED
  BY <1>1, <1>2 DEF Prefetch

LEMMA PrefetchTypes ==
  ASSUME TypeOK, NEW t \in Tasks, NEW s \in Sessions, NEW event \in Events,
         NEW then \in {"idle", "check"}, NEW h \in HookState,
         Prefetch(t, s, event, then, h)
  PROVE  TasksOK' /\ hook' \in [Sessions -> HookState]
<1>1. PICK f \in Fetches \cup {None}, at \in {then, "miss"} :
        /\ hook' = [hook EXCEPT ![s] = [h EXCEPT !.future = f]]
        /\ At(t, s, event, at)
  BY PrefetchDoes
<1>2. [h EXCEPT !.future = f] \in HookState
  BY DEF HookState
<1>3. TasksOK'
  BY <1>1, AtTypes DEF TypeOK
<1>4. QED
  BY <1>1, <1>2, <1>3 DEF TypeOK

\* Two hooks agree in every field but one.
SameBut(field, g, h) ==
  \A other \in {"phase", "delivered", "deferred", "future"} \ {field} : g[other] = h[other]

LEMMA PrefetchMoves ==
  ASSUME TypeOK, NEW t \in Tasks, NEW s \in Sessions, NEW event,
         NEW then, NEW h \in HookState, Prefetch(t, s, event, then, h)
  PROVE  /\ \E f \in Fetches \cup {None} : hook'[s] = [h EXCEPT !.future = f]
         /\ SameBut("future", hook'[s], h)
         /\ \A r \in Sessions \ {s} : hook'[r] = hook[r]
         /\ \A u \in Tasks \ {t} : task'[u] = task[u]
         /\ \/ then = "idle" /\ task'[t] = Idle
            \/ \E at \in {then, "miss"} : task'[t] = [s |-> s, event |-> event, at |-> at]
<1>1. PICK f \in Fetches \cup {None}, at \in {then, "miss"} :
        /\ hook' = [hook EXCEPT ![s] = [h EXCEPT !.future = f]]
        /\ At(t, s, event, at)
  BY PrefetchDoes
<1>2. hook'[s] = [h EXCEPT !.future = f]
  BY <1>1 DEF TypeOK
<1>3. SameBut("future", hook'[s], h)
  BY <1>2 DEF SameBut, HookState
<1>4. QED
  BY <1>1, <1>2, <1>3 DEF At, TypeOK, TasksOK

\* The hooks, the fetches and the cache keep their types.
THEOREM TypeCorrect == Spec => []TypeOK
<1> USE BriefingAssumption
<1>1. Init => TypeOK
  <2>1. Init => CacheOK /\ FetchesOK /\ SessionsOK
    BY DEF Init, CacheOK, FetchesOK, SessionsOK, NoCalls
  <2>2. Init => TasksOK /\ hook \in [Sessions -> HookState]
    BY DEF Init, TasksOK, Idle, HookState, TaskState, Phases, Events
  <2>3. QED
    BY <2>1, <2>2 DEF TypeOK
<1>2. TypeOK /\ [Next]_vars => TypeOK'
  <2> SUFFICES ASSUME TypeOK, [Next]_vars PROVE TypeOK'
    OBVIOUS
  <2> USE DEF TypeOK
  <2>1. ASSUME NEW f \in Fetches, Ensure(f) PROVE TypeOK'
    <3>1. st' \in [Fetches -> Outcomes \cup {"unused", "ensure", "fetch"}]
      BY <2>1 DEF Ensure, FetchesOK, Outcomes
    <3>2. look' \in [Fetches -> [Lookups -> {"none", "run", "empty", "section", "failed", "raised"}]]
      <4>1. CASE UNCHANGED look
        BY <4>1 DEF FetchesOK
      <4>2. CASE look' = [look EXCEPT ![f] = [l \in Lookups |-> "run"]]
        BY <4>2 DEF FetchesOK
      <4>3. QED
        BY <2>1, <4>1, <4>2 DEF Ensure
    <3>3. QED
      BY <2>1, <3>1, <3>2 DEF Ensure, sessionVars, CacheOK, FetchesOK, SessionsOK, TasksOK
  <2>2. ASSUME NEW f \in Fetches, NEW l \in Lookups, LookupReturns(f, l) PROVE TypeOK'
    <3>1. FetchesOK'
      BY <2>2 DEF LookupReturns, Call, FetchesOK, Outcomes, NoCalls
    <3>2. QED
      BY <2>2, <3>1 DEF LookupReturns, fetchVars, sessionVars, CacheOK,
         SessionsOK, TasksOK
  <2>3. ASSUME NEW f \in Fetches, NEW l \in Lookups, LookupFails(f, l) PROVE TypeOK'
    <3>1. FetchesOK'
      BY <2>3 DEF LookupFails, Call, Counted, FetchesOK, Outcomes,
         NoCalls
    <3>2. QED
      BY <2>3, <3>1 DEF LookupFails, fetchVars, sessionVars, CacheOK,
         SessionsOK, TasksOK
  <2>4. ASSUME NEW f \in Fetches, NEW l \in Lookups, LookupRaises(f, l) PROVE TypeOK'
    <3>1. FetchesOK'
      BY <2>4 DEF LookupRaises, Call, FetchesOK, Outcomes, NoCalls
    <3>2. QED
      BY <2>4, <3>1 DEF LookupRaises, fetchVars, sessionVars, CacheOK,
         SessionsOK, TasksOK
  <2>5. ASSUME NEW f \in Fetches, FetchDone(f) PROVE TypeOK'
    <3>1. FetchesOK'
      BY <2>5 DEF FetchDone, FetchesOK, Outcomes, NoCalls
    <3>2. QED
      BY <2>5, <3>1 DEF FetchDone, fetchVars, sessionVars, CacheOK,
         SessionsOK, TasksOK
  <2>6. CASE Expire
    <3>1. CacheOK'
      BY <2>6 DEF Expire, CacheOK
    <3>2. QED
      BY <2>6, <3>1 DEF Expire, fetchVars, sessionVars, FetchesOK, SessionsOK, TasksOK
  <2>7. ASSUME NEW t \in Tasks, StartFetch(t) PROVE TypeOK'
    <3> DEFINE s == task[t].s
    <3>0. s \in Sessions /\ task[t] \in TaskState
      BY <2>7 DEF StartFetch, TasksOK, TaskState
    <3>1. \E at \in {"idle", "check"} : At(t, s, task[t].event, at)
      BY <2>7 DEF StartFetch
    <3>2. TasksOK'
      BY <3>0, <3>1, AtTypes DEF TaskState
    <3>3. PICK f \in Fetches : /\ st' = [st EXCEPT ![f] = "ensure"]
                               /\ cache' = Stored(f) /\ Hook(s, "future", f)
      BY <2>7 DEF StartFetch
    <3>4. hook' \in [Sessions -> HookState]
      BY <3>0, <3>3, HookTypes
    <3>5. CacheOK'
      BY <3>3 DEF CacheOK, Stored
    <3>6. FetchesOK'
      BY <2>7, <3>3 DEF StartFetch, FetchesOK
    <3>7. QED
      BY <2>7, <3>2, <3>4, <3>5, <3>6 DEF StartFetch, SessionsOK, sessionVars
  <2>8. ASSUME NEW t \in Tasks, Deliver(t) PROVE TypeOK'
    <3> DEFINE s == task[t].s
    <3>0. s \in Sessions /\ task[t] \in TaskState
      BY <2>8 DEF Deliver, TasksOK, TaskState
    <3>1. \E at \in {"idle", "interject"} : At(t, s, task[t].event, at)
      BY <2>8 DEF Deliver, Onward
    <3>2. TasksOK'
      BY <3>0, <3>1, AtTypes DEF TaskState
    <3>3. hook' \in [Sessions -> HookState]
      BY <2>8, <3>0, HookTypes DEF Deliver, Delivered, Done
    <3>4. hook[s].future \in Fetches
      BY <2>8, <3>0 DEF Deliver, HookState
    <3>5. SessionsOK'
      <4>1. injected' \in [Sessions -> Nat]
        BY <2>8, <3>0 DEF Deliver, SessionsOK
      <4>2. briefed' \in [Sessions -> SUBSET Memories]
        BY <2>8, <3>0, <3>4 DEF Deliver, SessionsOK, FetchesOK
      <4>3. QED
        BY <2>8, <4>1, <4>2 DEF Deliver, SessionsOK
    <3>6. QED
      BY <2>8, <3>2, <3>3, <3>5 DEF Deliver, CacheOK, FetchesOK, fetchVars
  <2>9. ASSUME NEW t \in Tasks, NoFuture(t) PROVE TypeOK'
    <3> DEFINE s == task[t].s
    <3>0. s \in Sessions /\ task[t] \in TaskState
      BY <2>9 DEF NoFuture, TasksOK, TaskState
    <3>1. \E at \in {"idle", "check", "wait", "interject"} : At(t, s, task[t].event, at)
      BY <2>9 DEF NoFuture, Onward
    <3>2. TasksOK'
      BY <3>0, <3>1, AtTypes DEF TaskState
    <3>3. hook' \in [Sessions -> HookState]
      BY <2>9, <3>0, HookTypes DEF NoFuture
    <3>4. QED
      BY <2>9, <3>2, <3>3 DEF NoFuture, CacheOK, FetchesOK, SessionsOK,
         fetchVars, sessionVars
  <2>10. ASSUME NEW t \in Tasks, StartWait(t) PROVE TypeOK'
    <3> DEFINE s == task[t].s
    <3>0. s \in Sessions /\ task[t] \in TaskState
      BY <2>10 DEF StartWait, TasksOK, TaskState
    <3>1. \E at \in {"idle", "check", "wait", "interject"} : At(t, s, task[t].event, at)
      BY <2>10 DEF StartWait
    <3>2. TasksOK'
      BY <3>0, <3>1, AtTypes DEF TaskState
    <3>3. hook' \in [Sessions -> HookState]
      BY <2>10 DEF StartWait
    <3>4. QED
      BY <2>10, <3>2, <3>3 DEF StartWait, CacheOK, FetchesOK, SessionsOK,
         fetchVars, sessionVars
  <2>11. ASSUME NEW t \in Tasks, Defer(t) PROVE TypeOK'
    <3> DEFINE s == task[t].s
    <3>0. s \in Sessions /\ task[t] \in TaskState
      BY <2>11 DEF Defer, TasksOK, TaskState
    <3>1. \E at \in {"idle", "check", "wait", "interject"} : At(t, s, task[t].event, at)
      BY <2>11 DEF Defer, Onward
    <3>2. TasksOK'
      BY <3>0, <3>1, AtTypes DEF TaskState
    <3>3. hook' \in [Sessions -> HookState]
      BY <2>11, <3>0, HookTypes DEF Defer
    <3>4. QED
      BY <2>11, <3>2, <3>3 DEF Defer, CacheOK, FetchesOK, SessionsOK,
         fetchVars, sessionVars
  <2>12. ASSUME NEW t \in Tasks, Interject(t) PROVE TypeOK'
    <3> DEFINE s == task[t].s
    <3>0. s \in Sessions
      BY <2>12 DEF Interject, TasksOK, TaskState
    <3>1. TasksOK'
      BY <2>12, <3>0, AtTypes DEF Interject, Events
    <3>2. SessionsOK'
      BY <2>12, <3>0 DEF Interject, Fresh, SessionsOK
    <3>3. QED
      BY <2>12, <3>1, <3>2 DEF Interject, CacheOK, FetchesOK, fetchVars
  <2>13. ASSUME NEW t \in Tasks, NEW s \in Sessions, Mount(t, s) PROVE TypeOK'
    <3> DEFINE h == [hook[s] EXCEPT !.phase = "mounted"]
    <3>1. h \in HookState
      BY DEF HookState, Phases
    <3> HIDE DEF h
    <3>2. CASE Prefetch(t, s, "mount", "idle", h)
      BY <2>13, <3>1, <3>2, PrefetchTypes DEF Mount, CacheOK, FetchesOK, SessionsOK, fetchVars, sessionVars, Events
    <3>3. CASE hook' = [hook EXCEPT ![s] = h] /\ UNCHANGED task
      BY <2>13, <3>1, <3>3 DEF Mount, CacheOK, FetchesOK, SessionsOK, fetchVars, sessionVars, TasksOK
    <3>4. QED
      BY <2>13, <3>2, <3>3 DEF Mount, h
  <2>14. ASSUME NEW t \in Tasks, NEW s \in Sessions, SessionStart(t, s) PROVE TypeOK'
    <3>1. /\ [hook[s] EXCEPT !.phase = "armed"] \in HookState
          /\ [hook[s] EXCEPT !.phase = "unarmed"] \in HookState
      BY DEF HookState, Phases
    <3>2. CASE Prefetch(t, s, "start", "idle", [hook[s] EXCEPT !.phase = "armed"])
      BY <2>14, <3>1, <3>2, PrefetchTypes DEF SessionStart, CacheOK, FetchesOK, SessionsOK, fetchVars, sessionVars, Events
    <3>3. CASE hook' = [hook EXCEPT ![s] = [hook[s] EXCEPT !.phase = "unarmed"]] /\ UNCHANGED task
      BY <2>14, <3>1, <3>3 DEF SessionStart, CacheOK, FetchesOK, SessionsOK, fetchVars, sessionVars, TasksOK
    <3>4. QED
      BY <2>14, <3>2, <3>3 DEF SessionStart
  <2>15. ASSUME NEW t \in Tasks, NEW s \in Sessions, NEW event \in {"prompt", "request", "side"}, OnDeliver(t, s, event) PROVE TypeOK'
    <3>1. overlapped' \subseteq Sessions /\ event \in Events
      BY <2>15 DEF OnDeliver, SessionsOK, Events
    <3>2. CASE Prefetch(t, s, event, "check", hook[s])
      BY <2>15, <3>1, <3>2, PrefetchTypes DEF OnDeliver, CacheOK, FetchesOK, SessionsOK, fetchVars, sessionVars
    <3>3. CASE At(t, s, event, "interject") /\ UNCHANGED hook
      BY <2>15, <3>1, <3>3, AtTypes DEF OnDeliver, CacheOK, FetchesOK, SessionsOK, fetchVars, sessionVars
    <3>4. QED
      BY <2>15, <3>2, <3>3 DEF OnDeliver
  <2>16. CASE UNCHANGED vars
    BY <2>16 DEF vars, CacheOK, FetchesOK, SessionsOK, TasksOK, fetchVars, sessionVars
  <2>17. QED
    BY <2>1, <2>2, <2>3, <2>4, <2>5, <2>6, <2>7, <2>8, <2>9, <2>10,
       <2>11, <2>12, <2>13, <2>14, <2>15, <2>16 DEF Next, Fetching,
       Handler
<1>3. QED
  BY <1>1, <1>2, PTL DEF Spec

\* A failed call is counted against its own fetch before that fetch can judge
\* itself complete.
LEMMA CompleteInductive == Spec => []CompleteInv
<1>1. Init => CompleteInv
  BY DEF Init, CompleteInv, NoCalls
<1>2. TypeOK /\ CompleteInv /\ [Next]_vars => CompleteInv'
  <2> SUFFICES ASSUME TypeOK, CompleteInv, [Next]_vars PROVE CompleteInv'
    OBVIOUS
  <2> USE DEF TypeOK, FetchesOK, CompleteInv, Outcomes, Done, NoCalls, fetchVars, sessionVars
  <2>1. ASSUME NEW f \in Fetches, Ensure(f) PROVE CompleteInv'
    BY <2>1 DEF Ensure
  <2>2. ASSUME NEW f \in Fetches, NEW l \in Lookups, LookupReturns(f, l) PROVE CompleteInv'
    BY <2>2 DEF LookupReturns, Call
  <2>3. ASSUME NEW f \in Fetches, NEW l \in Lookups, LookupFails(f, l) PROVE CompleteInv'
    BY <2>3 DEF LookupFails, Call, Counted
  <2>4. ASSUME NEW f \in Fetches, NEW l \in Lookups, LookupRaises(f, l) PROVE CompleteInv'
    BY <2>4 DEF LookupRaises, Call
  <2>5. ASSUME NEW f \in Fetches, FetchDone(f) PROVE CompleteInv'
    BY <2>5 DEF FetchDone
  <2>6. CASE Expire
    BY <2>6 DEF Expire
  <2>7. ASSUME NEW t \in Tasks, StartFetch(t) PROVE CompleteInv'
    BY <2>7 DEF StartFetch
  <2>8. ASSUME NEW t \in Tasks, Deliver(t) PROVE CompleteInv'
    BY <2>8 DEF Deliver
  <2>9. ASSUME NEW t \in Tasks, NoFuture(t) PROVE CompleteInv'
    BY <2>9 DEF NoFuture
  <2>10. ASSUME NEW t \in Tasks, StartWait(t) PROVE CompleteInv'
    BY <2>10 DEF StartWait
  <2>11. ASSUME NEW t \in Tasks, Defer(t) PROVE CompleteInv'
    BY <2>11 DEF Defer
  <2>12. ASSUME NEW t \in Tasks, Interject(t) PROVE CompleteInv'
    BY <2>12 DEF Interject
  <2>13. ASSUME NEW t \in Tasks, NEW s \in Sessions, Mount(t, s) PROVE CompleteInv'
    BY <2>13 DEF Mount
  <2>14. ASSUME NEW t \in Tasks, NEW s \in Sessions, SessionStart(t, s) PROVE CompleteInv'
    BY <2>14 DEF SessionStart
  <2>15. ASSUME NEW t \in Tasks, NEW s \in Sessions, NEW event \in {"prompt", "request", "side"}, OnDeliver(t, s, event) PROVE CompleteInv'
    BY <2>15 DEF OnDeliver
  <2>16. CASE UNCHANGED vars
    BY <2>16 DEF vars
  <2>17. QED
    BY <2>1, <2>2, <2>3, <2>4, <2>5, <2>6, <2>7, <2>8, <2>9, <2>10,
       <2>11, <2>12, <2>13, <2>14, <2>15, <2>16 DEF Next, Fetching,
       Handler
<1>3. QED
  BY <1>1, <1>2, TypeCorrect, PTL DEF Spec

\* A fetch that counts as complete has lost none of its calls.
THEOREM CompleteMeansComplete == Spec => []CompleteIsTrue
<1>1. CompleteInv => CompleteIsTrue
  BY DEF CompleteInv, CompleteIsTrue
<1>2. QED
  BY <1>1, CompleteInductive, PTL

\* A step of a session that has not opted out, and a change of phase.
LEMMA OptOutPrefetch ==
  ASSUME TypeOK, OptOutInv, NEW t \in Tasks, NEW s \in Sessions, role[s] # "optout",
         UNCHANGED <<role, injected>>,
         \A r \in Sessions \ {s} : hook'[r] = hook[r],
         \A u \in Tasks \ {t} : task'[u] = task[u],
         task'[t].at = "idle" \/ task'[t].s = s
  PROVE  OptOutInv'
BY DEF OptOutInv

LEMMA OptOutPhase ==
  ASSUME TypeOK, OptOutInv, NEW s \in Sessions, UNCHANGED <<role, injected, task>>,
         \E to \in {"mounted", "unarmed"} :
           hook' = [hook EXCEPT ![s] = [hook[s] EXCEPT !.phase = to]]
  PROVE  OptOutInv'
<1>1. \A r \in Sessions : /\ hook'[r].future = hook[r].future
                          /\ hook'[r].phase # "armed" \/ hook'[r].phase = hook[r].phase
  BY DEF TypeOK, HookState
<1>2. QED
  BY <1>1 DEF OptOutInv

\* An opted-out session has no prefetch and no briefing.
THEOREM OptOutStaysSilent == Spec => []OptOutIsSilent
<1> USE BriefingAssumption
<1>1. Init => OptOutInv
  BY DEF Init, OptOutInv, Idle
<1>2. TypeOK /\ OptOutInv /\ [Next]_vars => OptOutInv'
  <2> SUFFICES ASSUME TypeOK, OptOutInv, [Next]_vars PROVE OptOutInv'
    OBVIOUS
  <2>1. ASSUME NEW f \in Fetches, Ensure(f) PROVE OptOutInv'
    BY <2>1 DEF Ensure, TypeOK, TasksOK, SessionsOK, OptOutInv,
       HookState, TaskState, Idle, fetchVars, sessionVars
  <2>2. ASSUME NEW f \in Fetches, NEW l \in Lookups, LookupReturns(f, l) PROVE OptOutInv'
    BY <2>2 DEF LookupReturns, Call, TypeOK, TasksOK, SessionsOK,
       OptOutInv, HookState, TaskState, Idle, fetchVars, sessionVars
  <2>3. ASSUME NEW f \in Fetches, NEW l \in Lookups, LookupFails(f, l) PROVE OptOutInv'
    BY <2>3 DEF LookupFails, Call, Counted, TypeOK, TasksOK, SessionsOK,
       OptOutInv, HookState, TaskState, Idle, fetchVars, sessionVars
  <2>4. ASSUME NEW f \in Fetches, NEW l \in Lookups, LookupRaises(f, l) PROVE OptOutInv'
    BY <2>4 DEF LookupRaises, Call, TypeOK, TasksOK, SessionsOK,
       OptOutInv, HookState, TaskState, Idle, fetchVars, sessionVars
  <2>5. ASSUME NEW f \in Fetches, FetchDone(f) PROVE OptOutInv'
    BY <2>5 DEF FetchDone, TypeOK, TasksOK, SessionsOK, OptOutInv,
       HookState, TaskState, Idle, fetchVars, sessionVars
  <2>6. CASE Expire
    BY <2>6 DEF Expire, TypeOK, TasksOK, SessionsOK, OptOutInv,
       HookState, TaskState, Idle, fetchVars, sessionVars
  <2>7. ASSUME NEW t \in Tasks, StartFetch(t) PROVE OptOutInv'
    BY <2>7 DEF StartFetch, Stored, At, Hook, TypeOK, TasksOK,
       SessionsOK, OptOutInv, HookState, TaskState, Idle, fetchVars,
       sessionVars
  <2>8. ASSUME NEW t \in Tasks, Deliver(t) PROVE OptOutInv'
    BY <2>8 DEF Deliver, Hook, At, Onward, Delivered, TypeOK, TasksOK,
       SessionsOK, OptOutInv, HookState, TaskState, Idle, fetchVars,
       sessionVars
  <2>9. ASSUME NEW t \in Tasks, NoFuture(t) PROVE OptOutInv'
    BY <2>9 DEF NoFuture, Hook, At, Onward, TypeOK, TasksOK, SessionsOK,
       OptOutInv, HookState, TaskState, Idle, fetchVars, sessionVars
  <2>10. ASSUME NEW t \in Tasks, StartWait(t) PROVE OptOutInv'
    BY <2>10 DEF StartWait, At, Waits, TypeOK, TasksOK, SessionsOK,
       OptOutInv, HookState, TaskState, Idle, fetchVars, sessionVars
  <2>11. ASSUME NEW t \in Tasks, Defer(t) PROVE OptOutInv'
    BY <2>11 DEF Defer, Hook, At, Onward, TypeOK, TasksOK, SessionsOK,
       OptOutInv, HookState, TaskState, Idle, fetchVars, sessionVars
  <2>12. ASSUME NEW t \in Tasks, Interject(t) PROVE OptOutInv'
    BY <2>12 DEF Interject, At, TypeOK, TasksOK, SessionsOK, OptOutInv,
       HookState, TaskState, Idle, fetchVars, sessionVars
  <2>13. ASSUME NEW t \in Tasks, NEW s \in Sessions, Mount(t, s) PROVE OptOutInv'
    <3> DEFINE h(to) == [hook[s] EXCEPT !.phase = to]
    <3>1. h("mounted") \in HookState /\ h("mounted").delivered = hook[s].delivered
      BY DEF TypeOK, HookState, Phases
    <3>2. UNCHANGED <<role, injected, overlapped>>
      BY <2>13 DEF Mount, sessionVars
    <3>3. CASE role[s] # "optout" /\ Prefetch(t, s, "mount", "idle", h("mounted"))
      <4>0. PICK g \in HookState : g = h("mounted")
        BY <3>1
      <4> HIDE DEF h
      <4>1. Prefetch(t, s, "mount", "idle", g)
        BY <3>3, <4>0
      <4>2. /\ \E f \in Fetches \cup {None} : hook'[s] = [g EXCEPT !.future = f]
            /\ \A r \in Sessions \ {s} : hook'[r] = hook[r]
            /\ \A u \in Tasks \ {t} : task'[u] = task[u]
            /\ \/ task'[t] = Idle
               \/ \E at \in {"idle", "miss"} : task'[t] = [s |-> s, event |-> "mount", at |-> at]
        BY <4>1, PrefetchMoves
      <4>3. \/ task'[t].at = "idle"
            \/ task'[t].at = "miss" /\ task'[t].s = s /\ task'[t].event = "mount"
        BY <4>2 DEF Idle
      <4>4. g.delivered = hook[s].delivered
        BY <3>1, <4>0
      <4>5. QED
        BY <3>2, <3>3, <4>2, <4>3, <4>4, OptOutPrefetch
    <3>4. CASE hook' = [hook EXCEPT ![s] = h("mounted")] /\ UNCHANGED task
      BY <3>2, <3>4, OptOutPhase
    <3>5. QED
      BY <2>13, <3>3, <3>4 DEF Mount, SkipsAtMount, OptsOut
  <2>14. ASSUME NEW t \in Tasks, NEW s \in Sessions, SessionStart(t, s) PROVE OptOutInv'
    <3> DEFINE h(to) == [hook[s] EXCEPT !.phase = to]
    <3>1. h("armed") \in HookState /\ h("armed").delivered = hook[s].delivered
      BY DEF TypeOK, HookState, Phases
    <3>2. UNCHANGED <<role, injected, overlapped>>
      BY <2>14 DEF SessionStart, sessionVars
    <3>3. CASE role[s] # "optout" /\ Prefetch(t, s, "start", "idle", h("armed"))
      <4>0. PICK g \in HookState : g = h("armed")
        BY <3>1
      <4> HIDE DEF h
      <4>1. Prefetch(t, s, "start", "idle", g)
        BY <3>3, <4>0
      <4>2. /\ \E f \in Fetches \cup {None} : hook'[s] = [g EXCEPT !.future = f]
            /\ \A r \in Sessions \ {s} : hook'[r] = hook[r]
            /\ \A u \in Tasks \ {t} : task'[u] = task[u]
            /\ \/ task'[t] = Idle
               \/ \E at \in {"idle", "miss"} : task'[t] = [s |-> s, event |-> "start", at |-> at]
        BY <4>1, PrefetchMoves
      <4>3. \/ task'[t].at = "idle"
            \/ task'[t].at = "miss" /\ task'[t].s = s /\ task'[t].event = "start"
        BY <4>2 DEF Idle
      <4>4. g.delivered = hook[s].delivered
        BY <3>1, <4>0
      <4>5. QED
        BY <3>2, <3>3, <4>2, <4>3, <4>4, OptOutPrefetch
    <3>4. CASE hook' = [hook EXCEPT ![s] = h("unarmed")] /\ UNCHANGED task
      BY <3>2, <3>4, OptOutPhase
    <3>5. QED
      BY <2>14, <3>3, <3>4 DEF SessionStart, SkipsAtMount, OptsOut
  <2>15. ASSUME NEW t \in Tasks, NEW s \in Sessions, NEW event \in {"prompt", "request", "side"}, OnDeliver(t, s, event) PROVE OptOutInv'
    <3>1. role[s] # "optout" /\ UNCHANGED <<role, injected>>
      BY <2>15 DEF OnDeliver, OptOutInv
    <3>2. CASE Prefetch(t, s, event, "check", hook[s])
      <4>1. hook[s] \in HookState
        BY DEF TypeOK
      <4>2. QED
        <5>1. /\ \A r \in Sessions \ {s} : hook'[r] = hook[r]
              /\ \A u \in Tasks \ {t} : task'[u] = task[u]
              /\ \E at \in {"check", "miss"} : task'[t] = [s |-> s, event |-> event, at |-> at]
          BY <3>2, <4>1, PrefetchMoves
        <5>2. task'[t].s = s
          BY <5>1
        <5>3. QED
          BY <3>1, <5>1, <5>2, OptOutPrefetch
    <3>3. CASE At(t, s, event, "interject") /\ UNCHANGED hook
      <4>1. task' = [task EXCEPT ![t] = [s |-> s, event |-> event, at |-> "interject"]]
        BY <3>3 DEF At
      <4>2. /\ task'[t].s = s
            /\ \A u \in Tasks \ {t} : task'[u] = task[u]
        BY <4>1 DEF TypeOK, TasksOK
      <4>3. QED
        BY <3>1, <3>3, <4>2, OptOutPrefetch
    <3>4. QED
      BY <2>15, <3>2, <3>3 DEF OnDeliver
  <2>16. CASE UNCHANGED vars
    BY <2>16 DEF vars, OptOutInv, fetchVars, sessionVars
  <2>17. QED
    BY <2>1, <2>2, <2>3, <2>4, <2>5, <2>6, <2>7, <2>8, <2>9, <2>10,
       <2>11, <2>12, <2>13, <2>14, <2>15, <2>16 DEF Next, Fetching,
       Handler
<1>3. OptOutInv => OptOutIsSilent
  BY DEF OptOutInv, OptOutIsSilent
<1>4. QED
  BY <1>1, <1>2, <1>3, TypeCorrect, PTL DEF Spec

\* A mounted or starting session has nothing to deliver yet.
LEMMA OncePrefetch ==
  ASSUME TypeOK, OnceInv, NEW t \in Tasks, NEW s \in Sessions, NEW h,
         h \in HookState, h.delivered = hook[s].delivered,
         UNCHANGED <<injected, overlapped>>,
         \E f \in Fetches \cup {None} : hook'[s] = [h EXCEPT !.future = f],
         \A r \in Sessions \ {s} : hook'[r] = hook[r],
         \A u \in Tasks \ {t} : task'[u] = task[u],
         \/ task'[t].at = "idle"
         \/ task'[t].at = "miss" /\ task'[t].event \in {"mount", "start"}
  PROVE  OnceInv'
<1>1. \A u \in Tasks, r \in Sessions : Pending(u, r)' => Pending(u, r)
  BY DEF Pending
<1>2. hook'[s].delivered = hook[s].delivered
  BY DEF HookState
<1>3. QED
  BY <1>1, <1>2 DEF OnceInv

LEMMA OncePhase ==
  ASSUME TypeOK, OnceInv, NEW s \in Sessions, UNCHANGED <<injected, overlapped, task>>,
         \E to \in {"mounted", "unarmed"} :
           hook' = [hook EXCEPT ![s] = [hook[s] EXCEPT !.phase = to]]
  PROVE  OnceInv'
<1>1. \A r \in Sessions : hook'[r].delivered = hook[r].delivered
  BY DEF TypeOK, HookState
<1>2. QED
  BY <1>1 DEF OnceInv, Pending

\* Without an overlap one task at most is on its way to deliver.
LEMMA OnceInductive == Spec => []OnceInv
<1> USE BriefingAssumption
<1>1. Init => OnceInv
  BY DEF Init, OnceInv, Pending, Idle
<1>2. TypeOK /\ OnceInv /\ [Next]_vars => OnceInv'
  <2> SUFFICES ASSUME TypeOK, OnceInv, [Next]_vars PROVE OnceInv'
    OBVIOUS
  <2>1. ASSUME NEW f \in Fetches, Ensure(f) PROVE OnceInv'
    BY <2>1 DEF Ensure, TypeOK, TasksOK, SessionsOK, OnceInv, Pending,
       HookState, TaskState, Idle, fetchVars, sessionVars
  <2>2. ASSUME NEW f \in Fetches, NEW l \in Lookups, LookupReturns(f, l) PROVE OnceInv'
    BY <2>2 DEF LookupReturns, Call, TypeOK, TasksOK, SessionsOK,
       OnceInv, Pending, HookState, TaskState, Idle, fetchVars,
       sessionVars
  <2>3. ASSUME NEW f \in Fetches, NEW l \in Lookups, LookupFails(f, l) PROVE OnceInv'
    BY <2>3 DEF LookupFails, Call, Counted, TypeOK, TasksOK, SessionsOK,
       OnceInv, Pending, HookState, TaskState, Idle, fetchVars,
       sessionVars
  <2>4. ASSUME NEW f \in Fetches, NEW l \in Lookups, LookupRaises(f, l) PROVE OnceInv'
    BY <2>4 DEF LookupRaises, Call, TypeOK, TasksOK, SessionsOK,
       OnceInv, Pending, HookState, TaskState, Idle, fetchVars,
       sessionVars
  <2>5. ASSUME NEW f \in Fetches, FetchDone(f) PROVE OnceInv'
    BY <2>5 DEF FetchDone, TypeOK, TasksOK, SessionsOK, OnceInv,
       Pending, HookState, TaskState, Idle, fetchVars, sessionVars
  <2>6. CASE Expire
    BY <2>6 DEF Expire, TypeOK, TasksOK, SessionsOK, OnceInv, Pending,
       HookState, TaskState, Idle, fetchVars, sessionVars
  <2>7. ASSUME NEW t \in Tasks, StartFetch(t) PROVE OnceInv'
    BY <2>7 DEF StartFetch, Stored, At, Hook, TypeOK, TasksOK,
       SessionsOK, OnceInv, Pending, HookState, TaskState, Idle,
       fetchVars, sessionVars
  <2>8. ASSUME NEW t \in Tasks, Deliver(t) PROVE OnceInv'
    <3>0. PICK s \in Sessions : s = task[t].s
      BY <2>8 DEF Deliver, TypeOK, TasksOK
    <3>1. /\ task[t].at \in {"check", "wait"}
          /\ \A r \in Sessions \ {s} : hook'[r] = hook[r] /\ injected'[r] = injected[r]
          /\ hook'[s].delivered
          /\ injected'[s] \in {injected[s], injected[s] + 1}
          /\ \A u \in Tasks \ {t} : task'[u] = task[u]
          /\ task'[t].at \in {"idle", "interject"}
          /\ overlapped' = overlapped
      BY <2>8, <3>0 DEF Deliver, Hook, At, Onward, Delivered, Idle, TypeOK, TasksOK, SessionsOK,
               HookState, sessionVars
    <3>2. Pending(t, s)
      BY <3>0, <3>1 DEF OnceInv, Pending
    <3>3. s \notin overlapped => injected[s] = 0
      BY <3>1, <3>2 DEF OnceInv, TypeOK, SessionsOK
    <3>4. s \notin overlapped => \A u \in Tasks : ~Pending(u, s)'
      BY <3>1, <3>2 DEF OnceInv, Pending
    <3>5. \A r \in Sessions, u \in Tasks : Pending(u, r)' => Pending(u, r)
      BY <3>1 DEF Pending
    <3>6. \A u \in Tasks : task'[u].at \in {"check", "wait"} => task[u].at = task'[u].at /\ task'[u].event = task[u].event
      BY <3>1
    <3>7. QED
      BY <3>1, <3>3, <3>4, <3>5, <3>6 DEF OnceInv
  <2>9. ASSUME NEW t \in Tasks, NoFuture(t) PROVE OnceInv'
    BY <2>9 DEF NoFuture, Hook, At, Onward, TypeOK, TasksOK, SessionsOK,
       OnceInv, Pending, HookState, TaskState, Idle, fetchVars,
       sessionVars
  <2>10. ASSUME NEW t \in Tasks, StartWait(t) PROVE OnceInv'
    BY <2>10 DEF StartWait, At, Waits, TypeOK, TasksOK, SessionsOK,
       OnceInv, Pending, HookState, TaskState, Idle, fetchVars,
       sessionVars
  <2>11. ASSUME NEW t \in Tasks, Defer(t) PROVE OnceInv'
    BY <2>11 DEF Defer, Hook, At, Onward, TypeOK, TasksOK, SessionsOK,
       OnceInv, Pending, HookState, TaskState, Idle, fetchVars,
       sessionVars
  <2>12. ASSUME NEW t \in Tasks, Interject(t) PROVE OnceInv'
    BY <2>12 DEF Interject, At, TypeOK, TasksOK, SessionsOK, OnceInv,
       Pending, HookState, TaskState, Idle, fetchVars, sessionVars
  <2>13. ASSUME NEW t \in Tasks, NEW s \in Sessions, Mount(t, s) PROVE OnceInv'
    <3> DEFINE h(to) == [hook[s] EXCEPT !.phase = to]
    <3>1. h("mounted") \in HookState /\ h("mounted").delivered = hook[s].delivered
      BY DEF TypeOK, HookState, Phases
    <3>2. UNCHANGED <<role, injected, overlapped>>
      BY <2>13 DEF Mount, sessionVars
    <3>3. CASE Prefetch(t, s, "mount", "idle", h("mounted"))
      <4>0. PICK g \in HookState : g = h("mounted")
        BY <3>1
      <4> HIDE DEF h
      <4>1. Prefetch(t, s, "mount", "idle", g)
        BY <3>3, <4>0
      <4>2. /\ \E f \in Fetches \cup {None} : hook'[s] = [g EXCEPT !.future = f]
            /\ \A r \in Sessions \ {s} : hook'[r] = hook[r]
            /\ \A u \in Tasks \ {t} : task'[u] = task[u]
            /\ \/ task'[t] = Idle
               \/ \E at \in {"idle", "miss"} : task'[t] = [s |-> s, event |-> "mount", at |-> at]
        BY <4>1, PrefetchMoves
      <4>3. \/ task'[t].at = "idle"
            \/ task'[t].at = "miss" /\ task'[t].s = s /\ task'[t].event = "mount"
        BY <4>2 DEF Idle
      <4>4. g.delivered = hook[s].delivered
        BY <3>1, <4>0
      <4>5. QED
        BY <3>2, <3>3, <4>2, <4>3, <4>4, OncePrefetch
    <3>4. CASE hook' = [hook EXCEPT ![s] = h("mounted")] /\ UNCHANGED task
      BY <3>2, <3>4, OncePhase
    <3>5. QED
      BY <2>13, <3>3, <3>4 DEF Mount, SkipsAtMount, OptsOut
  <2>14. ASSUME NEW t \in Tasks, NEW s \in Sessions, SessionStart(t, s) PROVE OnceInv'
    <3> DEFINE h(to) == [hook[s] EXCEPT !.phase = to]
    <3>1. h("armed") \in HookState /\ h("armed").delivered = hook[s].delivered
      BY DEF TypeOK, HookState, Phases
    <3>2. UNCHANGED <<role, injected, overlapped>>
      BY <2>14 DEF SessionStart, sessionVars
    <3>3. CASE Prefetch(t, s, "start", "idle", h("armed"))
      <4>0. PICK g \in HookState : g = h("armed")
        BY <3>1
      <4> HIDE DEF h
      <4>1. Prefetch(t, s, "start", "idle", g)
        BY <3>3, <4>0
      <4>2. /\ \E f \in Fetches \cup {None} : hook'[s] = [g EXCEPT !.future = f]
            /\ \A r \in Sessions \ {s} : hook'[r] = hook[r]
            /\ \A u \in Tasks \ {t} : task'[u] = task[u]
            /\ \/ task'[t] = Idle
               \/ \E at \in {"idle", "miss"} : task'[t] = [s |-> s, event |-> "start", at |-> at]
        BY <4>1, PrefetchMoves
      <4>3. \/ task'[t].at = "idle"
            \/ task'[t].at = "miss" /\ task'[t].s = s /\ task'[t].event = "start"
        BY <4>2 DEF Idle
      <4>4. g.delivered = hook[s].delivered
        BY <3>1, <4>0
      <4>5. QED
        BY <3>2, <3>3, <4>2, <4>3, <4>4, OncePrefetch
    <3>4. CASE hook' = [hook EXCEPT ![s] = h("unarmed")] /\ UNCHANGED task
      BY <3>2, <3>4, OncePhase
    <3>5. QED
      BY <2>14, <3>3, <3>4 DEF SessionStart, SkipsAtMount, OptsOut
  <2>15. ASSUME NEW t \in Tasks, NEW s \in Sessions, NEW event \in {"prompt", "request", "side"}, OnDeliver(t, s, event) PROVE OnceInv'
    <3>0. hook[s] \in HookState /\ injected' = injected
      BY <2>15 DEF OnDeliver, TypeOK
    <3>1. CASE /\ ~hook[s].delivered /\ Prefetch(t, s, event, "check", hook[s])
               /\ overlapped' = IF Working(s) THEN overlapped \cup {s} ELSE overlapped
      <4>1. /\ \A r \in Sessions \ {s} : hook'[r] = hook[r]
            /\ \A u \in Tasks \ {t} : task'[u] = task[u]
            /\ \E at \in {"check", "miss"} : task'[t] = [s |-> s, event |-> event, at |-> at]
        BY <3>0, <3>1, PrefetchMoves
      <4>2. overlapped \subseteq overlapped' /\ overlapped' \subseteq overlapped \cup {s}
        BY <3>1
      <4>3. s \notin overlapped' => /\ \A u \in Tasks : task[u].s # s
                                    /\ injected[s] = 0
        BY <3>1 DEF Working, OnceInv, TypeOK, SessionsOK
      <4>4. QED
        BY <3>0, <4>1, <4>2, <4>3 DEF OnceInv, Pending
    <3>2. CASE At(t, s, event, "interject") /\ UNCHANGED <<hook, overlapped>>
      <4>1. task' = [task EXCEPT ![t] = [s |-> s, event |-> event, at |-> "interject"]]
        BY <3>2 DEF At
      <4>2. task'[t].at = "interject" /\ \A u \in Tasks \ {t} : task'[u] = task[u]
        BY <4>1 DEF TypeOK, TasksOK
      <4>3. QED
        BY <3>0, <3>2, <4>2 DEF OnceInv, Pending
    <3>3. QED
      BY <2>15, <3>1, <3>2 DEF OnDeliver
  <2>16. CASE UNCHANGED vars
    BY <2>16 DEF vars, OnceInv, Pending, fetchVars, sessionVars
  <2>17. QED
    BY <2>1, <2>2, <2>3, <2>4, <2>5, <2>6, <2>7, <2>8, <2>9, <2>10,
       <2>11, <2>12, <2>13, <2>14, <2>15, <2>16 DEF Next, Fetching,
       Handler
<1>3. QED
  BY <1>1, <1>2, TypeCorrect, PTL DEF Spec

\* A session is briefed once, unless two of its deliveries overlap.
THEOREM OneBriefing == Spec => []BriefedOnce
<1>1. TypeOK /\ OnceInv => BriefedOnce
  BY DEF TypeOK, SessionsOK, OnceInv, BriefedOnce
<1>2. QED
  BY <1>1, TypeCorrect, OnceInductive, PTL

-----------------------------------------------------------------------------
(* What each action does, pointwise.  Else is what it leaves alone.        *)

Else(t, s) ==
  /\ \A r \in Sessions \ {s} :
       /\ hook'[r] = hook[r] /\ injected'[r] = injected[r]
       /\ briefed'[r] = briefed[r] /\ interjected'[r] = interjected[r]
  /\ \A u \in Tasks \ {t} : task'[u] = task[u]

\* What a fetch that is over has found is settled.
Settled ==
  \A f \in Fetches : Done(f) =>
    st'[f] = st[f] /\ hits'[f] = hits[f] /\ (f \in found' <=> f \in found)

LEMMA FetchingSettles ==
  ASSUME TypeOK, CompleteInv, Fetching \/ Expire
  PROVE  Settled /\ UNCHANGED <<hook, task, sessionVars>>
<1> USE DEF TypeOK, FetchesOK, Settled, Done, Outcomes, fetchVars, sessionVars
<1>1. ASSUME NEW f \in Fetches, Ensure(f)
      PROVE  Settled /\ UNCHANGED <<hook, task, sessionVars>>
  BY <1>1 DEF Ensure
<1>2. ASSUME NEW f \in Fetches, NEW l \in Lookups, LookupReturns(f, l)
      PROVE  Settled /\ UNCHANGED <<hook, task, sessionVars>>
  <2>1. ~Done(f)
    BY <1>2 DEF LookupReturns, Call, CompleteInv
  <2>2. \A g \in Fetches \ {f} : hits'[g] = hits[g]
    BY <1>2 DEF LookupReturns
  <2>3. QED
    BY <1>2, <2>1, <2>2 DEF LookupReturns
<1>3. ASSUME NEW f \in Fetches, NEW l \in Lookups, LookupFails(f, l)
      PROVE  Settled /\ UNCHANGED <<hook, task, sessionVars>>
  BY <1>3 DEF LookupFails
<1>4. ASSUME NEW f \in Fetches, NEW l \in Lookups, LookupRaises(f, l)
      PROVE  Settled /\ UNCHANGED <<hook, task, sessionVars>>
  BY <1>4 DEF LookupRaises
<1>5. ASSUME NEW f \in Fetches, FetchDone(f)
      PROVE  Settled /\ UNCHANGED <<hook, task, sessionVars>>
  BY <1>5 DEF FetchDone
<1>6. ASSUME Expire
      PROVE  Settled /\ UNCHANGED <<hook, task, sessionVars>>
  BY <1>6 DEF Expire
<1>7. QED
  BY <1>1, <1>2, <1>3, <1>4, <1>5, <1>6 DEF Fetching

\* What each action does, one hook and one task at a time.
StartedFetch(t) ==
  LET s == task[t].s IN
  /\ s \in Sessions /\ task[t].at = "miss"
  /\ Settled /\ Else(t, s) /\ UNCHANGED sessionVars
  /\ SameBut("future", hook'[s], hook[s])
  /\ \/ Setup(t) /\ task'[t] = Idle
     \/ ~Setup(t) /\ task'[t] = [task[t] EXCEPT !.at = "check"]

HasDelivered(t) ==
  LET s == task[t].s
        f == hook[s].future IN
  /\ s \in Sessions /\ task[t].at \in {"check", "wait"}
  /\ f \in Fetches /\ Done(f)
  /\ Else(t, s) /\ UNCHANGED <<fetchVars, interjected, overlapped>>
  /\ SameBut("delivered", hook'[s], hook[s]) /\ hook'[s].delivered
  /\ \/ task'[t] = Idle
     \/ task[t].event = "prompt" /\ task'[t] = [task[t] EXCEPT !.at = "interject"]
  /\ st[f] = "ok" /\ f \in found /\ task[t].event # "side" => injected'[s] > 0
  /\ \/ injected'[s] = injected[s]
     \/ EmitEvents /\ st[f] = "ok" => hits[f] \subseteq briefed'[s]
  /\ briefed[s] \subseteq briefed'[s]

HadNoFuture(t) ==
  LET s == task[t].s IN
  /\ s \in Sessions /\ task[t].at = "check" /\ hook[s].future = None
  /\ Else(t, s) /\ UNCHANGED <<fetchVars, sessionVars>>
  /\ SameBut("delivered", hook'[s], hook[s]) /\ hook'[s].delivered
  /\ \/ task'[t] = Idle
     \/ task[t].event = "prompt" /\ task'[t] = [task[t] EXCEPT !.at = "interject"]

Waited(t) ==
  LET s == task[t].s IN
  /\ s \in Sessions /\ task[t].at = "check"
  /\ Else(t, s) /\ UNCHANGED <<fetchVars, sessionVars, hook>>
  /\ task'[t] = [task[t] EXCEPT !.at = "wait"]

HasDeferred(t) ==
  LET s == task[t].s IN
  /\ s \in Sessions /\ task[t].at \in {"check", "wait"}
  /\ Else(t, s) /\ UNCHANGED <<fetchVars, sessionVars>>
  /\ SameBut("deferred", hook'[s], hook[s]) /\ hook'[s].deferred
  /\ \/ task'[t] = Idle
     \/ task[t].event = "prompt" /\ task'[t] = [task[t] EXCEPT !.at = "interject"]

HasInterjected(t) ==
  LET s == task[t].s IN
  /\ s \in Sessions /\ task[t].at = "interject"
  /\ Else(t, s) /\ UNCHANGED <<fetchVars, hook, briefed, injected, overlapped>>
  /\ task'[t] = Idle
  /\ \A m \in interjected'[s] : m \in interjected[s] \/ m \notin briefed[s]

HasMounted(t, s) ==
  /\ task[t].at = "idle" /\ hook[s].phase = "none" /\ hook'[s].phase = "mounted"
  /\ hook'[s].delivered = hook[s].delivered /\ hook'[s].deferred = hook[s].deferred
  /\ Else(t, s) /\ UNCHANGED <<fetchVars, sessionVars>>
  /\ \/ task'[t] = task[t] \/ task'[t] = Idle
     \/ task'[t] = [s |-> s, event |-> "mount", at |-> "miss"]

HasStarted(t, s) ==
  /\ task[t].at = "idle" /\ hook[s].phase = "mounted" /\ ~Working(s)
  /\ hook'[s].phase \in {"armed", "unarmed"}
  /\ hook'[s].delivered = hook[s].delivered /\ hook'[s].deferred = hook[s].deferred
  /\ Else(t, s) /\ UNCHANGED <<fetchVars, sessionVars>>
  /\ \/ task'[t] = task[t] \/ task'[t] = Idle
     \/ /\ task'[t] = [s |-> s, event |-> "start", at |-> "miss"]
        /\ hook'[s].phase = "armed"

IsOnItsWay(t, s, event) ==
  /\ task[t].at = "idle" /\ hook[s].phase = "armed"
  /\ \A u \in Tasks : task[u].s = s => task[u].event # "start"
  /\ Else(t, s) /\ UNCHANGED <<fetchVars, briefed, interjected, injected>>
  /\ \/ /\ hook[s].delivered /\ UNCHANGED <<hook, overlapped>>
        /\ task'[t] = [s |-> s, event |-> "prompt", at |-> "interject"]
     \/ /\ ~hook[s].delivered /\ event # "side"
        /\ SameBut("future", hook'[s], hook[s])
        /\ \E at \in {"check", "miss"} : task'[t] = [s |-> s, event |-> event, at |-> at]
        /\ overlapped' = IF Working(s) THEN overlapped \cup {s} ELSE overlapped

LEMMA StartFetchDoes ==
  ASSUME TypeOK, NEW t \in Tasks, StartFetch(t)
  PROVE  StartedFetch(t)
<1> DEFINE s == task[t].s
<1>1. s \in Sessions /\ task[t] \in TaskState /\ task[t].at = "miss"
  BY DEF StartFetch, TypeOK, TasksOK
<1>2. PICK f \in Fetches : st[f] = "unused" /\ st' = [st EXCEPT ![f] = "ensure"]
                           /\ Hook(s, "future", f)
  BY DEF StartFetch
<1>3. Settled
  BY <1>2 DEF StartFetch, Settled, Done, Outcomes, TypeOK, FetchesOK
<1>4. /\ SameBut("future", hook'[s], hook[s])
      /\ \A r \in Sessions \ {s} : hook'[r] = hook[r]
  BY <1>1, <1>2 DEF Hook, SameBut, TypeOK, HookState
<1>5. /\ \A u \in Tasks \ {t} : task'[u] = task[u]
      /\ \/ Setup(t) /\ task'[t] = Idle
         \/ ~Setup(t) /\ task'[t] = [s |-> s, event |-> task[t].event, at |-> "check"]
  BY <1>1 DEF StartFetch, At, Setup, TypeOK, TasksOK
<1>6. [s |-> s, event |-> task[t].event, at |-> "check"] = [task[t] EXCEPT !.at = "check"]
  BY <1>1 DEF TaskState
<1>7. UNCHANGED sessionVars
  BY DEF StartFetch
<1>8. QED
  BY <1>1, <1>2, <1>3, <1>4, <1>5, <1>6, <1>7 DEF Else, sessionVars, StartedFetch

\* A handler moves on: to the wait, to the interject hook, or to its end.
LEMMA MovesOn ==
  ASSUME TypeOK, NEW t \in Tasks, NEW at \in {"wait", "interject", "idle"},
         task[t].at # "idle", At(t, task[t].s, task[t].event, at)
  PROVE  /\ task[t].s \in Sessions
         /\ \A u \in Tasks \ {t} : task'[u] = task[u]
         /\ \/ at = "idle" /\ task'[t] = Idle
            \/ at # "idle" /\ task'[t] = [task[t] EXCEPT !.at = at]
<1>1. task[t] \in TaskState /\ task[t].s \in Sessions
  BY DEF TypeOK, TasksOK
<1>2. [s |-> task[t].s, event |-> task[t].event, at |-> at] = [task[t] EXCEPT !.at = at]
  BY <1>1 DEF TaskState
<1>3. QED
  BY <1>1, <1>2 DEF At, TypeOK, TasksOK

LEMMA DeliverDoes ==
  ASSUME TypeOK, NEW t \in Tasks, Deliver(t)
  PROVE  HasDelivered(t)
<1> DEFINE s == task[t].s
           f == hook[s].future
<1>1. /\ s \in Sessions /\ task[t].at \in {"check", "wait"}
      /\ f \in Fetches /\ Done(f)
  BY DEF Deliver, TypeOK, TasksOK, HookState
<1>2. /\ SameBut("delivered", hook'[s], hook[s]) /\ hook'[s].delivered
      /\ \A r \in Sessions \ {s} : hook'[r] = hook[r]
  BY <1>1 DEF Deliver, Hook, Delivered, SameBut, TypeOK, HookState
<1>3. At(t, s, task[t].event, Onward(task[t].event))
  BY DEF Deliver
<1>4. /\ \A u \in Tasks \ {t} : task'[u] = task[u]
      /\ \/ task'[t] = Idle
         \/ task[t].event = "prompt" /\ task'[t] = [task[t] EXCEPT !.at = "interject"]
  BY <1>1, <1>3, MovesOn DEF Onward
<1>5. PICK files \in BOOLEAN :
        /\ injected' = [injected EXCEPT ![s] =
             IF HasContent(f, files) /\ task[t].event # "side" THEN @ + 1 ELSE @]
        /\ briefed' = [briefed EXCEPT ![s] =
             IF HasContent(f, files) /\ EmitEvents /\ st[f] = "ok" THEN @ \cup hits[f] ELSE @]
  BY DEF Deliver
<1>6. injected[s] \in Nat /\ injected \in [Sessions -> Nat] /\ briefed \in [Sessions -> SUBSET Memories]
  BY <1>1 DEF TypeOK, SessionsOK
<1>7. \A r \in Sessions \ {s} : injected'[r] = injected[r] /\ briefed'[r] = briefed[r]
  BY <1>5, <1>6
<1>8. st[f] = "ok" /\ f \in found => HasContent(f, files)
  BY DEF HasContent
<1>9. st[f] = "ok" /\ f \in found /\ task[t].event # "side" => injected'[s] > 0
  BY <1>1, <1>5, <1>6, <1>8
<1>10. /\ \/ injected'[s] = injected[s]
          \/ EmitEvents /\ st[f] = "ok" => hits[f] \subseteq briefed'[s]
       /\ briefed[s] \subseteq briefed'[s]
  BY <1>1, <1>5, <1>6
<1>11. UNCHANGED <<fetchVars, interjected, overlapped>>
  BY DEF Deliver
<1>12. QED
  BY <1>1, <1>2, <1>4, <1>7, <1>9, <1>10, <1>11 DEF Else, HasDelivered

LEMMA NoFutureDoes ==
  ASSUME TypeOK, NEW t \in Tasks, NoFuture(t)
  PROVE  HadNoFuture(t)
<1>1. task[t].s \in Sessions /\ task[t].at = "check" /\ hook[task[t].s].future = None
  BY DEF NoFuture, TypeOK, TasksOK
<1>2. At(t, task[t].s, task[t].event, Onward(task[t].event))
  BY DEF NoFuture
<1>3. /\ \A u \in Tasks \ {t} : task'[u] = task[u]
      /\ \/ task'[t] = Idle
         \/ task[t].event = "prompt" /\ task'[t] = [task[t] EXCEPT !.at = "interject"]
  BY <1>1, <1>2, MovesOn DEF Onward
<1>4. /\ SameBut("delivered", hook'[task[t].s], hook[task[t].s]) /\ hook'[task[t].s].delivered
      /\ \A r \in Sessions \ {task[t].s} : hook'[r] = hook[r]
  BY <1>1 DEF NoFuture, Hook, SameBut, TypeOK, HookState
<1>5. QED
  BY <1>1, <1>3, <1>4 DEF NoFuture, Else, sessionVars, HadNoFuture

LEMMA WaitDoes ==
  ASSUME TypeOK, NEW t \in Tasks, StartWait(t)
  PROVE  Waited(t)
<1>1. /\ task[t].at = "check" /\ At(t, task[t].s, task[t].event, "wait")
      /\ UNCHANGED <<fetchVars, sessionVars, hook>>
  BY DEF StartWait
<1>2. QED
  BY <1>1, MovesOn DEF Else, sessionVars, Waited

LEMMA DeferDoes ==
  ASSUME TypeOK, NEW t \in Tasks, Defer(t)
  PROVE  HasDeferred(t)
<1>1. task[t].s \in Sessions /\ task[t].at \in {"check", "wait"}
  BY DEF Defer, TypeOK, TasksOK
<1>2. At(t, task[t].s, task[t].event, Onward(task[t].event))
  BY DEF Defer
<1>3. /\ \A u \in Tasks \ {t} : task'[u] = task[u]
      /\ \/ task'[t] = Idle
         \/ task[t].event = "prompt" /\ task'[t] = [task[t] EXCEPT !.at = "interject"]
  BY <1>1, <1>2, MovesOn DEF Onward
<1>4. /\ SameBut("deferred", hook'[task[t].s], hook[task[t].s]) /\ hook'[task[t].s].deferred
      /\ \A r \in Sessions \ {task[t].s} : hook'[r] = hook[r]
  BY <1>1 DEF Defer, Hook, SameBut, TypeOK, HookState
<1>5. QED
  BY <1>1, <1>3, <1>4 DEF Defer, Else, sessionVars, HasDeferred

LEMMA InterjectDoes ==
  ASSUME TypeOK, NEW t \in Tasks, Interject(t)
  PROVE  HasInterjected(t)
<1>1. task[t].s \in Sessions /\ task[t].at = "interject"
  BY DEF Interject, TypeOK, TasksOK
<1>2. task'[t] = Idle /\ \A u \in Tasks \ {t} : task'[u] = task[u]
  BY DEF Interject, At, TypeOK, TasksOK
<1>3. /\ \A r \in Sessions \ {task[t].s} : interjected'[r] = interjected[r]
      /\ \A m \in interjected'[task[t].s] :
           m \in interjected[task[t].s] \/ m \notin briefed[task[t].s]
  BY <1>1 DEF Interject, Fresh, TypeOK, SessionsOK
<1>4. QED
  BY <1>1, <1>2, <1>3 DEF Interject, Else, HasInterjected

LEMMA MountDoes ==
  ASSUME TypeOK, NEW t \in Tasks, NEW s \in Sessions, Mount(t, s)
  PROVE  HasMounted(t, s)
<1> USE DEF HasMounted
<1> DEFINE h == [hook[s] EXCEPT !.phase = "mounted"]
<1>1. /\ h \in HookState /\ h.phase = "mounted"
      /\ h.delivered = hook[s].delivered /\ h.deferred = hook[s].deferred
  BY DEF TypeOK, HookState, Phases
<1>2. /\ task[t].at = "idle" /\ hook[s].phase = "none"
      /\ UNCHANGED <<fetchVars, sessionVars>>
      /\ \/ hook' = [hook EXCEPT ![s] = h] /\ UNCHANGED task
         \/ Prefetch(t, s, "mount", "idle", h)
  BY DEF Mount
<1> HIDE DEF h
<1>3. CASE hook' = [hook EXCEPT ![s] = h] /\ UNCHANGED task
  BY <1>1, <1>2, <1>3 DEF Else, sessionVars, TypeOK
<1>4. CASE Prefetch(t, s, "mount", "idle", h)
  <2>1. SameBut("future", hook'[s], h)
    BY <1>1, <1>4, PrefetchMoves
  <2>2. /\ \A r \in Sessions \ {s} : hook'[r] = hook[r]
        /\ \A u \in Tasks \ {t} : task'[u] = task[u]
        /\ \/ task'[t] = Idle
           \/ \E at \in {"idle", "miss"} : task'[t] = [s |-> s, event |-> "mount", at |-> at]
    BY <1>1, <1>4, PrefetchMoves
  <2>3. \/ task'[t] = Idle
        \/ task'[t] = [s |-> s, event |-> "mount", at |-> "miss"]
    BY <1>1, <1>4, PrefetchDoes DEF At, TypeOK, TasksOK
  <2>4. /\ hook'[s].phase = "mounted"
        /\ hook'[s].delivered = hook[s].delivered /\ hook'[s].deferred = hook[s].deferred
    BY <1>1, <2>1 DEF SameBut
  <2>5. QED
    BY <1>2, <2>2, <2>3, <2>4 DEF Else, sessionVars
<1>5. QED
  BY <1>2, <1>3, <1>4

LEMMA StartDoes ==
  ASSUME TypeOK, NEW t \in Tasks, NEW s \in Sessions, SessionStart(t, s)
  PROVE  HasStarted(t, s)
<1> USE DEF HasStarted
<1>1. \A to \in {"armed", "unarmed"} :
        LET h == [hook[s] EXCEPT !.phase = to] IN
        /\ h \in HookState /\ h.phase = to
        /\ h.delivered = hook[s].delivered /\ h.deferred = hook[s].deferred
  BY DEF TypeOK, HookState, Phases
<1>2. /\ task[t].at = "idle" /\ hook[s].phase = "mounted" /\ ~Working(s)
      /\ UNCHANGED <<fetchVars, sessionVars>>
      /\ \/ /\ hook' = [hook EXCEPT ![s] = [hook[s] EXCEPT !.phase = "unarmed"]]
            /\ UNCHANGED task
         \/ Prefetch(t, s, "start", "idle", [hook[s] EXCEPT !.phase = "armed"])
  BY DEF SessionStart
<1>3. CASE hook' = [hook EXCEPT ![s] = [hook[s] EXCEPT !.phase = "unarmed"]] /\ UNCHANGED task
  BY <1>1, <1>2, <1>3 DEF Else, sessionVars, TypeOK
<1>4. CASE Prefetch(t, s, "start", "idle", [hook[s] EXCEPT !.phase = "armed"])
  <2>0. PICK h \in HookState :
          /\ h = [hook[s] EXCEPT !.phase = "armed"] /\ h.phase = "armed"
          /\ h.delivered = hook[s].delivered /\ h.deferred = hook[s].deferred
    BY <1>1
  <2>1. Prefetch(t, s, "start", "idle", h)
    BY <1>4, <2>0
  <2>2. SameBut("future", hook'[s], h)
    BY <2>1, PrefetchMoves
  <2>3. /\ \A r \in Sessions \ {s} : hook'[r] = hook[r]
        /\ \A u \in Tasks \ {t} : task'[u] = task[u]
    BY <2>1, PrefetchMoves
  <2>4. \/ task'[t] = Idle
        \/ task'[t] = [s |-> s, event |-> "start", at |-> "miss"]
    BY <2>1, PrefetchDoes DEF At, TypeOK, TasksOK
  <2>5. /\ hook'[s].phase = "armed"
        /\ hook'[s].delivered = hook[s].delivered /\ hook'[s].deferred = hook[s].deferred
    BY <2>0, <2>2 DEF SameBut
  <2>6. QED
    BY <1>2, <2>3, <2>4, <2>5 DEF Else, sessionVars
<1>5. QED
  BY <1>2, <1>3, <1>4

LEMMA OnDeliverDoes ==
  ASSUME TypeOK, NEW t \in Tasks, NEW s \in Sessions,
         NEW event \in {"prompt", "request", "side"}, OnDeliver(t, s, event)
  PROVE  IsOnItsWay(t, s, event)
<1> USE DEF IsOnItsWay
<1>1. /\ task[t].at = "idle" /\ hook[s].phase = "armed"
      /\ \A u \in Tasks : task[u].s = s => task[u].event # "start"
      /\ UNCHANGED <<fetchVars, briefed, interjected, injected>>
  BY DEF OnDeliver
<1>2. CASE /\ hook[s].delivered \/ event \in SideCalls
           /\ event = "prompt" /\ At(t, s, event, "interject")
           /\ UNCHANGED <<hook, overlapped>>
  <2>1. hook[s].delivered
    BY <1>2 DEF SideCalls
  <2>2. task' = [task EXCEPT ![t] = [s |-> s, event |-> "prompt", at |-> "interject"]]
    BY <1>2 DEF At
  <2>3. QED
    BY <1>1, <1>2, <2>1, <2>2 DEF Else, TypeOK, TasksOK
<1>3. CASE /\ ~hook[s].delivered /\ event \notin SideCalls
           /\ Prefetch(t, s, event, "check", hook[s])
           /\ overlapped' = IF Working(s) THEN overlapped \cup {s} ELSE overlapped
  <2>1. hook[s] \in HookState
    BY DEF TypeOK
  <2>2. /\ SameBut("future", hook'[s], hook[s])
        /\ \A r \in Sessions \ {s} : hook'[r] = hook[r]
        /\ \A u \in Tasks \ {t} : task'[u] = task[u]
        /\ \E at \in {"check", "miss"} : task'[t] = [s |-> s, event |-> event, at |-> at]
    BY <1>3, <2>1, PrefetchMoves
  <2>3. event # "side"
    BY <1>3 DEF SideCalls
  <2>4. QED
    BY <1>1, <1>3, <2>2, <2>3 DEF Else
<1>4. QED
  BY <1>2, <1>3 DEF OnDeliver

\* The handlers of a session, and what a fetch does, are all there is.
LEMMA StepCases ==
  ASSUME [Next]_vars
  PROVE  \/ Fetching \/ Expire \/ UNCHANGED vars
         \/ \E t \in Tasks : Handler(t)
         \/ \E t \in Tasks, s \in Sessions : Mount(t, s) \/ SessionStart(t, s)
         \/ \E t \in Tasks, s \in Sessions, event \in {"prompt", "request", "side"} :
              OnDeliver(t, s, event)
BY DEF Next

\* Mounts and starts are alone with their session: inductive.
LEMMA SetupInductive ==
  ASSUME TypeOK, CompleteInv, SetupInv, [Next]_vars
  PROVE  SetupInv'
<1> USE BriefingAssumption
<1>0. /\ None \notin Sessions /\ Idle.s = None /\ Idle.at = "idle"
      /\ \A t \in Tasks : task[t] \in TaskState
      /\ \A s \in Sessions : hook[s] \in HookState
  BY DEF Idle, TypeOK, TasksOK
<1>1. ASSUME Fetching \/ Expire \/ UNCHANGED vars PROVE SetupInv'
  <2>1. UNCHANGED <<hook, task>>
    BY <1>1, FetchingSettles DEF vars
  <2>2. QED
    BY <2>1 DEF SetupInv, Working, Setup
<1>2. ASSUME NEW t \in Tasks, NEW s \in Sessions, task[t].s = s, task[t].at # "idle",
             Else(t, s), hook'[s].phase = hook[s].phase,
             hook'[s].delivered => hook[s].delivered \/ ~Setup(t),
             \/ task'[t] = Idle
             \/ ~Setup(t) /\ \E at \in {"check", "wait", "interject"} :
                               task'[t] = [task[t] EXCEPT !.at = at]
      PROVE  SetupInv'
  <2>1. \/ task'[t] = Idle
        \/ /\ task'[t].s = s /\ task'[t].event = task[t].event /\ ~Setup(t)
           /\ task'[t].at # "idle"
    BY <1>0, <1>2 DEF TaskState
  <2>2. \A u \in Tasks : Setup(u)' => u # t /\ Setup(u) /\ task[u].s # s
    BY <1>2, <2>1 DEF SetupInv, Setup, Else, Idle
  <2>3. hook'[s].delivered => hook[s].phase = "armed"
    BY <1>2 DEF SetupInv, Setup
  <2>4. \A r \in Sessions : hook'[r].phase = hook[r].phase
    BY <1>2 DEF Else
  <2>5. \A r \in Sessions : Working(r)' => Working(r)
    BY <1>0, <1>2, <2>1 DEF Working, Else
  <2>6. ASSUME NEW u \in Tasks
        PROVE  LET h == hook'[task'[u].s] IN
               IF task'[u].at = "idle" THEN task'[u] = Idle
               ELSE /\ task'[u].event # "side"
                    /\ h.phase = IF task'[u].event = "mount" THEN "mounted" ELSE "armed"
                    /\ Setup(u)' =>
                         /\ task'[u].at = "miss" /\ ~h.delivered
                         /\ \A v \in Tasks : task'[v].s = task'[u].s => v = u
    <3>1. CASE u = t
      BY <1>0, <1>2, <2>1, <2>2, <3>1 DEF SetupInv
    <3>2. CASE u # t
      <4>1. task'[u] = task[u] /\ (task[u].at # "idle" => task[u].s \in Sessions)
        BY <1>2, <3>2 DEF Else, TypeOK, TasksOK
      <4>2. task'[u].at # "idle" => hook'[task'[u].s].phase = hook[task[u].s].phase
        BY <2>4, <4>1
      <4>3. ASSUME Setup(u)', task'[u].at # "idle"
            PROVE  /\ task'[u].at = "miss" /\ ~hook'[task'[u].s].delivered
                   /\ \A v \in Tasks : task'[v].s = task'[u].s => v = u
        <5>1. Setup(u) /\ task[u].s # s /\ task[u].s \in Sessions
          BY <2>2, <4>1, <4>3
        <5>2. hook'[task[u].s] = hook[task[u].s]
          BY <1>2, <5>1 DEF Else
        <5>3. task'[t].s # task[u].s
          BY <1>0, <2>1, <5>1
        <5>4. QED
          BY <1>2, <4>1, <4>3, <5>1, <5>2, <5>3 DEF SetupInv, Else
      <4>4. QED
        BY <4>1, <4>2, <4>3 DEF SetupInv
    <3>3. QED
      BY <3>1, <3>2
  <2>7. ASSUME NEW r \in Sessions
        PROVE  /\ hook'[r].phase = "none" => ~Working(r)'
               /\ hook'[r].delivered => hook'[r].phase = "armed"
    BY <1>2, <2>3, <2>4, <2>5 DEF SetupInv, Else
  <2>8. QED
    BY <2>6, <2>7 DEF SetupInv
\* A task begins at a session: alone with it, or when it is armed.
<1>3. ASSUME NEW t \in Tasks, NEW s \in Sessions, task[t].at = "idle", Else(t, s),
             \/ task'[t] = task[t] \/ task'[t] = Idle
             \/ /\ task'[t].s = s /\ task'[t].at # "idle"
                /\ task'[t].event \in {"mount", "start", "prompt", "request"}
                /\ hook'[s].phase = IF task'[t].event = "mount" THEN "mounted" ELSE "armed"
                /\ task'[t].event \in {"mount", "start"} =>
                     task'[t].at = "miss" /\ ~hook[s].delivered,
             hook'[s].phase # "none", hook'[s].delivered = hook[s].delivered,
             hook'[s].delivered => hook'[s].phase = "armed",
             \/ ~Working(s)
             \/ /\ hook'[s].phase = hook[s].phase
                /\ task'[t].event \notin {"mount", "start"}
                /\ \A u \in Tasks : task[u].s = s => ~Setup(u)
      PROVE  SetupInv'
  <2>1. task[t] = Idle
    BY <1>3 DEF SetupInv
  <2>2. ASSUME NEW u \in Tasks \ {t}, task[u].at # "idle"
        PROVE  /\ task'[u].event # "side"
               /\ hook'[task'[u].s].phase =
                    IF task'[u].event = "mount" THEN "mounted" ELSE "armed"
               /\ Setup(u)' =>
                    /\ task'[u].at = "miss" /\ ~hook'[task'[u].s].delivered
                    /\ \A v \in Tasks : task'[v].s = task'[u].s => v = u
    <3>1. task'[u] = task[u] /\ task[u].s \in Sessions
      BY <1>3, <2>2 DEF Else, TypeOK, TasksOK
    <3>2. /\ hook'[task[u].s].phase = hook[task[u].s].phase
          /\ hook'[task[u].s].delivered = hook[task[u].s].delivered
      <4>1. CASE task[u].s = s
        BY <1>3, <4>1 DEF Working
      <4>2. CASE task[u].s # s
        BY <1>3, <3>1, <4>2 DEF Else
      <4>3. QED
        BY <4>1, <4>2
    <3>3. Setup(u) => task'[t].s # task[u].s
      <4>1. Setup(u) => task[u].s # s
        BY <1>3 DEF Working
      <4>2. task'[t].s \in {s, None}
        BY <1>0, <1>3, <2>1
      <4>3. QED
        BY <1>0, <3>1, <4>1, <4>2
    <3>4. Setup(u)' <=> Setup(u)
      BY <3>1 DEF Setup
    <3>5. Setup(u) => \A v \in Tasks : task'[v].s = task[u].s => v = u
      BY <1>3, <2>2, <3>3 DEF SetupInv, Else
    <3>6. QED
      BY <2>2, <3>1, <3>2, <3>4, <3>5 DEF SetupInv
  <2>3. ASSUME task'[t] # Idle
        PROVE  /\ task'[t].event # "side"
               /\ hook'[s].phase = IF task'[t].event = "mount" THEN "mounted" ELSE "armed"
               /\ Setup(t)' =>
                    /\ task'[t].at = "miss" /\ ~hook'[s].delivered
                    /\ \A v \in Tasks : task'[v].s = s => v = t
    <3>1. Setup(t)' => \A v \in Tasks \ {t} : task'[v].s # s
      BY <1>3, <2>1, <2>3 DEF Working, Setup, Else
    <3>2. QED
      BY <1>3, <2>1, <2>3, <3>1 DEF Setup
  <2>4. \A u \in Tasks \ {t} : task[u].at = "idle" => task'[u] = Idle
    BY <1>3 DEF SetupInv, Else
  <2>5. ASSUME NEW r \in Sessions
        PROVE  /\ hook'[r].phase = "none" => ~Working(r)'
               /\ hook'[r].delivered => hook'[r].phase = "armed"
    <3>1. CASE r = s
      BY <1>3, <3>1
    <3>2. CASE r # s
      <4>1. Working(r)' => Working(r)
        BY <1>0, <1>3, <2>1, <3>2 DEF Working, Else
      <4>2. QED
        BY <1>3, <3>2, <4>1 DEF SetupInv, Else
    <3>3. QED
      BY <3>1, <3>2
  <2>6. task'[t] # Idle => task'[t].s = s /\ task'[t].at # "idle"
    BY <1>3, <2>1
  <2>7. \A u \in Tasks \ {t} : task'[u] = task[u]
    BY <1>3 DEF Else
  <2>8. QED
    BY <1>0, <2>2, <2>3, <2>4, <2>5, <2>6, <2>7 DEF SetupInv
<1>4. ASSUME NEW t \in Tasks, Handler(t) PROVE SetupInv'
  <2>1. CASE StartFetch(t)
    <3>1. StartedFetch(t)
      BY <2>1, StartFetchDoes
    <3>2. QED
      BY <1>2, <3>1 DEF StartedFetch, SameBut
  <2>2. CASE Deliver(t)
    <3>1. HasDelivered(t)
      BY <2>2, DeliverDoes
    <3>2. ~Setup(t)
      BY <3>1 DEF HasDelivered, SetupInv
    <3>3. QED
      BY <1>2, <3>1, <3>2 DEF HasDelivered, SameBut
  <2>3. CASE NoFuture(t)
    <3>1. HadNoFuture(t)
      BY <2>3, NoFutureDoes
    <3>2. ~Setup(t)
      BY <3>1 DEF HadNoFuture, SetupInv
    <3>3. QED
      BY <1>2, <3>1, <3>2 DEF HadNoFuture, SameBut
  <2>4. CASE StartWait(t)
    <3>1. Waited(t)
      BY <2>4, WaitDoes
    <3>2. ~Setup(t)
      BY <3>1 DEF Waited, SetupInv
    <3>3. QED
      BY <1>2, <3>1, <3>2 DEF Waited
  <2>5. CASE Defer(t)
    <3>1. HasDeferred(t)
      BY <2>5, DeferDoes
    <3>2. ~Setup(t)
      BY <3>1 DEF HasDeferred, SetupInv
    <3>3. QED
      BY <1>2, <3>1, <3>2 DEF HasDeferred, SameBut
  <2>6. CASE Interject(t)
    <3>1. HasInterjected(t)
      BY <2>6, InterjectDoes
    <3>2. QED
      BY <1>2, <3>1 DEF HasInterjected
  <2>7. QED
    BY <1>4, <2>1, <2>2, <2>3, <2>4, <2>5, <2>6 DEF Handler
<1>5. ASSUME NEW t \in Tasks, NEW s \in Sessions, Mount(t, s) PROVE SetupInv'
  <2>1. HasMounted(t, s)
    BY <1>5, MountDoes
  <2>2. ~hook[s].delivered /\ ~Working(s)
    BY <2>1 DEF HasMounted, SetupInv
  <2>3. QED
    BY <1>3, <2>1, <2>2 DEF HasMounted
<1>6. ASSUME NEW t \in Tasks, NEW s \in Sessions, SessionStart(t, s) PROVE SetupInv'
  <2>1. HasStarted(t, s)
    BY <1>6, StartDoes
  <2>2. ~hook[s].delivered
    BY <2>1 DEF HasStarted, SetupInv
  <2>3. QED
    BY <1>3, <2>1, <2>2 DEF HasStarted
<1>7. ASSUME NEW t \in Tasks, NEW s \in Sessions,
             NEW event \in {"prompt", "request", "side"}, OnDeliver(t, s, event)
      PROVE  SetupInv'
  <2>0. IsOnItsWay(t, s, event)
    BY <1>7, OnDeliverDoes
  <2>1. \A u \in Tasks : task[u].s = s => ~Setup(u)
    <3>1. \A u \in Tasks : task[u].s = s => task[u].at # "idle"
      BY <1>0 DEF SetupInv
    <3>2. QED
      BY <2>0, <3>1 DEF IsOnItsWay, SetupInv, Setup
  <2>2. /\ hook'[s].phase = hook[s].phase /\ hook'[s].delivered = hook[s].delivered
        /\ hook[s].phase = "armed"
    BY <2>0 DEF IsOnItsWay, SameBut
  <2>3. /\ task'[t].s = s /\ task'[t].at # "idle"
        /\ task'[t].event \in {"prompt", "request"}
    BY <2>0 DEF IsOnItsWay
  <2>4. task[t].at = "idle" /\ Else(t, s)
    BY <2>0 DEF IsOnItsWay
  <2>5. QED
    BY <1>3, <2>1, <2>2, <2>3, <2>4
<1>8. QED
  BY <1>1, <1>4, <1>5, <1>6, <1>7, StepCases

\* What a session's hook, its shares and its tasks keep, EarlyInv keeps.
LEMMA EarlyStep ==
  ASSUME EarlyInv, NEW t \in Tasks, NEW s \in Sessions, Else(t, s),
         task'[t].at = "interject" => task'[t].s = s,
         \/ hook'[s].deferred \/ hook'[s].delivered
         \/ /\ ~hook[s].deferred /\ ~hook[s].delivered
            /\ interjected'[s] = interjected[s] /\ task'[t].at # "interject"
  PROVE  EarlyInv'
<1> SUFFICES ASSUME NEW r \in Sessions, ~hook'[r].deferred, ~hook'[r].delivered
             PROVE  /\ interjected'[r] = {}
                    /\ \A u \in Tasks : task'[u].s = r => task'[u].at # "interject"
  BY DEF EarlyInv
<1>1. CASE r = s
  BY <1>1 DEF EarlyInv, Else
<1>2. CASE r # s
  BY <1>2 DEF EarlyInv, Else
<1>3. QED
  BY <1>1, <1>2

\* No prompt reaches the interject hook before the briefing is settled: inductive.
LEMMA EarlyInductive ==
  ASSUME TypeOK, CompleteInv, SetupInv, EarlyInv, [Next]_vars
  PROVE  EarlyInv'
<1>0. /\ Idle.at = "idle"
      /\ \A t \in Tasks : task[t] \in TaskState
      /\ \A s \in Sessions : hook[s] \in HookState
  BY DEF Idle, TypeOK, TasksOK
<1>1. ASSUME Fetching \/ Expire \/ UNCHANGED vars PROVE EarlyInv'
  <2>1. UNCHANGED <<hook, task, interjected>>
    BY <1>1, FetchingSettles DEF vars, sessionVars
  <2>2. QED
    BY <2>1 DEF EarlyInv
<1>2. ASSUME NEW t \in Tasks, Handler(t) PROVE EarlyInv'
  <2> DEFINE s == task[t].s
  <2>0. \A at \in {"check", "wait", "interject"} :
          /\ [task[t] EXCEPT !.at = at].s = s
          /\ [task[t] EXCEPT !.at = at].at = at
    BY <1>0 DEF TaskState
  <2>1. CASE StartFetch(t)
    <3>1. StartedFetch(t)
      BY <2>1, StartFetchDoes
    <3>2. /\ s \in Sessions /\ Else(t, s) /\ interjected' = interjected
          /\ hook'[s].deferred = hook[s].deferred /\ hook'[s].delivered = hook[s].delivered
          /\ task'[t].at # "interject"
      BY <1>0, <2>0, <3>1 DEF StartedFetch, SameBut, sessionVars
    <3>3. (hook[s].deferred \/ hook[s].delivered) \/ (~hook[s].deferred /\ ~hook[s].delivered)
      OBVIOUS
    <3> HIDE DEF s
    <3>4. QED
      BY <3>2, <3>3, EarlyStep
  <2>2. CASE Deliver(t)
    <3>1. HasDelivered(t)
      BY <2>2, DeliverDoes
    <3>2. /\ s \in Sessions /\ Else(t, s) /\ hook'[s].delivered
          /\ task'[t].at = "interject" => task'[t].s = s
      BY <1>0, <2>0, <3>1 DEF HasDelivered
    <3> HIDE DEF s
    <3>3. QED
      BY <3>2, EarlyStep
  <2>3. CASE NoFuture(t)
    <3>1. HadNoFuture(t)
      BY <2>3, NoFutureDoes
    <3>2. /\ s \in Sessions /\ Else(t, s) /\ hook'[s].delivered
          /\ task'[t].at = "interject" => task'[t].s = s
      BY <1>0, <2>0, <3>1 DEF HadNoFuture
    <3> HIDE DEF s
    <3>3. QED
      BY <3>2, EarlyStep
  <2>4. CASE StartWait(t)
    <3>1. Waited(t)
      BY <2>4, WaitDoes
    <3>2. /\ s \in Sessions /\ Else(t, s) /\ hook' = hook /\ interjected' = interjected
          /\ task'[t].at # "interject"
      BY <1>0, <2>0, <3>1 DEF Waited, sessionVars
    <3> HIDE DEF s
    <3>3. QED
      BY <3>2, EarlyStep
  <2>5. CASE Defer(t)
    <3>1. HasDeferred(t)
      BY <2>5, DeferDoes
    <3>2. /\ s \in Sessions /\ Else(t, s) /\ hook'[s].deferred
          /\ task'[t].at = "interject" => task'[t].s = s
      BY <1>0, <2>0, <3>1 DEF HasDeferred
    <3> HIDE DEF s
    <3>3. QED
      BY <3>2, EarlyStep
  <2>6. CASE Interject(t)
    <3>1. HasInterjected(t)
      BY <2>6, InterjectDoes
    <3>2. /\ s \in Sessions /\ Else(t, s) /\ hook' = hook /\ task'[t].at # "interject"
          /\ task[t].at = "interject"
      BY <1>0, <3>1 DEF HasInterjected
    <3>3. hook[s].deferred \/ hook[s].delivered
      BY <3>2 DEF EarlyInv
    <3> HIDE DEF s
    <3>4. QED
      BY <3>2, <3>3, EarlyStep
  <2>7. QED
    BY <1>2, <2>1, <2>2, <2>3, <2>4, <2>5, <2>6 DEF Handler
<1>3. ASSUME NEW t \in Tasks, NEW s \in Sessions, Mount(t, s) \/ SessionStart(t, s)
      PROVE  EarlyInv'
  <2>1. HasMounted(t, s) \/ HasStarted(t, s)
    BY <1>3, MountDoes, StartDoes
  <2>2. /\ Else(t, s) /\ interjected' = interjected
        /\ hook'[s].deferred = hook[s].deferred /\ hook'[s].delivered = hook[s].delivered
        /\ task'[t].at # "interject"
    BY <1>0, <2>1 DEF HasMounted, HasStarted, sessionVars
  <2>3. QED
    BY <2>2, EarlyStep
<1>4. ASSUME NEW t \in Tasks, NEW s \in Sessions,
             NEW event \in {"prompt", "request", "side"}, OnDeliver(t, s, event)
      PROVE  EarlyInv'
  <2>1. IsOnItsWay(t, s, event)
    BY <1>4, OnDeliverDoes
  <2>2. /\ Else(t, s) /\ interjected' = interjected /\ task'[t].s = s
        /\ hook'[s].deferred = hook[s].deferred /\ hook'[s].delivered = hook[s].delivered
        /\ hook[s].delivered \/ task'[t].at # "interject"
    BY <2>1 DEF IsOnItsWay, SameBut
  <2>3. QED
    BY <2>2, EarlyStep
<1>5. QED
  BY <1>1, <1>2, <1>3, <1>4, StepCases

\* Before its delivery there is nothing a session could have seen.
LEMMA SeenBefore ==
  ASSUME NEW s \in Sessions, ~hook'[s].delivered, injected'[s] = 0
  PROVE  Seen(s)'
BY DEF Seen, Shown

\* What it was shown stays what it was, while the session does nothing.
LEMMA SeenKeeps ==
  ASSUME TypeOK, NEW s \in Sessions, Seen(s), Settled, hook'[s] = hook[s],
         injected'[s] = injected[s], briefed'[s] = briefed[s],
         interjected'[s] = interjected[s],
         \A t \in Tasks : Pending(t, s)' => Pending(t, s)
  PROVE  Seen(s)'
<1> DEFINE f == hook[s].future
<1>1. f # None => f \in Fetches
  BY DEF TypeOK, HookState
<1>2. hook[s].delivered /\ f # None =>
        /\ Done(f) /\ Done(f)'
        /\ st'[f] = st[f] /\ hits'[f] = hits[f] /\ (f \in found' <=> f \in found)
  BY <1>1 DEF Seen, Settled, Done
<1>3. Shown(s)' = Shown(s)
  BY <1>2 DEF Seen, Shown
<1>4. QED
  BY <1>2, <1>3 DEF Seen

\* What a session was shown, and that it was shown it: inductive.
LEMMA SeenInductive ==
  ASSUME TypeOK, CompleteInv, SetupInv, OnceInv, EarlyInv, SeenInv, [Next]_vars
  PROVE  SeenInv'
<1>0. /\ Idle.at = "idle"
      /\ \A t \in Tasks : task[t] \in TaskState
      /\ \A s \in Sessions : hook[s] \in HookState /\ injected[s] \in Nat
  BY DEF Idle, TypeOK, TasksOK, SessionsOK
<1>1. ASSUME Fetching \/ Expire \/ UNCHANGED vars PROVE SeenInv'
  <2>1. Settled /\ UNCHANGED <<hook, task, sessionVars>>
    BY <1>1, FetchingSettles DEF vars, fetchVars, Settled
  <2>2. QED
    BY <2>1, SeenKeeps DEF SeenInv, sessionVars, Pending
<1>2. ASSUME NEW t \in Tasks, NEW s \in Sessions, Settled, Else(t, s),
             task'[t].s = s \/ task'[t].at \in {"idle", "interject"},
             overlapped \subseteq overlapped',
             s \notin overlapped' => Seen(s)'
      PROVE  SeenInv'
  <2>1. ASSUME NEW r \in Sessions \ {s}, Seen(r) PROVE Seen(r)'
    <3>1. \A u \in Tasks : Pending(u, r)' => Pending(u, r)
      BY <1>2 DEF Else, Pending
    <3>2. QED
      BY <1>2, <2>1, <3>1, SeenKeeps DEF Else
  <2>2. QED
    BY <1>2, <2>1 DEF SeenInv
<1>3. ASSUME NEW s \in Sessions, s \notin overlapped, ~hook[s].delivered
      PROVE  injected[s] = 0
  BY <1>0, <1>3 DEF SeenInv, Seen
<1>4. ASSUME NEW t \in Tasks, NEW s \in Sessions, task[t].s = s, s \notin overlapped,
             task[t].at \in {"miss", "check", "wait"}
      PROVE  ~hook[s].delivered /\ injected[s] = 0
  <2>1. Setup(t) => ~hook[s].delivered
    BY <1>4 DEF SetupInv
  <2>2. ~Setup(t) => ~hook[s].delivered
    BY <1>4 DEF SeenInv, Seen, Pending, Setup
  <2>3. QED
    BY <1>3, <1>4, <2>1, <2>2
<1>5. ASSUME NEW t \in Tasks, NEW s \in Sessions, s = task[t].s,
             NEW f, f = hook[s].future, Handler(t)
      PROVE  SeenInv'
  <2>0. \A at \in {"check", "wait", "interject"} :
          /\ [task[t] EXCEPT !.at = at].s = s
          /\ [task[t] EXCEPT !.at = at].at = at
          /\ [task[t] EXCEPT !.at = at].event = task[t].event
    BY <1>0, <1>5 DEF TaskState
  <2>1. CASE StartFetch(t)
    <3>1. StartedFetch(t)
      BY <2>1, StartFetchDoes
    <3>2. s \notin overlapped => Seen(s)'
      BY <1>5, <1>4, <3>1, SeenBefore DEF StartedFetch, SameBut, sessionVars
    <3>3. /\ Settled /\ Else(t, s) /\ overlapped' = overlapped /\ s \in Sessions
          /\ task'[t].s = s \/ task'[t].at = "idle"
      BY <1>5, <1>0, <2>0, <3>1 DEF StartedFetch, sessionVars
    <3>4. QED
      BY <1>2, <3>2, <3>3
  <2>2. CASE Deliver(t)
    <3>1. HasDelivered(t)
      BY <2>2, DeliverDoes
    <3>2. /\ s \in Sessions /\ Else(t, s) /\ overlapped' = overlapped
          /\ interjected' = interjected /\ f \in Fetches /\ Done(f)
          /\ st' = st /\ found' = found /\ hits' = hits
          /\ task[t].at \in {"check", "wait"} /\ task[t].event # "side"
          /\ task'[t].at \in {"idle", "interject"}
      BY <1>5, <1>0, <2>0, <3>1 DEF HasDelivered, SetupInv, fetchVars
    <3>3. /\ hook'[s].delivered /\ hook'[s].future = f
          /\ hook'[s].deferred = hook[s].deferred
          /\ st[f] = "ok" /\ f \in found => injected'[s] > 0
          /\ injected'[s] = injected[s] \/ (EmitEvents /\ st[f] = "ok" => hits[f] \subseteq briefed'[s])
      BY <1>5, <3>1, <3>2 DEF HasDelivered, SameBut
    <3>4. ASSUME s \notin overlapped PROVE Seen(s)'
      <4>1. ~hook[s].delivered /\ injected[s] = 0
        BY <1>5, <1>4, <3>2, <3>4
      <4>2. \A u \in Tasks : ~Pending(u, s)'
        BY <1>5, <3>2, <3>4 DEF OnceInv, Pending, Else
      <4>3. injected'[s] > 0 => (EmitEvents /\ st[f] = "ok" => hits[f] \subseteq briefed'[s])
        BY <3>3, <4>1
      <4>4. Done(f)'
        BY <3>2 DEF Done
      <4>5. ~hook[s].deferred => interjected'[s] = {}
        BY <3>2, <4>1 DEF EarlyInv
      <4>6. f # None
        BY <3>2, BriefingAssumption
      <4>7. EmitEvents /\ ~hook'[s].deferred => Shown(s)' \cap interjected'[s] = {}
        BY <3>3, <4>5
      <4>8. QED
        BY <3>2, <3>3, <4>2, <4>3, <4>4, <4>6, <4>7 DEF Seen
    <3>5. Settled
      BY <3>2 DEF Settled
    <3>6. QED
      BY <1>2, <3>2, <3>4, <3>5
  <2>3. CASE NoFuture(t)
    <3>1. HadNoFuture(t)
      BY <2>3, NoFutureDoes
    <3>2. /\ s \in Sessions /\ Else(t, s) /\ UNCHANGED <<fetchVars, sessionVars>>
          /\ task[t].at = "check" /\ task'[t].at \in {"idle", "interject"}
          /\ hook'[s].future = None
      BY <1>5, <1>0, <2>0, <3>1 DEF HadNoFuture, SameBut
    <3>3. ASSUME s \notin overlapped PROVE Seen(s)'
      <4>1. injected'[s] = 0
        BY <1>5, <1>4, <3>2, <3>3 DEF sessionVars
      <4>2. \A u \in Tasks : ~Pending(u, s)'
        BY <1>5, <3>2, <3>3 DEF OnceInv, Pending, Else
      <4>3. QED
        BY <3>2, <4>1, <4>2 DEF Seen, Shown
    <3>4. Settled /\ overlapped' = overlapped
      BY <3>2 DEF Settled, fetchVars, sessionVars
    <3>5. QED
      BY <1>2, <3>2, <3>3, <3>4
  <2>4. CASE StartWait(t)
    <3>1. Waited(t)
      BY <2>4, WaitDoes
    <3>2. s \notin overlapped => Seen(s)'
      BY <1>5, <1>4, <3>1, SeenBefore DEF Waited, sessionVars
    <3>3. /\ Settled /\ Else(t, s) /\ overlapped' = overlapped /\ s \in Sessions
          /\ task'[t].s = s
      BY <1>5, <2>0, <3>1 DEF Waited, Settled, fetchVars, sessionVars
    <3>4. QED
      BY <1>2, <3>2, <3>3
  <2>5. CASE Defer(t)
    <3>1. HasDeferred(t)
      BY <2>5, DeferDoes
    <3>2. s \notin overlapped => Seen(s)'
      BY <1>5, <1>4, <3>1, SeenBefore DEF HasDeferred, SameBut, sessionVars
    <3>3. /\ Settled /\ Else(t, s) /\ overlapped' = overlapped /\ s \in Sessions
          /\ task'[t].at \in {"idle", "interject"}
      BY <1>5, <1>0, <2>0, <3>1 DEF HasDeferred, Settled, fetchVars, sessionVars
    <3>4. QED
      BY <1>2, <3>2, <3>3
  <2>6. CASE Interject(t)
    <3>1. HasInterjected(t)
      BY <2>6, InterjectDoes
    <3>2. /\ s \in Sessions /\ Else(t, s) /\ task'[t].at = "idle"
          /\ hook' = hook /\ briefed' = briefed /\ injected' = injected
          /\ overlapped' = overlapped
          /\ st' = st /\ hits' = hits /\ found' = found
          /\ \A m \in interjected'[s] : m \in interjected[s] \/ m \notin briefed[s]
      BY <1>5, <1>0, <3>1 DEF HasInterjected, fetchVars
    <3>3. ASSUME s \notin overlapped PROVE Seen(s)'
      <4>1. Seen(s)
        BY <3>2, <3>3 DEF SeenInv
      <4>2. \A u \in Tasks : Pending(u, s)' => Pending(u, s)
        BY <3>2 DEF Pending, Else
      <4>3. Shown(s)' = Shown(s)
        BY <3>2 DEF Shown
      <4>4. EmitEvents => Shown(s) \subseteq briefed[s]
        BY <4>1 DEF Seen, Shown
      <4>5. EmitEvents /\ ~hook[s].deferred => Shown(s) \cap interjected'[s] = {}
        BY <3>2, <4>1, <4>4 DEF Seen
      <4>6. Done(f)' <=> Done(f)
        BY <3>2 DEF Done
      <4>7. QED
        BY <1>5, <3>2, <4>1, <4>2, <4>3, <4>5, <4>6 DEF Seen
    <3>4. Settled
      BY <3>2 DEF Settled
    <3>5. QED
      BY <1>2, <3>2, <3>3, <3>4
  <2>7. QED
    BY <1>5, <2>1, <2>2, <2>3, <2>4, <2>5, <2>6 DEF Handler
<1>6. ASSUME NEW t \in Tasks, Handler(t) PROVE task[t].s \in Sessions
  BY <1>6 DEF Handler, StartFetch, Deliver, NoFuture, StartWait, Defer, Interject,
     TypeOK, TasksOK
<1>7. ASSUME NEW t \in Tasks, NEW s \in Sessions, Mount(t, s) \/ SessionStart(t, s)
      PROVE  SeenInv'
  <2>1. HasMounted(t, s) \/ HasStarted(t, s)
    BY <1>7, MountDoes, StartDoes
  <2>2. ~hook[s].delivered /\ hook'[s].delivered = hook[s].delivered
    BY <2>1 DEF HasMounted, HasStarted, SetupInv
  <2>3. /\ Else(t, s) /\ UNCHANGED <<fetchVars, sessionVars>>
        /\ task'[t].s = s \/ task'[t].at = "idle"
    BY <1>0, <2>1 DEF HasMounted, HasStarted
  <2>4. Settled /\ overlapped' = overlapped /\ injected' = injected
    BY <2>3 DEF Settled, fetchVars, sessionVars
  <2>5. s \notin overlapped => Seen(s)'
    BY <1>3, <2>2, <2>4, SeenBefore
  <2>6. QED
    BY <1>2, <2>3, <2>4, <2>5
<1>8. ASSUME NEW t \in Tasks, NEW s \in Sessions,
             NEW event \in {"prompt", "request", "side"}, OnDeliver(t, s, event)
      PROVE  SeenInv'
  <2>1. IsOnItsWay(t, s, event)
    BY <1>8, OnDeliverDoes
  <2>2. /\ Else(t, s) /\ task'[t].s = s /\ overlapped \subseteq overlapped'
        /\ UNCHANGED <<fetchVars, briefed, interjected, injected>>
    BY <2>1 DEF IsOnItsWay
  <2>3. Settled
    BY <2>2 DEF Settled, fetchVars
  <2>4. ASSUME s \notin overlapped' PROVE Seen(s)'
    <3>1. CASE ~hook[s].delivered
      <4>1. ~hook'[s].delivered
        BY <2>1, <3>1 DEF IsOnItsWay, SameBut
      <4>2. QED
        BY <1>3, <2>2, <2>4, <3>1, <4>1, SeenBefore
    <3>2. CASE hook[s].delivered
      <4>1. hook' = hook /\ task'[t].at = "interject" /\ Seen(s)
        BY <2>1, <2>2, <2>4, <3>2 DEF IsOnItsWay, SeenInv
      <4>2. \A u \in Tasks : Pending(u, s)' => Pending(u, s)
        BY <2>2, <4>1 DEF Pending, Else
      <4>3. QED
        BY <2>2, <2>3, <4>1, <4>2, SeenKeeps
    <3>3. QED
      BY <3>1, <3>2
  <2>5. QED
    BY <1>2, <2>2, <2>3, <2>4
<1>9. QED
  BY <1>1, <1>5, <1>6, <1>7, <1>8, StepCases

\* The three invariants hold of every state.
LEMMA SeenHolds == Spec => [](SetupInv /\ EarlyInv /\ SeenInv)
<1>1. Init => SetupInv
  BY BriefingAssumption DEF Init, SetupInv, Working, Idle
<1>2. Init => EarlyInv /\ SeenInv
  BY DEF Init, EarlyInv, SeenInv, Seen, Shown, Idle
<1>3. /\ TypeOK /\ CompleteInv /\ OnceInv /\ SetupInv /\ EarlyInv /\ SeenInv /\ [Next]_vars
      => SetupInv' /\ EarlyInv' /\ SeenInv'
  BY SetupInductive, EarlyInductive, SeenInductive
<1>4. QED
  BY <1>1, <1>2, <1>3, TypeCorrect, CompleteInductive, OnceInductive, PTL DEF Spec

\* What its fetch found has reached a session that is marked delivered: no side
\* call, failed readiness check or late start used up its one delivery.
THEOREM DeliveredIsSeen == Spec => []DeliveredMeansSeen
<1>1. SeenInv => DeliveredMeansSeen
  BY DEF SeenInv, Seen, DeliveredMeansSeen
<1>2. QED
  BY <1>1, SeenHolds, PTL

\* The interject hook injects no drawer that the briefing has shown, as long as
\* it was not deferred and events are on.
THEOREM NothingShownTwice == Spec => []NotTwice
<1>1. SeenInv => NotTwice
  BY DEF SeenInv, Seen, NotTwice
<1>2. QED
  BY <1>1, SeenHolds, PTL

\* prefetch() takes over no fetch that is known to be bad.
LEMMA PrefetchGood ==
  ASSUME TypeOK, NEW t \in Tasks, NEW s \in Sessions, NEW event,
         NEW then, NEW h \in HookState, h.future = hook[s].future,
         Prefetch(t, s, event, then, h)
  PROVE  TakesGood
<1>1. PICK f \in Fetches \cup {None}, at \in {then, "miss"} :
        /\ hook' = [hook EXCEPT ![s] = [h EXCEPT !.future = f]]
        /\ f = h.future \/ f = None \/ ~BadlyDone(f)
  BY PrefetchDoes
<1>2. hook'[s].future = f /\ \A r \in Sessions \ {s} : hook'[r] = hook[r]
  BY <1>1 DEF TypeOK, HookState
<1>3. QED
  BY <1>1, <1>2 DEF TakesGood

\* A session takes over a fetch only while nothing is known to be wrong with it.
THEOREM NothingBadIsReused == Spec => NoBadReuse
<1>1. TypeOK /\ [Next]_vars => TakesGood
  <2> SUFFICES ASSUME TypeOK, [Next]_vars PROVE TakesGood
    OBVIOUS
  <2> USE DEF TakesGood
  <2>1. ASSUME NEW f \in Fetches, Ensure(f) PROVE TakesGood
    BY <2>1 DEF Ensure, sessionVars
  <2>2. ASSUME NEW f \in Fetches, NEW l \in Lookups, LookupReturns(f, l) PROVE TakesGood
    BY <2>2 DEF LookupReturns, sessionVars
  <2>3. ASSUME NEW f \in Fetches, NEW l \in Lookups, LookupFails(f, l) PROVE TakesGood
    BY <2>3 DEF LookupFails, sessionVars
  <2>4. ASSUME NEW f \in Fetches, NEW l \in Lookups, LookupRaises(f, l) PROVE TakesGood
    BY <2>4 DEF LookupRaises, sessionVars
  <2>5. ASSUME NEW f \in Fetches, FetchDone(f) PROVE TakesGood
    BY <2>5 DEF FetchDone, sessionVars
  <2>6. CASE Expire
    BY <2>6 DEF Expire, sessionVars
  <2>7. ASSUME NEW t \in Tasks, StartFetch(t) PROVE TakesGood
    <3>1. PICK f \in Fetches : st[f] = "unused" /\ Hook(task[t].s, "future", f)
      BY <2>7 DEF StartFetch
    <3>2. ~BadlyDone(f)
      BY <3>1 DEF BadlyDone, Done, Outcomes
    <3>3. \A r \in Sessions : hook'[r].future = hook[r].future \/ hook'[r].future = f
      BY <3>1 DEF Hook, TypeOK, HookState
    <3>4. QED
      BY <3>2, <3>3
  <2>8. ASSUME NEW t \in Tasks, Deliver(t) PROVE TakesGood
    BY <2>8 DEF Deliver, Hook, TypeOK, HookState
  <2>9. ASSUME NEW t \in Tasks, NoFuture(t) PROVE TakesGood
    BY <2>9 DEF NoFuture, Hook, TypeOK, HookState
  <2>10. ASSUME NEW t \in Tasks, StartWait(t) PROVE TakesGood
    BY <2>10 DEF StartWait, sessionVars
  <2>11. ASSUME NEW t \in Tasks, Defer(t) PROVE TakesGood
    BY <2>11 DEF Defer, Hook, TypeOK, HookState
  <2>12. ASSUME NEW t \in Tasks, Interject(t) PROVE TakesGood
    BY <2>12 DEF Interject, sessionVars
  <2>13. ASSUME NEW t \in Tasks, NEW s \in Sessions, Mount(t, s) PROVE TakesGood
    <3> DEFINE h(to) == [hook[s] EXCEPT !.phase = to]
    <3>1. \A to \in Phases : h(to) \in HookState /\ h(to).future = hook[s].future
      BY DEF TypeOK, HookState
    <3>2. CASE Prefetch(t, s, "mount", "idle", h("mounted"))
      <4>1. PICK g \in HookState : g = h("mounted") /\ g.future = hook[s].future
        BY <3>1 DEF Phases
      <4> HIDE DEF h
      <4>2. Prefetch(t, s, "mount", "idle", g)
        BY <3>2, <4>1
      <4>3. QED
        BY <4>1, <4>2, PrefetchGood
    <3>3. CASE hook' = [hook EXCEPT ![s] = h("mounted")]
      BY <3>1, <3>3 DEF TypeOK, Phases
    <3>4. QED
      BY <2>13, <3>2, <3>3 DEF Mount
  <2>14. ASSUME NEW t \in Tasks, NEW s \in Sessions, SessionStart(t, s) PROVE TakesGood
    <3> DEFINE h(to) == [hook[s] EXCEPT !.phase = to]
    <3>1. \A to \in Phases : h(to) \in HookState /\ h(to).future = hook[s].future
      BY DEF TypeOK, HookState
    <3>2. CASE Prefetch(t, s, "start", "idle", h("armed"))
      <4>1. PICK g \in HookState : g = h("armed") /\ g.future = hook[s].future
        BY <3>1 DEF Phases
      <4> HIDE DEF h
      <4>2. Prefetch(t, s, "start", "idle", g)
        BY <3>2, <4>1
      <4>3. QED
        BY <4>1, <4>2, PrefetchGood
    <3>3. CASE hook' = [hook EXCEPT ![s] = h("unarmed")]
      BY <3>1, <3>3 DEF TypeOK, Phases
    <3>4. QED
      BY <2>14, <3>2, <3>3 DEF SessionStart
  <2>15. ASSUME NEW t \in Tasks, NEW s \in Sessions, NEW event \in {"prompt", "request", "side"}, OnDeliver(t, s, event) PROVE TakesGood
    <3>1. CASE Prefetch(t, s, event, "check", hook[s])
      <4>1. hook[s] \in HookState
        BY DEF TypeOK
      <4>2. QED
        BY <3>1, <4>1, PrefetchGood
    <3>2. CASE UNCHANGED hook
      BY <3>2
    <3>3. QED
      BY <2>15, <3>1, <3>2 DEF OnDeliver
  <2>16. CASE UNCHANGED vars
    BY <2>16 DEF vars
  <2>17. QED
    BY <2>1, <2>2, <2>3, <2>4, <2>5, <2>6, <2>7, <2>8, <2>9, <2>10,
       <2>11, <2>12, <2>13, <2>14, <2>15, <2>16 DEF Next, Fetching,
       Handler
<1>2. QED
  BY <1>1, TypeCorrect, PTL DEF Spec, NoBadReuse

-----------------------------------------------------------------------------
(* The hook whose filter has to know what a briefing showed: Interject     *)

\* What a handler decides is to skip, or to inject some of what passed.
LEMMA Decides ==
  ASSUME NEW h, NEW passed, NEW promoted, Decide(h, passed, promoted)
  PROVE  \/ Skip(h)
         \/ \E top \in SUBSET (passed \cup promoted) : Inject(h, top)
<1>1. \A top \in Top(passed, promoted) : Kept(h, top) \subseteq passed \cup promoted
  BY DEF Top, Kept
<1>2. QED
  BY <1>1 DEF Decide

\* The judge's wait changes nothing but the handler's own step.
LEMMA Retrieves ==
  ASSUME NEW h, Retrieve(h)
  PROVE  \/ \E high, band \in SUBSET {m \in Drawers : Eligible(m)} :
              /\ judge
              /\ sure' = [sure EXCEPT ![h] = high]
              /\ unsure' = [unsure EXCEPT ![h] = band]
              /\ Goto(h, "judge")
              /\ UNCHANGED <<hookVars, phase, historyVars>>
         \/ Skip(h)
         \/ \E top \in SUBSET {m \in Drawers : Eligible(m)} : Inject(h, top)
  BY Decides DEF Retrieve

\* Types, and in which phase a handler may be in flight.
THEOREM InjectorTypeCorrect == InjectSpec => []InjectTypeOK
<1> USE InterjectAssumption
<1>1. InjectInit => InjectTypeOK
  <2> SUFFICES ASSUME InjectInit PROVE InjectTypeOK
    OBVIOUS
  <2>1. turn \in 0 .. MaxTurns /\ -999 \in -999 .. MaxTurns
    BY DEF InjectInit
  <2>2. last \in [Drawers -> -999 .. MaxTurns]
    BY <2>1 DEF InjectInit
  <2>3. /\ pc \in [Handlers -> {"idle", "search", "judge"}]
        /\ sure \in [Handlers -> SUBSET Drawers]
        /\ unsure \in [Handlers -> SUBSET Drawers]
    BY DEF InjectInit
  <2>4. \A h \in Handlers : pc[h] = "idle"
    BY DEF InjectInit
  <2>5. (pc[Main] # "idle" <=> phase \in {"prompt", "complete"})
        /\ \A t \in Tools : pc[t] # "idle" => phase = "run"
    BY <2>4 DEF InjectInit, Handlers
  <2>6. /\ judge \in BOOLEAN /\ guard \in BOOLEAN /\ briefedIds \subseteq Drawers
        /\ phase \in {"idle", "prompt", "run", "complete"}
        /\ streak \in Nat /\ repeated \subseteq Drawers
    BY DEF InjectInit
  <2>7. QED
    BY <2>1, <2>2, <2>3, <2>5, <2>6 DEF InjectTypeOK
<1>2. InjectTypeOK /\ [InjectNext]_injectVars => InjectTypeOK'
  <2> SUFFICES ASSUME InjectTypeOK, [InjectNext]_injectVars PROVE InjectTypeOK'
    OBVIOUS
  <2> USE DEF InjectTypeOK, Handlers, hookVars, handlerVars,
              historyVars, Goto
  <2>1. ASSUME NEW h \in Handlers, pc[h] # "idle", Skip(h) PROVE InjectTypeOK'
    BY <2>1 DEF Skip, Leave
  <2>2. ASSUME NEW h \in Handlers, pc[h] # "idle",
               NEW top \in SUBSET Drawers, Inject(h, top)
        PROVE  InjectTypeOK'
    <3>1. last' \in [Drawers -> -999 .. MaxTurns]
      BY <2>2 DEF Inject, Stamp
    <3>2. guard' \in BOOLEAN
      BY <2>2 DEF Inject, ByMain
    <3>3. /\ pc' = [pc EXCEPT ![h] = "idle"]
          /\ \/ h # Main /\ phase' = phase
             \/ h = Main /\ phase' \in {"idle", "run"} /\ phase \in {"prompt", "complete"}
      BY <2>2 DEF Inject, Leave
    <3>4. pc' \in [Handlers -> {"idle", "search", "judge"}]
      BY <3>3
    <3>5. /\ phase' \in {"idle", "prompt", "run", "complete"}
          /\ pc'[Main] # "idle" <=> phase' \in {"prompt", "complete"}
          /\ \A t \in Tools : pc'[t] # "idle" => phase' = "run"
      BY <3>3
    <3>6. sure' \in [Handlers -> SUBSET Drawers] /\ unsure' \in [Handlers -> SUBSET Drawers]
      BY <2>2 DEF Inject, Leave
    <3>7. /\ streak' \in Nat /\ repeated' \subseteq Drawers
          /\ judge' \in BOOLEAN /\ turn' \in 0 .. MaxTurns /\ briefedIds' \subseteq Drawers
      BY <2>2 DEF Inject
    <3>8. QED
      BY <3>1, <3>2, <3>4, <3>5, <3>6, <3>7
  <2>3. CASE PromptSubmit
    <3>1. turn' \in 0 .. MaxTurns /\ last' \in [Drawers -> -999 .. MaxTurns]
      BY <2>3 DEF PromptSubmit
    <3>2. /\ pc' \in [Handlers -> {"idle", "search", "judge"}]
          /\ pc'[Main] # "idle" /\ phase' = "prompt"
          /\ \A t \in Tools : pc'[t] = "idle"
      BY <2>3 DEF PromptSubmit
    <3>3. QED
      BY <2>3, <3>1, <3>2 DEF PromptSubmit
  <2>4. CASE PromptSkipped
    BY <2>4 DEF PromptSkipped
  <2>5. CASE CompleteGuarded
    <3>1. turn' \in 0 .. MaxTurns /\ last' \in [Drawers -> -999 .. MaxTurns]
      BY <2>5 DEF CompleteGuarded, Complete
    <3>2. phase = "run" /\ phase' \in {"idle", "run"} /\ pc' = pc
      BY <2>5 DEF CompleteGuarded, Complete
    <3>3. \A t \in Tools : pc'[t] = "idle"
      BY <2>5 DEF CompleteGuarded, Complete
    <3>4. guard' \in BOOLEAN /\ streak' \in Nat
      <4>1. guard' = FALSE /\ streak' = 0
        BY <2>5 DEF CompleteGuarded
      <4>2. QED
        BY <4>1
    <3>5. /\ briefedIds' \subseteq Drawers /\ repeated' \subseteq Drawers
          /\ judge' \in BOOLEAN
          /\ sure' \in [Handlers -> SUBSET Drawers]
          /\ unsure' \in [Handlers -> SUBSET Drawers]
      BY <2>5 DEF CompleteGuarded, Complete
    <3>6. pc' \in [Handlers -> {"idle", "search", "judge"}]
      BY <3>2
    <3>7. pc'[Main] = "idle"
      BY <3>2
    <3>8. QED
      BY <3>1, <3>2, <3>3, <3>4, <3>5, <3>6, <3>7
  <2>6. CASE CompleteSkipped
    BY <2>6 DEF CompleteSkipped, Complete
  <2>7. CASE CompleteSearch
    BY <2>7 DEF CompleteSearch, Complete
  <2>8. ASSUME NEW t \in Tools, ToolPre(t) PROVE InjectTypeOK'
    BY <2>8 DEF ToolPre
  <2>9. ASSUME NEW h \in Handlers, Retrieve(h) PROVE InjectTypeOK'
    <3>1. pc[h] # "idle"
      BY <2>9 DEF Retrieve
    <3>2. CASE \E high, band \in SUBSET {m \in Drawers : Eligible(m)} :
                 /\ judge
                 /\ sure' = [sure EXCEPT ![h] = high]
                 /\ unsure' = [unsure EXCEPT ![h] = band]
                 /\ Goto(h, "judge")
                 /\ UNCHANGED <<hookVars, phase, historyVars>>
      BY <3>1, <3>2
    <3>3. QED
      BY <2>1, <2>2, <2>9, <3>1, <3>2, Retrieves
  <2>10. ASSUME NEW h \in Handlers, Judged(h) PROVE InjectTypeOK'
    <3>1. PICK promoted \in SUBSET unsure[h] : Decide(h, sure[h], promoted)
      BY <2>10 DEF Judged
    <3>2. sure[h] \cup promoted \subseteq Drawers /\ pc[h] # "idle"
      BY <2>10 DEF Judged
    <3>3. QED
      BY <2>1, <2>2, <3>1, <3>2, Decides
  <2>11. ASSUME NEW m \in Drawers, BriefingAssembled({m}) PROVE InjectTypeOK'
    BY <2>11 DEF BriefingAssembled
  <2>12. CASE UNCHANGED injectVars
    BY <2>12 DEF injectVars
  <2>13. QED
    BY <2>3, <2>4, <2>5, <2>6, <2>7, <2>8, <2>9, <2>10, <2>11, <2>12 DEF InjectNext
<1>3. QED
  BY <1>1, <1>2, PTL DEF InjectSpec

\* The guard breaks every chain of injections: the hook cannot keep a session
\* running by injecting at each orchestrator:complete.
THEOREM NoLoops == InjectSpec => []NoInjectionLoop
<1> USE InterjectAssumption
<1>1. InjectInit => LoopInv
  BY DEF InjectInit, LoopInv
<1>2. InjectTypeOK /\ LoopInv /\ [InjectNext]_injectVars => LoopInv'
  <2> SUFFICES ASSUME InjectTypeOK, LoopInv, [InjectNext]_injectVars
               PROVE  LoopInv'
    OBVIOUS
  <2> USE DEF LoopInv, hookVars, handlerVars, historyVars
  <2>1. ASSUME NEW h \in Handlers, pc[h] # "idle", Skip(h) PROVE LoopInv'
    BY <2>1 DEF Skip, Leave
  <2>2. ASSUME NEW h \in Handlers, pc[h] # "idle", NEW top, Inject(h, top)
        PROVE  LoopInv'
    <3>1. CASE h = Main
      <4>1. streak = 0 /\ phase \in {"prompt", "complete"}
        BY <2>2, <3>1 DEF InjectTypeOK
      <4>2. guard'
        BY <2>2, <3>1 DEF Inject, ByMain
      <4>3. QED
        BY <2>2, <3>1, <4>1, <4>2 DEF Inject, Leave
    <3>2. CASE h # Main
      <4>1. guard => guard'
        BY <2>2 DEF Inject
      <4>2. QED
        BY <2>2, <3>2, <4>1 DEF Inject, Leave
    <3>3. QED
      BY <3>1, <3>2
  <2>3. CASE PromptSubmit
    BY <2>3 DEF PromptSubmit
  <2>4. CASE PromptSkipped
    BY <2>4 DEF PromptSkipped
  <2>5. CASE CompleteGuarded
    BY <2>5 DEF CompleteGuarded
  <2>6. CASE CompleteSkipped
    BY <2>6 DEF CompleteSkipped, Complete
  <2>7. CASE CompleteSearch
    BY <2>7 DEF CompleteSearch, Complete
  <2>8. ASSUME NEW t \in Tools, ToolPre(t) PROVE LoopInv'
    BY <2>8 DEF ToolPre
  <2>9. ASSUME NEW h \in Handlers, Retrieve(h) PROVE LoopInv'
    <3>1. pc[h] # "idle"
      BY <2>9 DEF Retrieve
    <3>2. QED
      BY <2>1, <2>2, <2>9, <3>1, Retrieves
  <2>10. ASSUME NEW h \in Handlers, Judged(h) PROVE LoopInv'
    BY <2>1, <2>2, <2>10, Decides DEF Judged
  <2>11. ASSUME NEW m \in Drawers, BriefingAssembled({m}) PROVE LoopInv'
    BY <2>11 DEF BriefingAssembled
  <2>12. CASE UNCHANGED injectVars
    BY <2>12 DEF injectVars
  <2>13. QED
    BY <2>3, <2>4, <2>5, <2>6, <2>7, <2>8, <2>9, <2>10, <2>11, <2>12 DEF InjectNext
<1>3. LoopInv => NoInjectionLoop
  BY DEF LoopInv, NoInjectionLoop
<1>4. QED
  BY <1>1, <1>2, <1>3, InjectorTypeCorrect, PTL DEF InjectSpec

\* Without the judge, however many tool calls retrieve at the same time, what
\* is injected is neither briefed nor on cooldown.
THEOREM CooldownHolds == InjectSpec => []NoRepeat
<1> USE InterjectAssumption
<1>1. InjectInit => JudgeInv
  BY DEF InjectInit, JudgeInv
<1>2. InjectTypeOK /\ JudgeInv /\ [InjectNext]_injectVars => JudgeInv'
  <2> SUFFICES ASSUME InjectTypeOK, JudgeInv, [InjectNext]_injectVars
               PROVE  JudgeInv'
    OBVIOUS
  <2> USE DEF InjectTypeOK, JudgeInv, hookVars, handlerVars,
              historyVars, Goto
  <2>1. ASSUME NEW h \in Handlers, Skip(h) PROVE JudgeInv'
    BY <2>1 DEF Skip, Leave
  <2>2. ASSUME NEW h \in Handlers,
               NEW top \in SUBSET {m \in Drawers : Eligible(m)}, Inject(h, top)
        PROVE  JudgeInv'
    <3>1. repeated' = repeated
      BY <2>2 DEF Inject, Eligible, OnCooldown
    <3>2. QED
      BY <2>2, <3>1 DEF Inject, Leave
  <2>3. CASE PromptSubmit
    BY <2>3 DEF PromptSubmit
  <2>4. CASE PromptSkipped
    BY <2>4 DEF PromptSkipped
  <2>5. CASE CompleteGuarded
    BY <2>5 DEF CompleteGuarded, Complete
  <2>6. CASE CompleteSkipped
    BY <2>6 DEF CompleteSkipped, Complete
  <2>7. CASE CompleteSearch
    BY <2>7 DEF CompleteSearch, Complete
  <2>8. ASSUME NEW t \in Tools, ToolPre(t) PROVE JudgeInv'
    BY <2>8 DEF ToolPre, Handlers
  <2>9. ASSUME NEW h \in Handlers, Retrieve(h) PROVE JudgeInv'
    BY <2>1, <2>2, <2>9, Retrieves
  <2>10. ASSUME NEW h \in Handlers, Judged(h) PROVE JudgeInv'
    <3>1. judge
      BY <2>10 DEF Judged
    <3>2. Skip(h) \/ \E top : Inject(h, top)
      BY <2>10, Decides DEF Judged
    <3>3. judge'
      BY <3>1, <3>2 DEF Skip, Inject
    <3>4. QED
      BY <3>3
  <2>11. ASSUME NEW m \in Drawers, BriefingAssembled({m}) PROVE JudgeInv'
    BY <2>11 DEF BriefingAssembled
  <2>12. CASE UNCHANGED injectVars
    BY <2>12 DEF injectVars
  <2> HIDE DEF InjectTypeOK, JudgeInv, hookVars, handlerVars, historyVars, Goto
  <2>13. QED
    BY <2>3, <2>4, <2>5, <2>6, <2>7, <2>8, <2>9, <2>10, <2>11, <2>12 DEF InjectNext
<1>3. JudgeInv => NoRepeat
  BY DEF JudgeInv, NoRepeat
<1>4. QED
  BY <1>1, <1>2, <1>3, InjectorTypeCorrect, PTL DEF InjectSpec
============================================================================
