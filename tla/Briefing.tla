------------------------------ MODULE Briefing ------------------------------
(***************************************************************************)
(* hooks-memory-briefing: the memory lookups of a session's briefing run   *)
(* on daemon threads, started when the hook is mounted and shared between  *)
(* the sessions of the process through a cache; the result is injected at  *)
(* the first delivery event that finds it ready.                           *)
(*                                                                         *)
(* A task is a coroutine or thread of the host that runs one hook of one   *)
(* session.  The lock of the cache is dropped between the look-up and the  *)
(* store, and the first prompt polls for the result: between any two such  *)
(* steps the other tasks and the fetches go on.  Of hooks-memory-interject *)
(* the part that must agree with the briefing is modelled: its handler of  *)
(* prompt:submit, which runs next, and the listener that tells it what was *)
(* briefed.  Which sections fit in the token budget is left out: the first *)
(* one that a look-up found always does.                                   *)
(***************************************************************************)
EXTENDS Naturals, FiniteSets

CONSTANTS
  Sessions,     \* sessions of the process, one hook instance each
  Roles,        \* the assignments of AllRoles to sessions in this instance
  Tasks,        \* hooks that may run at the same time
  Fetches,      \* prefetch jobs (bound: how many may be started)
  Lookups,      \* the daemon calls of a fetch that config includes
  Search,       \* the one that returns drawers
  Memories,     \* drawers
  EmitEvents,   \* config emit_events
  None

AllRoles == {"root", "sub", "optout"}

ASSUME BriefingAssumption ==
  /\ Roles \subseteq [Sessions -> AllRoles]
  /\ EmitEvents \in BOOLEAN
  /\ Search \in Lookups /\ None \notin Fetches \cup Sessions

VARIABLES
  role,       \* [Sessions -> role], fixed
  cache,      \* _PREFETCH_CACHE of the key: {} or {[fetch, fresh]}
  st,         \* [Fetches -> "unused", "ensure", "fetch", or the outcome]
  look,       \* [Fetches -> [Lookups -> state of the call]]
  noisy,      \* fetches for which _CALL_FAILURES # failures_before
  hits,       \* [Fetches -> drawers of results_after_rerank]
  found,      \* fetches whose part has sections
  complete,   \* fetches with complete set
  hook,       \* [Sessions -> fields of the hook instance]
  task,       \* [Tasks -> the event it handles, and where it is]
  briefed,    \* [Sessions -> _briefed_ids of the interject hook]
  interjected, \* [Sessions -> drawers the interject hook has injected]
  injected,   \* history: [Sessions -> briefings that reached the model]
  overlapped, \* history: sessions with two deliveries at the same time
  failed      \* history: fetches of which a _call_client failed

fetchVars   == <<st, look, noisy, hits, found, complete, failed>>
sessionVars == <<briefed, interjected, injected, overlapped>>
vars == <<role, cache, fetchVars, hook, task, sessionVars>>

Outcomes == {"ok", "unavailable", "exception"}
Done(f) == st[f] \in Outcomes
Idle == [s |-> None, event |-> "none", at |-> "idle"]
NoCalls == [l \in Lookups |-> "none"]

Init ==
  /\ role \in Roles
  /\ cache = {}
  /\ st = [f \in Fetches |-> "unused"] /\ look = [f \in Fetches |-> NoCalls]
  /\ hits = [f \in Fetches |-> {}]
  /\ noisy = {} /\ found = {} /\ complete = {} /\ failed = {}
  /\ hook = [s \in Sessions |-> [phase |-> "none", delivered |-> FALSE,
                                 deferred |-> FALSE, future |-> None]]
  /\ task = [t \in Tasks |-> Idle]
  /\ briefed = [s \in Sessions |-> {}] /\ interjected = [s \in Sessions |-> {}]
  /\ injected = [s \in Sessions |-> 0] /\ overlapped = {}

-----------------------------------------------------------------------------
(* The fetch: _prefetch_job, _fetch_memory_part and the section look-ups    *)

Call(f, l, to) ==
  /\ look[f][l] = "run"
  /\ look' = [look EXCEPT ![f][l] = to]

\* No daemon: nothing is looked up.  Otherwise the counter is read, and the
\* look-ups start, each on a thread of its own.
Ensure(f) ==
  /\ st[f] = "ensure"
  /\ \/ st' = [st EXCEPT ![f] = "unavailable"] /\ UNCHANGED look
     \/ /\ st' = [st EXCEPT ![f] = "fetch"]
        /\ look' = [look EXCEPT ![f] = [l \in Lookups |-> "run"]]
  /\ UNCHANGED <<role, cache, noisy, hits, found, complete, failed, hook, task,
                 sessionVars>>

\* The answer: nothing, or a section.  A search section lists its drawers;
\* with an older daemon the importance of some is looked up one by one, and a
\* failure of that reads as 0.5 and is not counted.
LookupReturns(f, l) ==
  /\ \E answer \in {"empty", "section"} :
       /\ Call(f, l, answer)
       /\ hits' \in IF l = Search /\ answer = "section"
                    THEN {[hits EXCEPT ![f] = ids] : ids \in (SUBSET Memories) \ {{}}}
                    ELSE {hits}
  /\ UNCHANGED <<role, cache, st, noisy, found, complete, failed, hook, task,
                 sessionVars>>

\* _call_client: a failure counts against every fetch under way, and reads as
\* nothing to show.
NotCounted(f) == noisy                  \* mutant: the failure is swallowed
Counted(f) == noisy \cup {g \in Fetches : st[g] = "fetch"}

LookupFails(f, l) ==
  /\ Call(f, l, "failed")
  /\ noisy' = Counted(f)
  /\ failed' = failed \cup {f}
  /\ UNCHANGED <<role, cache, st, hits, found, complete, hook, task, sessionVars>>

\* The section code raises on an answer it cannot read.
LookupRaises(f, l) ==
  /\ Call(f, l, "raised")
  /\ UNCHANGED <<role, cache, st, noisy, hits, found, complete, failed, hook, task,
                 sessionVars>>

FetchDone(f) ==
  /\ st[f] = "fetch"
  /\ \A l \in Lookups : look[f][l] # "run"
  /\ LET Some(what) == \E l \in Lookups : look[f][l] = what IN
     /\ st' = [st EXCEPT ![f] = IF Some("raised") THEN "exception" ELSE "ok"]
     /\ found' = IF Some("section") THEN found \cup {f} ELSE found
     /\ complete' = IF Some("raised") \/ f \in noisy THEN complete ELSE complete \cup {f}
  /\ look' = [look EXCEPT ![f] = NoCalls]
  /\ UNCHANGED <<role, cache, noisy, hits, failed, hook, task, sessionVars>>

-----------------------------------------------------------------------------
(* prefetch() and _start_prefetch                                          *)

At(t, s, event, at) ==
  task' = [task EXCEPT ![t] =
             IF at = "idle" THEN Idle ELSE [s |-> s, event |-> event, at |-> at]]
Hook(s, field, value) == hook' = [hook EXCEPT ![s][field] = value]

BadlyDone(f) == Done(f) /\ f \notin complete
Reusable == {e.fetch : e \in {x \in cache : x.fresh /\ ~BadlyDone(x.fetch)}}

\* Up to the first release of the cache's lock: the hook keeps the future it
\* has, or takes the cached one, or goes on to start a fetch.  An exception
\* anywhere leaves it without one.  then is where the caller goes on.
Prefetch(t, s, event, then, h) ==
  \/ /\ h.future # None
     /\ hook' = [hook EXCEPT ![s] = h]
     /\ At(t, s, event, then)
  \/ /\ h.future = None
     /\ \E f \in Reusable \cup {None} : hook' = [hook EXCEPT ![s] = [h EXCEPT !.future = f]]
     /\ At(t, s, event, then)
  \/ /\ h.future = None /\ Reusable = {}
     /\ hook' = [hook EXCEPT ![s] = h]
     /\ At(t, s, event, "miss")

Stored(f) == {[fetch |-> f, fresh |-> TRUE]}

\* The cache missed: start the job, then store it, whatever is there by now.
StartFetch(t) ==
  LET s == task[t].s IN
  /\ task[t].at = "miss"
  /\ \E f \in Fetches :
       /\ st[f] = "unused"
       /\ st' = [st EXCEPT ![f] = "ensure"]
       /\ cache' = Stored(f)
       /\ Hook(s, "future", f)
  /\ At(t, s, task[t].event,
        IF task[t].event \in {"mount", "start"} THEN "idle" ELSE "check")
  /\ UNCHANGED <<role, look, noisy, hits, found, complete, failed, sessionVars>>

\* cache_ttl_s passes.
Expire ==
  /\ \E e \in cache : e.fresh
  /\ cache' = {[e EXCEPT !.fresh = FALSE] : e \in cache}
  /\ UNCHANGED <<role, fetchVars, hook, task, sessionVars>>

-----------------------------------------------------------------------------
(* The events                                                              *)

OptsOut(s) == role[s] = "optout"
Never(s) == FALSE                       \* mutant: mount forgets the opt-out
SkipsAtMount(s) == OptsOut(s)

Mount(t, s) ==
  /\ task[t].at = "idle" /\ hook[s].phase = "none"
  /\ LET h == [hook[s] EXCEPT !.phase = "mounted"] IN
     \/ SkipsAtMount(s) /\ hook' = [hook EXCEPT ![s] = h] /\ UNCHANGED task
     \/ ~SkipsAtMount(s) /\ Prefetch(t, s, "mount", "idle", h)
  /\ UNCHANGED <<role, cache, fetchVars, sessionVars>>

Working(s) == \E t \in Tasks : task[t].s = s

\* session:start: a root session that has not opted out is armed.
SessionStart(t, s) ==
  /\ task[t].at = "idle" /\ hook[s].phase = "mounted" /\ ~Working(s)
  /\ LET h(to) == [hook[s] EXCEPT !.phase = to] IN
     \/ role[s] # "root" /\ hook' = [hook EXCEPT ![s] = h("unarmed")] /\ UNCHANGED task
     \/ role[s] = "root" /\ Prefetch(t, s, "start", "idle", h("armed"))
  /\ UNCHANGED <<role, cache, fetchVars, sessionVars>>

NoSideCalls == {}                       \* mutant: iteration 0 is like any other
SideCalls == {"side"}

\* Where the event goes on: hooks-memory-interject follows on prompt:submit.
Onward(event) == IF event = "prompt" THEN "interject" ELSE "idle"

\* on_deliver up to its first await: "side" is a provider:request of iteration
\* 0, whose injection the orchestrator drops.
OnDeliver(t, s, event) ==
  /\ task[t].at = "idle" /\ hook[s].phase = "armed"
  /\ \A u \in Tasks : task[u].s = s => task[u].event # "start"
  /\ \/ /\ hook[s].delivered \/ event \in SideCalls
        /\ event = "prompt"
        /\ At(t, s, event, "interject")
        /\ UNCHANGED <<hook, overlapped>>
     \/ /\ ~hook[s].delivered /\ event \notin SideCalls
        /\ Prefetch(t, s, event, "check", hook[s])
        /\ overlapped' = IF Working(s) THEN overlapped \cup {s} ELSE overlapped
  /\ UNCHANGED <<role, cache, fetchVars, briefed, interjected, injected>>

\* _assemble_briefing adds the coordination files, where there are any; without
\* a daemon there are only these.
HasContent(f, files) == st[f] # "exception" /\ (files \/ f \in found)

WhenOk(f) == st[f] = "ok"               \* mutant: only a full briefing counts
Delivered(f) == Done(f)

\* The result is ready: mark the session delivered, then inject what there is
\* and tell the other hooks.
Deliver(t) ==
  LET s == task[t].s
      f == hook[s].future IN
  /\ task[t].at \in {"check", "wait"}
  /\ f # None /\ Done(f)
  /\ Hook(s, "delivered", Delivered(f))
  /\ \E files \in BOOLEAN :
       LET inject == HasContent(f, files) IN
       /\ injected' = [injected EXCEPT ![s] =
            IF inject /\ task[t].event # "side" THEN @ + 1 ELSE @]
       /\ briefed' = [briefed EXCEPT ![s] =
            IF inject /\ EmitEvents /\ st[f] = "ok" THEN @ \cup hits[f] ELSE @]
  /\ At(t, s, task[t].event, Onward(task[t].event))
  /\ UNCHANGED <<role, cache, fetchVars, interjected, overlapped>>

\* There is no future: nothing will be delivered.
NoFuture(t) ==
  LET s == task[t].s IN
  /\ task[t].at = "check" /\ hook[s].future = None
  /\ Hook(s, "delivered", TRUE)
  /\ At(t, s, task[t].event, Onward(task[t].event))
  /\ UNCHANGED <<role, cache, fetchVars, sessionVars>>

\* Only the first prompt polls for the result, up to deliver_wait_s.
Waits(t) == task[t].event = "prompt" /\ ~hook[task[t].s].deferred

StartWait(t) ==
  LET s == task[t].s IN
  /\ task[t].at = "check" /\ hook[s].future # None /\ ~Done(hook[s].future)
  /\ Waits(t)
  /\ At(t, s, task[t].event, "wait")
  /\ UNCHANGED <<role, cache, fetchVars, hook, sessionVars>>

\* Not ready: the event goes on without the briefing.
Defer(t) ==
  LET s == task[t].s IN
  /\ task[t].at \in {"check", "wait"}
  /\ hook[s].future # None /\ ~Done(hook[s].future)
  /\ task[t].at = "wait" \/ ~Waits(t)
  /\ Hook(s, "deferred", TRUE)
  /\ At(t, s, task[t].event, Onward(task[t].event))
  /\ UNCHANGED <<role, cache, fetchVars, sessionVars>>

Anything(s) == Memories                 \* mutant: the briefed ids are not looked at
Fresh(s) == Memories \ briefed[s]

\* hooks-memory-interject searches, and injects a drawer that was not briefed.
Interject(t) ==
  LET s == task[t].s IN
  /\ task[t].at = "interject"
  /\ \E ids \in {{}} \cup {{m} : m \in Fresh(s)} :
       interjected' = [interjected EXCEPT ![s] = @ \cup ids]
  /\ At(t, s, "none", "idle")
  /\ UNCHANGED <<role, cache, fetchVars, hook, briefed, injected, overlapped>>

Fetching ==
  \E f \in Fetches :
    \/ Ensure(f) \/ FetchDone(f)
    \/ \E l \in Lookups : LookupReturns(f, l) \/ LookupFails(f, l) \/ LookupRaises(f, l)

Handler(t) ==
  StartFetch(t) \/ Deliver(t) \/ NoFuture(t) \/ StartWait(t) \/ Defer(t) \/ Interject(t)

Next ==
  \/ Fetching \/ Expire
  \/ \E t \in Tasks :
       \/ Handler(t)
       \/ \E s \in Sessions :
            \/ Mount(t, s) \/ SessionStart(t, s)
            \/ \E event \in {"prompt", "request", "side"} : OnDeliver(t, s, event)

Spec == Init /\ [][Next]_vars

-----------------------------------------------------------------------------
(* Properties                                                              *)

Phases == {"none", "mounted", "unarmed", "armed"}
Events == {"none", "mount", "start", "prompt", "request", "side"}
HookState == [phase : Phases, delivered : BOOLEAN, deferred : BOOLEAN,
              future : Fetches \cup {None}]
TaskState == [s : Sessions \cup {None}, event : Events,
              at : {"idle", "miss", "check", "wait", "interject"}]

CacheOK ==
  /\ cache \subseteq [fetch : Fetches, fresh : BOOLEAN]
  /\ \A d, e \in cache : d = e
FetchesOK ==
  /\ st \in [Fetches -> Outcomes \cup {"unused", "ensure", "fetch"}]
  /\ look \in [Fetches -> [Lookups -> {"none", "run", "empty", "section", "failed", "raised"}]]
  /\ hits \in [Fetches -> SUBSET Memories]
  /\ noisy \subseteq Fetches /\ found \subseteq Fetches
  /\ complete \subseteq Fetches /\ failed \subseteq Fetches
SessionsOK ==
  /\ role \in [Sessions -> AllRoles] /\ overlapped \subseteq Sessions
  /\ injected \in [Sessions -> Nat]
  /\ briefed \in [Sessions -> SUBSET Memories]
  /\ interjected \in [Sessions -> SUBSET Memories]
TasksOK ==
  /\ task \in [Tasks -> TaskState]
  /\ \A t \in Tasks : task[t].at # "idle" => task[t].s \in Sessions

\* The variables keep their types; the cache has one entry for its key; a task
\* under way belongs to a session.
TypeOK == CacheOK /\ FetchesOK /\ SessionsOK /\ TasksOK /\ hook \in [Sessions -> HookState]

\* "False when any lookup failed": a fetch that counts as complete had an answer
\* to each of its calls, although the counter is shared by all fetches of the
\* process and read without its lock.
CompleteIsTrue == complete \cap failed = {}

TakesGood ==
  \A s \in Sessions :
    LET f == hook'[s].future IN f # None /\ f # hook[s].future => ~BadlyDone(f)

\* "never reused": a session never takes over a fetch that had failed, lost a
\* look-up, or found no daemon by then.
NoBadReuse == [][TakesGood]_vars

\* "once per session": one delivery, unless two prompts of the session overlap.
BriefedOnce == \A s \in Sessions \ overlapped : injected[s] <= 1

\* A session that is marked delivered got what its fetch found: no internal side
\* call and no failed readiness check uses the one delivery up.
DeliveredMeansSeen ==
  \A s \in Sessions \ overlapped :
    hook[s].delivered /\ hook[s].future # None =>
      (st[hook[s].future] = "ok" /\ hook[s].future \in found => injected[s] > 0)

\* "no prefetch, no daemon contact, nothing": at mount and at session:start.
OptOutIsSilent ==
  \A s \in Sessions : role[s] = "optout" => hook[s].future = None /\ injected[s] = 0

\* "populates interject's already-briefed ids before it searches": no drawer is
\* shown twice, unless the briefing was deferred past a prompt, or events are off.
Shown(s) == IF injected[s] > 0 /\ st[hook[s].future] = "ok"
            THEN hits[hook[s].future] ELSE {}
NotTwice ==
  \A s \in Sessions \ overlapped :
    EmitEvents /\ ~hook[s].deferred => Shown(s) \cap interjected[s] = {}

\* Why CompleteIsTrue holds: the failure of a call is counted while its own
\* fetch is under way, and a fetch judges itself only when all calls are back.
CompleteInv ==
  /\ failed \subseteq noisy
  /\ \A f \in Fetches : (\E l \in Lookups : look[f][l] = "run") => st[f] = "fetch"
  /\ \A f \in complete : Done(f) /\ f \notin failed

\* Why OptOutIsSilent holds: nothing is ever under way for such a session.
OptOutInv ==
  /\ \A t \in Tasks : task[t].at # "idle" => role[task[t].s] # "optout"
  /\ \A s \in Sessions : role[s] = "optout" =>
       hook[s].phase # "armed" /\ hook[s].future = None /\ injected[s] = 0

\* Why BriefedOnce holds: without an overlap one task at most is on its way to a
\* delivery, and none is after it.
Pending(t, s) ==
  /\ task[t].s = s /\ task[t].at \in {"miss", "check", "wait"}
  /\ task[t].event \notin {"mount", "start"}
OnceInv ==
  /\ \A t \in Tasks : task[t].at \in {"check", "wait"} =>
       task[t].event \notin {"mount", "start"}
  /\ \A s \in Sessions \ overlapped :
       /\ \A t, u \in Tasks : Pending(t, s) /\ Pending(u, s) => t = u
       /\ injected[s] > 0 =>
            injected[s] = 1 /\ hook[s].delivered /\ \A t \in Tasks : ~Pending(t, s)

\* Why DeliveredMeansSeen and NotTwice hold.  A mount and a session:start have the
\* session to themselves, and what waits for a briefing is never a side call.
Setup(t) == task[t].event \in {"mount", "start"}
SetupInv ==
  /\ \A t \in Tasks :
       LET h == hook[task[t].s] IN
       IF task[t].at = "idle" THEN task[t] = Idle
       ELSE /\ task[t].event # "side"
            /\ h.phase = IF task[t].event = "mount" THEN "mounted" ELSE "armed"
            /\ Setup(t) => /\ task[t].at = "miss" /\ ~h.delivered
                           /\ \A u \in Tasks : task[u].s = task[t].s => u = t
  /\ \A s \in Sessions :
       /\ hook[s].phase = "none" => ~Working(s)
       /\ hook[s].delivered => hook[s].phase = "armed"

\* The interject hook gets no prompt before the briefing is delivered or deferred.
EarlyInv ==
  \A s \in Sessions : ~hook[s].deferred /\ ~hook[s].delivered =>
    /\ interjected[s] = {}
    /\ \A t \in Tasks : task[t].s = s => task[t].at # "interject"

\* A delivery settles which fetch the session was briefed from; it was over by
\* then, and the interject hook knows its drawers.
Seen(s) ==
  LET f == hook[s].future IN
  /\ hook[s].delivered => \A t \in Tasks : ~Pending(t, s)
  /\ hook[s].delivered /\ f # None =>
       Done(f) /\ (st[f] = "ok" /\ f \in found => injected[s] > 0)
  /\ injected[s] > 0 =>
       /\ hook[s].delivered /\ f # None
       /\ EmitEvents /\ st[f] = "ok" => hits[f] \subseteq briefed[s]
  /\ EmitEvents /\ ~hook[s].deferred => Shown(s) \cap interjected[s] = {}
SeenInv == \A s \in Sessions \ overlapped : Seen(s)
=============================================================================
