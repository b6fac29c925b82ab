---------------------------- MODULE FoldSnapshot ----------------------------
(***************************************************************************)
(* The short-lived fold cache of NativeMemoryStore: _fold_snapshot and its *)
(* helpers in store.py, called by every request thread of the memory       *)
(* daemon and by the start-up warm-up thread, against appends that run at  *)
(* the same time.  Each action is one critical section of _snapshot_lock,  *)
(* or one call that runs outside it.                                       *)
(*                                                                         *)
(* A slot that may hold None is a set with at most one element.  A fold is *)
(* [len |-> how many events it covers, by |-> the thread that built it].   *)
(* Time is relative: ages count ticks and stay at TTL once they reach it.  *)
(***************************************************************************)
EXTENDS Integers

CONSTANTS
  Readers,     \* request threads that call _fold_snapshot
  Appenders,   \* request threads that append to the kernel
  TTL,         \* SNAPSHOT_REUSE_S, in ticks
  MaxLog,      \* bound: appends in one behaviour
  Observable   \* whether the kernel offers subscribe()

ASSUME FoldAssumption ==
  /\ TTL \in Nat \ {0}
  /\ MaxLog \in Nat
  /\ Observable \in BOOLEAN

VARIABLES
  log,         \* kernel: number of committed events (all_events())
  acked,       \* position of the last event whose append returned
  apos,        \* [Appenders -> Nat]: committed, observers not yet run; 0 = none
  subs,        \* how many times _observer was subscribed
  generation,  \* _generation
  snapshot,    \* _snapshot: {} or {[gen, age, fold]}
  building,    \* _building: {} or {[gen, by]}; the Event is named by its owner
  prior,       \* _prior_fold
  lastBuild,   \* ticks since _last_build_at; {} while it is 0.0
  timer,       \* _expiry_timer: {} or {ticks left}
  expiring,    \* delays of timer callbacks that still have to re-arm
  pc,          \* [Readers -> step of _fold_snapshot]
  gen,         \* local generation
  event,       \* local done: {} or {the owner whose Event this call holds}
  since,       \* ticks since the local now
  fold,        \* local fold: {} until built, and when the build raised
  need         \* history: acked when the read was called

logVars    == <<log, acked, apos, subs>>
cacheVars  == <<generation, snapshot, building, prior>>
timerVars  == <<lastBuild, timer, expiring>>
readerVars == <<pc, gen, event, since, fold, need>>
vars       == <<logVars, cacheVars, timerVars, readerVars>>

Goto(r, to) == pc' = [pc EXCEPT ![r] = to]
Owner(r)    == r \in event[r]
Building(r) == Owner(r) /\ pc[r] \in {"build", "prior", "arm", "publish", "finally"}
Older(age)  == IF age < TTL THEN age + 1 ELSE TTL

Init ==
  /\ log = 0 /\ acked = 0 /\ subs = 0 /\ generation = 0
  /\ apos = [a \in Appenders |-> 0]
  /\ snapshot = {} /\ building = {} /\ prior = {}
  /\ lastBuild = {} /\ timer = {} /\ expiring = {}
  /\ pc = [r \in Readers |-> "idle"]
  /\ gen = [r \in Readers |-> 0]
  /\ event = [r \in Readers |-> {}]
  /\ since = [r \in Readers |-> 0]
  /\ fold = [r \in Readers |-> {}]
  /\ need = [r \in Readers |-> 0]

-----------------------------------------------------------------------------
(* Appends: the kernel commits, then runs its observers, then returns.     *)

Append(a) ==
  /\ apos[a] = 0
  /\ log < MaxLog
  /\ log' = log + 1
  /\ apos' = [apos EXCEPT ![a] = log + 1]
  /\ UNCHANGED <<acked, subs, cacheVars, timerVars, readerVars>>

Unbumped == generation          \* mutant: the observer forgets the generation
Bumped == generation + subs

\* _on_append, once per subscription, then the append returns to its caller.
OnAppend(a) ==
  /\ apos[a] # 0
  /\ generation' = Bumped
  /\ snapshot' = IF subs = 0 THEN snapshot ELSE {}
  /\ acked' = IF apos[a] > acked THEN apos[a] ELSE acked
  /\ apos' = [apos EXCEPT ![a] = 0]
  /\ UNCHANGED <<log, subs, building, prior, timerVars, readerVars>>

-----------------------------------------------------------------------------
(* _fold_snapshot                                                          *)

\* Entry.  _observing is tested here and set by Subscribe: two first readers
\* may both find it unset.  Without subscribe() every call builds its own.
Call(r) ==
  /\ pc[r] = "idle"
  /\ need' = [need EXCEPT ![r] = acked]
  /\ Goto(r, IF ~Observable THEN "build"
             ELSE IF subs = 0 THEN "subscribe" ELSE "enter")
  /\ UNCHANGED <<logVars, cacheVars, timerVars, gen, event, since, fold>>

Subscribe(r) ==
  /\ pc[r] = "subscribe"
  /\ subs' = subs + 1
  /\ Goto(r, "enter")
  /\ UNCHANGED <<log, acked, apos, cacheVars, timerVars,
                 gen, event, since, fold, need>>

Reusable(s) == s.gen = generation /\ s.age < TTL

\* The first critical section: reuse the snapshot, join the build of this
\* generation, or become the owner of a new one (replacing an older build).
Hit(r) ==
  /\ pc[r] = "enter"
  /\ \E s \in snapshot : Reusable(s) /\ fold' = [fold EXCEPT ![r] = {s.fold}]
  /\ gen' = [gen EXCEPT ![r] = generation]
  /\ Goto(r, "done")
  /\ UNCHANGED <<logVars, cacheVars, timerVars, event, since, need>>

Join(r) ==
  /\ pc[r] = "enter"
  /\ \A s \in snapshot : ~Reusable(s)
  /\ \E b \in building : b.gen = generation /\ event' = [event EXCEPT ![r] = {b.by}]
  /\ gen' = [gen EXCEPT ![r] = generation]
  /\ Goto(r, "wait")
  /\ UNCHANGED <<logVars, cacheVars, timerVars, since, fold, need>>

Own(r) ==
  /\ pc[r] = "enter"
  /\ \A s \in snapshot : ~Reusable(s)
  /\ \A b \in building : b.gen # generation
  /\ building' = {[gen |-> generation, by |-> r]}
  /\ gen' = [gen EXCEPT ![r] = generation]
  /\ event' = [event EXCEPT ![r] = {r}]
  /\ since' = [since EXCEPT ![r] = 0]
  /\ Goto(r, "build")
  /\ UNCHANGED <<logVars, generation, snapshot, prior, timerVars, fold, need>>

\* A waiter whose Event was set takes the snapshot of its own generation,
\* whatever its age, or builds a fold of its own.
Woken(r) ==
  /\ pc[r] = "woken"
  /\ \/ \E s \in snapshot :
          /\ s.gen = gen[r]
          /\ fold' = [fold EXCEPT ![r] = {s.fold}]
          /\ Goto(r, "done")
     \/ /\ \A s \in snapshot : s.gen # gen[r]
        /\ Goto(r, "build")
        /\ UNCHANGED fold
  /\ UNCHANGED <<logVars, cacheVars, timerVars, gen, event, since, need>>

\* _SearchFold(...): one kernel.all_events(), or an exception.
Build(r) ==
  /\ pc[r] = "build"
  /\ fold' = [fold EXCEPT ![r] = {[len |-> log, by |-> r]}]
  /\ Goto(r, "prior")
  /\ UNCHANGED <<logVars, cacheVars, timerVars, gen, event, since, need>>

AfterRaise(r) == IF Owner(r) THEN "finally" ELSE "raised"

BuildRaises(r) ==
  /\ pc[r] = "build"
  /\ Goto(r, AfterRaise(r))
  /\ UNCHANGED <<logVars, cacheVars, timerVars, gen, event, since, fold, need>>

LastBuilderWins(r) == fold[r]   \* mutant: a slower, older build regresses it
NextPrior(r) ==
  IF \A p \in prior, f \in fold[r] : f.len >= p.len THEN fold[r] ELSE prior

\* _update_prior_fold: a shorter fold never replaces a longer one.
UpdatePriorFold(r) ==
  /\ pc[r] = "prior"
  /\ prior' = NextPrior(r)
  /\ lastBuild' = {0}
  /\ Goto(r, "arm")
  /\ UNCHANGED <<logVars, generation, snapshot, building, timer, expiring,
                 gen, event, since, fold, need>>

\* _arm_expiry: nothing when a timer is already pending.
ArmExpiry(delay) == timer' = IF timer = {} THEN {delay} ELSE timer

Arm(r) ==
  /\ pc[r] \in {"arm", "rearm"}
  /\ ArmExpiry(TTL)
  /\ Goto(r, IF pc[r] = "arm" /\ Owner(r) THEN "publish" ELSE "done")
  /\ UNCHANGED <<logVars, cacheVars, lastBuild, expiring,
                 gen, event, since, fold, need>>

StillCurrent(r) == gen[r] = generation

\* Only a fold that is still current is published.  (now is dead afterwards.)
Publish(r) ==
  /\ pc[r] = "publish"
  /\ snapshot' =
       IF StillCurrent(r)
       THEN {[gen |-> gen[r], age |-> since[r], fold |-> f] : f \in fold[r]}
       ELSE snapshot
  /\ since' = [since EXCEPT ![r] = 0]
  /\ Goto(r, "finally")
  /\ UNCHANGED <<logVars, generation, building, prior, timerVars,
                 gen, event, fold, need>>

NobodysBuild(r) == {}           \* mutant: drops a newer owner's build as well
OthersBuild(r) == {b \in building : b.by # r}

\* finally: give up _building if the Event in it is still ours ...
Finally(r) ==
  /\ pc[r] = "finally"
  /\ building' = OthersBuild(r)
  /\ Goto(r, "set")
  /\ UNCHANGED <<logVars, generation, snapshot, prior, timerVars,
                 gen, event, since, fold, need>>

WakesIfBuilt(r, x) ==           \* mutant: a build that raised wakes nobody
  pc[x] = "wait" /\ r \in event[x] /\ fold[r] # {}
Wakes(r, x) == pc[x] = "wait" /\ r \in event[x]

\* ... then done.set(), which wakes every reader that holds this Event.
SetDone(r) ==
  /\ pc[r] = "set"
  /\ pc' = [x \in Readers |->
              IF x = r THEN IF fold[r] = {} THEN "raised" ELSE "rearm"
              ELSE IF Wakes(r, x) THEN "woken" ELSE pc[x]]
  /\ UNCHANGED <<logVars, cacheVars, timerVars, gen, event, since, fold, need>>

Return(r) ==
  /\ pc[r] \in {"done", "raised"}
  /\ Goto(r, "idle")
  /\ gen' = [gen EXCEPT ![r] = 0]
  /\ event' = [event EXCEPT ![r] = {}]
  /\ since' = [since EXCEPT ![r] = 0]
  /\ fold' = [fold EXCEPT ![r] = {}]
  /\ need' = [need EXCEPT ![r] = 0]
  /\ UNCHANGED <<logVars, cacheVars, timerVars>>

-----------------------------------------------------------------------------
(* The idle-expiry timer, and time                                         *)

FiresOnce == {}                 \* mutant: a young build is not looked at again
Remaining == {TTL - age : age \in lastBuild}

\* _expire_snapshot, in the timer's own thread.
Expire ==
  /\ timer = {0}
  /\ timer' = {}
  /\ IF TTL \in lastBuild
     THEN snapshot' = {} /\ prior' = {} /\ UNCHANGED expiring
     ELSE /\ expiring' = expiring \cup Remaining
          /\ UNCHANGED <<snapshot, prior>>
  /\ UNCHANGED <<logVars, generation, building, lastBuild, readerVars>>

\* Its last line, outside the lock: re-arm for the rest of the younger build.
Rearm(delay) ==
  /\ delay \in expiring
  /\ expiring' = expiring \ {delay}
  /\ ArmExpiry(delay)
  /\ UNCHANGED <<logVars, cacheVars, lastBuild, readerVars>>

Tick ==
  /\ snapshot' = {[s EXCEPT !.age = Older(s.age)] : s \in snapshot}
  /\ lastBuild' = {Older(age) : age \in lastBuild}
  /\ timer' = {IF left > 0 THEN left - 1 ELSE 0 : left \in timer}
  /\ since' = [r \in Readers |-> IF Building(r) /\ pc[r] # "finally"
                                 THEN Older(since[r]) ELSE 0]
  /\ UNCHANGED <<logVars, generation, building, prior, expiring,
                 pc, gen, event, fold, need>>

-----------------------------------------------------------------------------
ReaderStep(r) ==
  \/ Subscribe(r) \/ Hit(r) \/ Join(r) \/ Own(r) \/ Woken(r)
  \/ Build(r) \/ BuildRaises(r) \/ UpdatePriorFold(r) \/ Arm(r)
  \/ Publish(r) \/ Finally(r) \/ SetDone(r) \/ Return(r)

Next ==
  \/ \E a \in Appenders : Append(a) \/ OnAppend(a)
  \/ \E r \in Readers : Call(r) \/ ReaderStep(r)
  \/ Expire
  \/ \E delay \in 0 .. TTL : Rearm(delay)
  \/ Tick

Spec == Init /\ [][Next]_vars

\* Threads that have started are scheduled, and time passes.  Nobody is
\* obliged to call or to append.
Fairness ==
  /\ \A r \in Readers : WF_vars(ReaderStep(r))
  /\ \A a \in Appenders : WF_vars(OnAppend(a))
  /\ WF_vars(Expire)
  /\ WF_vars(\E delay \in 0 .. TTL : Rearm(delay))
  /\ WF_vars(Tick)

FairSpec == Spec /\ Fairness

-----------------------------------------------------------------------------
(* Properties                                                              *)

Fold  == [len : Nat, by : Readers]
Steps == {"idle", "subscribe", "enter", "build", "prior", "arm", "publish",
          "finally", "set", "rearm", "wait", "woken", "done", "raised"}

\* The variables keep their types, and an optional slot holds at most one
\* value: one snapshot, one build, one extension base, one pending timer.
TypeOK ==
  /\ log \in Nat /\ acked \in Nat /\ subs \in Nat /\ generation \in Nat
  /\ apos \in [Appenders -> Nat]
  /\ snapshot \in SUBSET [gen : Nat, age : 0 .. TTL, fold : Fold]
  /\ building \in SUBSET [gen : Nat, by : Readers]
  /\ prior \in SUBSET Fold
  /\ \A s, t \in snapshot : s = t
  /\ \A b, c \in building : b = c
  /\ \A p, q \in prior : p = q
  /\ lastBuild \in SUBSET (0 .. TTL)
  /\ timer \in SUBSET (0 .. TTL) /\ \A d, e \in timer : d = e
  /\ expiring \in SUBSET (0 .. TTL)
  /\ pc \in [Readers -> Steps]
  /\ gen \in [Readers -> Nat]
  /\ event \in [Readers -> SUBSET Readers]
  /\ since \in [Readers -> 0 .. TTL]
  /\ fold \in [Readers -> SUBSET Fold]
  /\ \A r \in Readers : \A f, g \in fold[r] : f = g
  /\ need \in [Readers -> Nat]

\* Every read sees every event whose append had returned when the read was
\* called, whether it was served from the snapshot, from the build it joined
\* or from its own build ("every read sees a current view of the log").
FreshRead ==
  \A r \in Readers : pc[r] = "done" =>
    \E f \in fold[r] : need[r] <= f.len /\ f.len <= log

\* A published snapshot is always of the current generation and holds every
\* acknowledged event, so a reuse can never be stale.
SnapshotCurrent ==
  \A s \in snapshot : s.gen = generation /\ acked <= s.fold.len

\* The owners that materialize the log at the same time do so for different
\* generations: concurrent readers of one generation share a single build.
SingleFlight ==
  \A r, q \in Readers :
    Building(r) /\ Building(q) /\ gen[r] = gen[q] => r = q

\* A reader waits only on an Event that its owner is still going to set.
NoOrphanWaiter ==
  \A w \in Readers : pc[w] = "wait" =>
    \E o \in event[w] : Building(o) \/ (Owner(o) /\ pc[o] = "set")

\* Whatever the store retains (the snapshot, the extension base), some timer,
\* timer callback or builder is still going to look at it for expiry.
RetentionArmed ==
  LET Armed(steps) == timer # {} \/ expiring # {}
                        \/ \E r \in Readers : pc[r] \in steps /\ fold[r] # {}
  IN  /\ prior # {} => Armed({"arm"})
      /\ snapshot # {} => Armed({"arm", "finally", "set", "rearm"})

\* A slower builder never replaces the extension base by a shorter fold; it
\* is only ever extended or dropped.
PriorMonotone ==
  [][\A p \in prior, q \in prior' : p.len <= q.len]_vars

\* Every read comes back, even when the build it waits for raises.
ReadsComplete ==
  \A r \in Readers : (pc[r] # "idle") ~> (pc[r] \in {"done", "raised"})

\* A store nobody reads any more drops the folds it pins in memory.
IdleReleases ==
  (<>[](\A r \in Readers : pc[r] = "idle")) => <>[](snapshot = {} /\ prior = {})

\* Why FreshRead and SnapshotCurrent hold, as an inductive invariant: once
\* anybody waits, owns or publishes, appends are observed, so a fold built
\* under a generation that is still current misses no acknowledged event.
FreshAt(r) ==
  /\ Owner(r) \/ pc[r] \in {"enter", "wait", "woken", "publish"} => subs > 0
  /\ gen[r] <= generation /\ need[r] <= acked
  /\ pc[r] = "idle" => fold[r] = {}
  /\ pc[r] \in {"prior", "arm", "publish", "rearm", "done"} => fold[r] # {}
  /\ \A f \in fold[r] : need[r] <= f.len /\ f.len <= log
  /\ pc[r] = "publish" \/ (Owner(r) /\ pc[r] \in {"prior", "arm"}) =>
       (gen[r] = generation => \A f \in fold[r] : acked <= f.len)

FreshInv ==
  /\ acked <= log /\ \A a \in Appenders : apos[a] <= log
  /\ SnapshotCurrent /\ \A s \in snapshot : s.fold.len <= log
  /\ snapshot # {} => subs > 0
  /\ \A r \in Readers : FreshAt(r)

\* Why SingleFlight and NoOrphanWaiter hold: _building names the one owner of
\* the current generation, and that owner has not reached its finally yet.
FlightAt(r) ==
  /\ pc[r] \in {"idle", "subscribe", "enter", "wait", "woken"} => ~Owner(r)
  /\ Building(r) => gen[r] <= generation
  /\ Building(r) /\ gen[r] = generation =>
       building = {[gen |-> generation, by |-> r]}

FlightInv ==
  /\ SingleFlight /\ NoOrphanWaiter
  /\ \A b \in building : Building(b.by) /\ b.gen <= generation
  /\ \A r \in Readers : FlightAt(r)

\* Why RetentionArmed holds: a fold is published on the way to the second arming,
\* and a timer runs only after some build, so that it finds an age to test.
RetentionInv ==
  /\ RetentionArmed
  /\ timer # {} \/ expiring # {} => lastBuild # {}
  /\ \A r \in Readers : fold[r] # {} /\ pc[r] \in {"arm", "publish", "finally", "set", "rearm"}
       => lastBuild # {}
  /\ \A r \in Readers :
       pc[r] \in {"idle", "subscribe", "enter", "wait", "woken", "build"} => fold[r] = {}

PhaseOf(r) ==
  IF pc[r] \in {"idle", "raised"} THEN pc[r]
  ELSE IF pc[r] = "done" THEN "answered" ELSE "reading"

AnswerOf(r) == IF pc[r] = "done" THEN {f.len : f \in fold[r]} ELSE {}

Promise == INSTANCE FreshReads WITH
  phase  <- [r \in Readers |-> PhaseOf(r)],
  answer <- [r \in Readers |-> AnswerOf(r)]

\* The cache is invisible: with it the store still implements FreshReads.
ImplementsFreshReads == Promise!Spec
=============================================================================
