# A verification of amplifier-bundle-memory

TLA+ modules of the concurrent and crash-exposed parts of the memory bundle, TLC
configurations that check small instances of them, and TLAPS proofs for every
value of the constants. `PROJECT.json` lists the runs, the mutants each property
is tested with, the lines each definition models, the hazards and the findings.

    tlc -config FoldReads.cfg MCFoldSnapshot.tla
    tlapm FoldSnapshot_proofs.tla

## 1. The system

Every Amplifier session mounts hooks and a tool in its own process; all of them
talk over HTTP to one *memory daemon* per home directory, which owns the
append-only store.

| Part | Source | State | Operations | Hard behaviour |
|---|---|---|---|---|
| Daemon lifecycle | `client.py`, `daemon.py` | `daemon.json`, `daemon.lock`, `daemon.owner.lock`, processes | `ensure_daemon`, `run_daemon` | sessions race to spawn; crash; upgrade; pid reuse; late exit |
| Fold snapshot | `store.py` | `_snapshot`, `_building`, `_prior_fold`, `_generation`, timer | `_fold_snapshot`, `_on_append`, `_expire_snapshot` | readers, appends and a timer over one lock; builds outside it |
| Embedding, sweep | `daemon.py`, `embedder.py`, `store.py` | vectors, `needs_embedding` facts, embedder state, write lock | `remember`, `diary_write`, `_sweep_needs_embedding` | slow embedder, racing sweeps, non-atomic filing, close under traffic |
| Capture hook | `hooks-memory-capture` | spool files, event log, queue, futures | `__call__`, `_drain_loop`, `_replay_orphans` | crash between any two steps, overflow, replay against a live drain |
| Briefing hook | `hooks-memory-briefing` | prefetch cache (per process), `_armed`, `_delivered` | prefetch, deliver once | awaits between test and set; a cache shared by sessions |
| Interject hook | `hooks-memory-interject` | `_turn`, `_last_injected`, `_briefed_ids` | retrieve, gate, inject | state read before an await, marked after it |
| context-sleep | `context-sleep` | `_raw`, `_working` | `add_message`, `compact` | messages arriving during a compaction |
| Importance mutations | `store.py`, `scripts/mutation.py`, `hooks-behavioral-write` | `has_importance` facts | `update_importance`, `rollback` | read-then-write, rollback order |
| Search | `store.py` | `_SearchFold` and its lazy caches | `search`, `list_drawers` | folds extended from one another, filled by several readers |
| Gateway | `daemon.py` | kernel access lock | `_dispatch_generic`, `_SerializedFileKernel` | serialisation of kernel calls |
| Garden | `garden.py`, `__init__.py` | adjacency, cluster facts | list, search, cluster, describe, backfill | one call per fact; failing and truncated searches; a run that outlives its timeout |
| Import | `migrate.py` | marker facts | idempotent import | crash between vector and marker |
| Memory tool, events, scoring | `__init__.py`, `event_emitter.py`, `salience.py`, ... | little | tool calls, JSONL append, scores | - |

The external parts, modelled only as far as the code uses them, are the
amplifier-data kernel (append, observers, facts, embedding edges), the operating
system (flock, O_EXCL, pids, signals, threads) and the coordinator's hooks.

What makes each part correct:

* lifecycle: one daemon serves a home, it can be found, and a home whose daemon
  died gets another one;
* fold snapshot: a read never misses an acknowledged append; readers share one
  build; nobody waits for ever; memory is released when idle;
* embedding: an acknowledged drawer stays reachable by vector search, by its
  vector or by the marker that adds it lexically; markers are swept in the end;
* capture: what reached the disk is never lost silently; what is queued is
  processed; replay repeats only what a crash left behind;
* briefing, interject: deliver once, to whom it is due, respect the cooldown;
* context-sleep: no message vanishes from the window unless it raced a compaction;
* importance: one valid value per drawer unless writers raced, and none only
  between two calls;
* garden: clusters are disjoint components of what the searches found, agree from
  run to run, and are whole in the graph;
* search: an extended fold equals a full rebuild, an answer lists what was filed
  before it was asked for.

## 2. The modules

### FreshReads and FoldSnapshot

`FreshReads` is the promise without a cache: a read answers from a prefix of the
log that holds every event acknowledged before the read was called.
`FoldSnapshot` is `_fold_snapshot` with each critical section of
`_snapshot_lock`, and each call outside it, as one action. The slots that may be
`None` are sets of at most one element; a fold is the length of the prefix it
covers and the thread that built it; the Event of a build is named after its
owner. `Call` tests `_observing` and `Subscribe` sets it, since the code does not
hold a lock there: two first readers may subscribe twice, and `Bumped` then
counts every append twice. `BuildRaises` is an exception out of
`_SearchFold(...)`; `AfterRaise` sends the owner through its `finally`. The
refinement `Promise` hides the cache: everything between call and answer is
"reading".

Each of `Hit`, `Join`, `Own` is the whole first critical section under one
outcome. Time is relative: the age of the snapshot, the age of the last build and
the timer move with `Tick` and stop at `TTL`.

### Capture

Two threads: the event loop (`__call__`, `mount`, `_replay_orphans`: none of them
awaits between its first and last step, so one step variable `lpc` is enough) and
the drain thread (`dpc`). `SpoolWrite` writes the spool file or fails to;
`PutNowait` wires the future, enqueues, or on `queue.Full` cancels it. `mount`
reads the two event kinds in two passes, lists the spool and visits the files one
by one, interleaved with the drain thread. `FileDrawerRaises` covers a timeout
after the daemon had stored the drawer, so `filed` may grow all the same.
`WorkerRaises` is an exception that reaches the guard of `_drain_loop`. A crash
empties everything but the spool, the event log and the store. `elsewhere` are the
captures whose event had another session id than the `AMPLIFIER_SESSION_ID` that
`mount` goes by: their spool entries stay, and no resume looks at them.

### Filing

What the daemon promises whoever files a drawer: it is stored, then findable by
search, then acknowledged, in this order though perhaps at once, and none of it is
taken back. Nothing is promised to whoever gets no answer. Two modules implement
it, each for its own view of the daemon: EmbedSweep (`ImplementsFiling`, where
findable is having a vector or the marker) and Search (`ImplementsFiling` there,
where markers and edges are events of the log); CapturePipeline builds on it.

### CapturePipeline

Capture and a daemon of which only Filing is known, side by side: `DaemonStep`
leaves the hook as it is, and every step of the hook leaves the daemon as it is.
They meet in the call of `_file_drawer`, which has two ends. `FileReturns`
needs the daemon's acknowledgement for the content in hand. `FileRaises` (no daemon,
an error, the client's timeout) needs nothing: the daemon may have stored the drawer
before, may be about to, or never will; `filed`, which Capture alone chooses
freely there, is what is in the store by then. A daemon that is down is one that
takes no steps. Equal contents are one drawer (`Content`), as in the daemon.

### EmbedSweep

The request threads and the watcher each run the same sweep; `pc` is per thread.
The write lock covers `Attach`/`Clear` and `File`/`Mark`, two appends each, and
embedding happens outside it. Equal contents are one drawer, so remembering twice
is part of the model. `CloseStore` closes the store at any moment, as `shutdown`
and SIGTERM do; from then on substrate calls raise, which `SweepWriteRaises`
(skipped item) and `RequestRaises` (HTTP 400) catch. `RestartDaemon` keeps the log
only. `Promise` maps the module to Filing.

### Home

What a memory home is for its daemons: it has one holder at a time, which puts up
its notice (`daemon.json`), serves, stops, takes the notice down and leaves, or dies
and leaves the notice behind. DaemonLifecycle implements it (`ImplementsHome`), with
the flock as the holder: everything sessions do with `daemon.lock`, probes, retries
and signals is a step that Home does not see, unless it kills somebody.

### DaemonLifecycle

Sessions run `ensure_daemon` (`cpc`), processes run `run_daemon` (`dpc`). A daemon
is its pid. `daemon.lock` carries only whether it is over 30 seconds old; only the
lock of a killed session can become so, since a live winner holds it for about 11
seconds. `CheckJson` and `UnlinkJson` are separate because
`_remove_daemon_json_if_owned` reads first. `CloseStore` runs in the thread that
called `httpd.shutdown()`, which nobody joins, so it may come before or after
`Release` and `Exit`. Up to `Serve` a SIGTERM kills, afterwards it stops
gracefully; sent to a reused pid it reaches a foreign process, which the model
only counts as not ours. Request handlers are abstracted to "answers a probe".
`flaky` is a property of the host, fixed in `Init`: on a flaky host a serving
daemon may miss any probe.

### Interject

A handler that is skipped (child session, automated run, disabled, too short)
leaves the guard as it stands (`PromptSkipped`, `CompleteSkipped`). The handlers of
`prompt:submit` and `orchestrator:complete` run one at a time
(`Main`); those of `tool:pre` overlap when the orchestrator runs tools in
parallel (`Tools`). Between the daemon's answer and `_mark_injected` the code
awaits nothing but the judge, so `Retrieve` filters, gates and marks in one
action when no judge is asked, and stops at `"judge"` when one is. The daemon's
answer, the scores and the judge's verdict are free choices within what the
filter lets through; `Top` keeps the best two. `judge` (`llm_judge_enabled`) is
fixed in `Init`. The briefing hook's event may arrive at any moment
(`BriefingAssembled`). `streak` and `repeated` are history: no guard reads them.

### ContextSleep

`SleepContextManager` called by several tasks of one event loop. `compact` awaits
its pre-event, the provider and its post-event; it is cut there, with what it read
before each await kept per caller (`busy`). The window is a sequence of raw
messages, headed by at most one note, and a note is the set of messages it is
about. `clear` and `set_messages` are the resets; `racers` is the history of
messages added while a compaction was between its copy and its overwrite. Token
counts are message counts: what `Threshold` decides is only when a compaction is
due.

### Briefing

One process with several sessions, each with its hook (`hook[s]`), the events that
may be in `on_deliver` at once (`Tasks`), and the process-wide `_PREFETCH_CACHE`
with its background jobs (`Fetches`). A session's `Roles` are fixed in `Init`: a
root session, a child, automation. A fetch is the job of `_prefetch_job`: ensure
the daemon, one call per lookup, each of which may fail (counted, briefing
incomplete) or raise (the job fails). Time is the cached entry's age, which
`Expire` moves. `on_deliver` awaits the future under a deadline and tests
`_delivered` before and after the wait; `SideCalls` is the prefetch a delivery
starts. The ids of a delivered briefing reach `Interject` by event; `Fresh` is
interject's own filter, so `NotTwice` is a property of the two hooks together.
The client's outcome at `Waits` is whichever of future and deadline comes first.

### Search

`_fold_snapshot` as in FoldSnapshot, but with folds that have contents: events of
drawers, embedding cells, edges and pending markers. Every list the code keeps of
them is in log order, so a list is the set of its positions, and an index is
comparable with what a full build would give. And with the caches that
`_SearchFold` fills lazily on first use (`for_subject`, `vector_view`,
`embedding_edges`, `vector_matrix`). A fold is built from the previous one when
`IsPrefixOf` holds, taking over and extending whichever caches are filled at that
moment. `vector_matrix` has two critical points (`Matrix` lists the edges,
`MatrixRows` computes and publishes), and a second reader of the fold takes what is
there in between (`Published`). A search is `Begin`, a fold, the rows, and the
union with the pending drawers that `list_drawers` finds within its scan limit.
`Filed` is what the writers have put into the log, and `Promise` maps them to
Filing, whatever the readers do. A
ranking is a set of hits (drawer, score, row); sorting and cutting it is `Top`, the
hits with fewer than `n` others `Before` them. The embedder gives every content one vector; scores are a constant table.
The run asks vector requests; the purely lexical answer (no query vector) is
exercised through the union only.

### Curation

All writers of `has_importance` after filing: learning passes, a garden run, the
importer and whoever rolls back, each a thread with its `pc` and the one fact it
is changing (`job`). `atomic` (the store has `write_batch`) is fixed in `Init`;
without it `update_importance` is `Invalidate` and `AssertNew`. `Fail` is a call
that raises or a process that ends, at any step. `Unanswered` is the last call of
an update that takes effect in the daemon after its client has given up: the value
is written, and there is no `MutationRecord` to roll it back. `seen` is what was
valid when a writer decided, `overtaken` collects the drawers somebody wrote to
although they had changed since, and `bared` those that were left between an
invalidate and its assert, or by rolling back an update that had found no value.

### Garden

`execute_garden` up to the importance backfill (which is in Curation): `List`
takes the first `max_drawers` drawers, `Search` asks for the likes of one of them,
`Cluster` enters `find_clusters`, whose loop over the start nodes is `Visit`, and then
each cluster is described by one `Describe`
(`is_a`, `has_label`, `has_size`) and one `AddMember` per drawer. A cluster is its
set of members, since its id is their hash. `similar` (who scores above the
threshold for whom) is fixed in `Init` and need not be mutual; `Results` is any
choice of the `SearchK` best hits, of which the drawer itself may take one.
Drawers are filed meanwhile, and two runs overlap, because the tool's timeout
leaves the first one's thread running. What a breadth-first search reaches is stated
without the queue, as the least set that holds the start node and that no link to
an unvisited drawer leaves (`Component`); `left` is what the loop has not visited.

## 3. The runs

All bounds are constants of the configuration and guards of the actions they
bound.

| Run | Checks | Instance |
|---|---|---|
| FoldReads | `SingleFlight`, `PriorMonotone`, refinement of FreshReads (`ImplementsFreshReads`); liveness: `ReadsComplete`, `IdleReleases` | 2 readers, 1 appender, 1 append, `TTL` 1 |
| CaptureReplay | of CapturePipeline: `DeliveredOrKept`, `NoSilentLoss`, `ReplaysOnlyOrphans`, `ReplayedIsIncomplete`, `BridgesOwed`; liveness: `QueueDrains` | 2 captures of one content, one unreadable on disk, none, one or both of another session id, queue of 1, 2 crashes, 1 further mount, events on and off |
| CaptureNoRetry | refuted: `FailedStaysRetryable` | 3 captures, events on |
| SweepCatchUp | `OnlyStopsOrphan`, refinement of Filing (`ImplementsFiling`); liveness: `SweepConverges` | 1 drawer, 2 request threads and the watcher, 2 failing embeds, 2 restarts |
| DaemonOneOwner | `Discoverable` (which implies `OneServing`), `OneStoreOpen`, refinement of Home (`ImplementsHome`) | 2 sessions (1 newer), 3 pids, 1 kill |
| DaemonHome | liveness: `EnsureReturns`, `HomeRecovers` | 1 session, 3 pids, 2 kills, 1 reused pid, flaky hosts and others |
| InterjectTurns | `NoRepeat`, `NoInjectionLoop` | 3 memories (2 contradicting), 2 tools at once, cooldown 2, 3 turns, with and without judge |
| ContextCompaction | `OnlyRacersAreLost`, `OnlyRacersComeBack`, `WindowIsHistory` | 5 messages, 2 callers, 2 resets, `keep_recent_messages` 0 to 2 |
| BriefingDelivery | `CompleteIsTrue`, `BriefedOnce`, `DeliveredMeansSeen`, `OptOutIsSilent`, `NotTwice` | 2 sessions (one of them a root session), 2 events in flight, 2 fetches of 2 lookups, 1 memory |
| SearchFolds | `CachesAreRebuilt`, `AnswerIsFresh`, `FiledIsFound`, `RowsPerDrawer` | 2 readers, 2 drawers, 3 vectors, 3 folds, 2 writes, 1 stray edge, scan limit 1 |
| CurationRaces | `OneValue`, `NeverUnrated`, `EmbeddedOnce`, `RollbackRestores` | 1 drawer, 2 passes, 1 garden run, 2 imports, 2 rollbacks, 1 failure, with and without `write_batch` |
| GardenClusters | `ClustersAreComponents`, `ClustersNest`, `WholeClusters` | 4 drawers, 2 runs, `max_drawers` 3 and 4, clusters of 2, 3 hits, 6 likenesses, 1 failure |

Why these bounds are enough to be interesting: two readers and one
append make the append overtake a build, a reader join a build, a second owner
replace the first, and an older build finish after a newer one; more readers,
appenders and appends are covered by the proofs, which hold for any number and
reach every safety property of this run. Two captures and a queue of one
make it overflow in the handler and in the replay sweep, and two crashes make a
replayed capture be interrupted again. One content makes a capture find its drawer
stored, or acknowledged, by the other's call. Two requests and the watcher make three
sweeps read one marker (more drawers: theorem `DaemonFiles`). Three pids are
the serving daemon, its successor in its grace period and the dead one that
`daemon.json` still names. Three memories make a choice of the best two, and three
turns with a cooldown of two let a cooldown end. Five messages and a threshold of
one make a second compaction inherit the note of the first while another caller
adds. Two events per session make both pass the first test of `_delivered`; two
fetches make one replace the other in the cache. Three folds are a fold, its
extension and one built in parallel by the other reader. A drawer's facts do not
touch another's, so one drawer is enough for Curation. Four drawers make chains
that the start nodes enter at an end or in the middle, a star with more likes than
a search returns, and clusters that grow between two runs. Every property of a passing
run is violated when one definition of the model is changed as a plausible bug
would change the code (`mutants`).

`CHECK_DEADLOCK FALSE` stands in the configurations of Capture, ContextSleep,
Briefing, Search, Curation and Garden: an idle process with no more to do within the
bounds, or a dead one that nobody resumes, stops. Symmetry is used only in runs
without liveness. The type invariants are theorems and belong to no run.

**Fairness.** `FoldSnapshot`: started threads are scheduled, the timer thread fires,
time passes; nobody must call or append. `Capture`: the event loop and the drain
thread run; tools, mounts and resumes are not obliged to happen. In `CapturePipeline`
nothing obliges the daemon either: each call of the client has a timeout, so
that it ends, at the latest by `FileRaises`. `EmbedSweep`: the
model load ends and threads run; that requests keep coming is an assumption about
users, and without it a marker set after the watcher's only sweep does stay.
`DaemonLifecycle`: processes run, sessions keep calling, an abandoned lock gets
older; strong fairness of `PollTimeout` says that a deadline of 10 seconds which
a polling loop tests again and again does pass. The other modules have safety
properties only, and no fairness.

### What the refuted run shows

`CaptureNoRetry` compares a sentence of the repository with the code: a failed
capture is not retried on resume ("Leave the spool entry in place so a future
resume can retry"): with events on, its spool entry is deleted because
`capture_failed` counts as completed. Without events it is retried, which a
theorem states (`SilentFailuresStayRetryable`), and `DeliveredOrKept` for both.

Behaviours the models have that a reader may not expect:

* the fold cache may pin two folds for a while (the published one and a longer
  extension base);
* captures of tools whose event has another session id than `AMPLIFIER_SESSION_ID`
  stay in the spool for good: replay visits one session's directory only;
* a further mount in a live process replays jobs that are still queued, so they
  are filed twice (filing is idempotent);
* a marked drawer may already have a vector, and racing sweeps may attach two and
  invalidate the marker twice (`MaxEdges` 1 merges them in the run);
* a stop between filing and marking leaves a drawer that vector search never
  finds. It was never acknowledged; `OnlyStopsOrphan` says nothing else does this;
* the owner lock is given back before the closer thread has closed the store, so a
  successor may open it meanwhile; `OneStoreOpen` says that is the only overlap;
* SIGTERM for a wedged daemon may reach a process that reused its pid;
* with the judge on, two parallel tool calls may inject the same memory, and a
  prompt of less than 20 characters does not reset `_injected_this_turn`;
* a message that arrives while `compact` awaits vanishes from the window, and a
  reset meanwhile is undone when `compact` writes back what it had read;
* two learning passes that read one value leave two valid ones, and so does a
  rollback out of order, or an import over an updated value;
* without `write_batch` an update that fails half-way leaves the drawer without
  importance and returns no record; the comment beside it ("recoverable via the
  rollback handle on the returned record") holds for what completed only;
* two prompts of one session that overlap may both deliver its briefing;
* with failed, truncated or one-sided searches a component depends on the order in
  which the drawers were listed, and a run with a smaller `max_drawers` describes
  clusters that overlap those of another without nesting.

## 4. The proofs

TLAPS proves, for all values of the constants (from the named assumption of each
module: bounds are naturals, flags are Booleans, `TTL`, `MaxQueue` and `K` are
positive, the kinds of threads are disjoint, refs are numbers). Two proof modules
are about two machines each, which keep names of their own (`SweepSpec`,
`InjectSpec`): `Briefing_proofs` about Briefing and Interject, whose filter it
composes with, and `Capture_proofs` about the hook, the daemon it files with and
the pipeline of both.

| Theorem | Says | Through |
|---|---|---|
| `FoldSnapshot_proofs!TypeCorrect` | `TypeOK` | itself inductive |
| `ReadsAreFresh`, `SnapshotIsCurrent` | `FreshRead`, `SnapshotCurrent` | `FreshInv` |
| `CacheIsInvisible` | the cache implements `FreshReads` | `FreshInv`, step simulation |
| `BuildsAreShared`, `WaitersAreOwed` | `SingleFlight`, `NoOrphanWaiter` | `FlightInv` |
| `PriorNeverShrinks` | `PriorMonotone` | `TypeOK` |
| `RetainedIsArmed` | `RetentionArmed` | `RetentionInv` |
| `Capture_proofs!TypeCorrect` | `TypeOK`, the queue's bound | itself inductive |
| `NothingIsLost` | `NoSilentLoss` | `LossInv` |
| `SilentFailuresAreRetried` | `SilentFailuresStayRetryable` | `LossInv` |
| `ReplayIsForOrphans` | `ReplaysOnlyOrphans` (in a process's only mount) | `OrphanInv` |
| `ReplayIsOfIncomplete` | `ReplayedIsIncomplete` (in a process's only mount) | `OrphanInv`, `IncompleteInv` |
| `BridgesAreOwed` | `BridgesOwed` | itself inductive; lemmas on how often a queue holds a job |
| `SweepTypeCorrect`, `AckedStayFindable` | `SweepTypeOK`, `AckedIsFindable` | `FindableInv` |
| `OrphansComeFromStops` | `OnlyStopsOrphan` | `MarkInv` |
| `DaemonFiles` | EmbedSweep implements Filing (`ImplementsFiling`) | `FindableInv`, `FilingInv`, step simulation |
| `PipelineKeepsBoth` | the pipeline implements Capture and Filing | projection of each step |
| `PipelineInherits` | `NoSilentLoss`, `ReplaysOnlyOrphans`, `ReplayedIsIncomplete`, `BridgesOwed` of the pipeline | `PipelineKeepsBoth` |
| `CapturesAreDelivered` | `DeliveredOrKept` | `DeliveryInv` |
| `DaemonLifecycle_proofs!TypeCorrect`, `OneDaemonServes`, `ServingIsDiscoverable` | `TypeOK`, `OneServing`, `Discoverable` | `OwnerInv` |
| `HomeHasOneHolder` | the lifecycle implements Home (`ImplementsHome`) | `OwnerInv`, step simulation |
| `StoresDoNotOverlap` | `OneStoreOpen` | `OpenInv` |
| `Briefing_proofs!InjectorTypeCorrect` | `InjectTypeOK` | itself inductive |
| `NoLoops` | `NoInjectionLoop` | `LoopInv` |
| `CooldownHolds` | `NoRepeat` | `JudgeInv` |
| `ContextSleep_proofs!TypeCorrect` | `TypeOK` | itself inductive |
| `WindowLosesOnlyRacers`, `ResetsAreFinal` | `OnlyRacersAreLost`, `OnlyRacersComeBack` | `WindowInv` |
| `WindowIsOrderedHistory` | `WindowIsHistory` | `HistoryInv`; lemmas on slices of sequences |
| `Briefing_proofs!TypeCorrect` | `TypeOK` | itself inductive, in four parts |
| `CompleteMeansComplete`, `NothingBadIsReused` | `CompleteIsTrue`, `NoBadReuse` | `CompleteInv` |
| `OptOutStaysSilent` | `OptOutIsSilent` | `OptOutInv` |
| `OneBriefing` | `BriefedOnce` | `OnceInv` |
| `DeliveredIsSeen`, `NothingShownTwice` | `DeliveredMeansSeen`, `NotTwice` | `SetupInv`, `EarlyInv`, `SeenInv` |
| `Search_proofs!TypeCorrect`, `IndexesAreRebuilt` | `TypeOK`, `CachesAreRebuilt` | `FoldInv`, `ReadInv` |
| `AnswersAreFresh` | `AnswerIsFresh` | `FoldInv`, `ReadInv` |
| `AckedAreFound` | `FiledIsFound` | `AckInv`, `NeedInv`; lemmas on `Top` and the hybrid rank |
| `WritersFile` | Search implements Filing (its `ImplementsFiling`) | `AckInv`, `MarkedAreFiled`, step simulation |
| `DrawersKeepTheirRows` | `RowsPerDrawer` | `FoldInv`, `ReadInv`; `HitsOfDrawer` |
| `Curation_proofs!TypeCorrect` | `TypeOK` | itself inductive |
| `OneImportance`, `RollbacksRestore` | `OneValue`, `RollbackRestores` | `OneInv` |
| `StaysRated` | `NeverUnrated` | itself inductive |
| `OneEmbedding` | `EmbeddedOnce` | `EmbeddedInv` |
| `Garden_proofs!TypeCorrect` | `TypeOK` | itself inductive |
| `ClustersAreRight` | `ClustersAreComponents` | `VisitInv`; lemmas on components |
| `ClustersAgree` | `ClustersNest` | `VisitInv`, `NestInv` |
| `ClustersAreWhole` | `WholeClusters` | `WholeInv` |

From a tool call to a search answer the theorems make one argument.
`CapturesAreDelivered` takes a capture to an acknowledged, findable drawer, knowing
of the daemon nothing but Filing. `DaemonFiles` says that the daemon with its
embedder, markers, sweeps, closes and restarts keeps that promise, and `WritersFile`
that the writers do which Search details down to the events of the log. `AckedAreFound`
then says what findable is worth: such a drawer is in the answer of a
search begun later, unless the answer is full or the scope is too large to list.
The link between these is Filing and the reading of "findable" (a vector or a
marker) that both refinements share; no single module composes all of them.

Why the invariants have to be stronger than the properties:

* `FreshInv`: that a finished read is fresh says nothing of a fold under
  construction. The invariant adds that a fold whose generation is still current
  covers every acknowledged event, and that appends are observed from the moment
  anybody waits, owns or publishes.
* `FlightInv`: ties `_building` to the one owner that has not reached its
  `finally`; without it a second owner of the same generation cannot be excluded.
* `LossInv`: whoever is about to unlink a spool entry has an outcome on record for
  it (`Recorded`), in the drain thread as in the replay.
* `OrphanInv`: the sweep's remaining files and the drain thread's jobs are disjoint.
* `IncompleteInv`: the sweep of an only mount has read every outcome there is of the
  files it visits, since those logged later are not of files it has left.
* `DeliveryInv`: an entry is about to be unlinked, or an outcome is on record as
  filed, only for what the daemon has answered.
* `FilingInv`, `MarkedAreFiled`: a step of the daemon is a `Put` of one drawer only if
  requests are for one drawer each, and if what a sweep attaches or clears was
  findable before.
* `MarkInv`: without a stop, whoever has left a drawer with neither vector nor
  marker is about to mark it and holds the lock.
* `FindableInv`: a marker is cleared only behind an edge; `remember` returns only
  behind an edge or a marker.
* `OwnerInv`: the flock is held from before the store is opened until `daemon.json`
  is dealt with, and `daemon.json` is the holder's in between.
* `LoopInv`: after an injection by `Main` the guard stands, and a handler that is
  in flight was started without one; the property alone does not see the guard.
* `OpenInv`: who has the store open holds the owner lock, or has given it back and
  is about to exit.
* `WindowInv`: what a compaction in flight is about to write back, and its note,
  hold every message that did not race it.
* `CompleteInv`: a call's failure is counted while its own fetch is under way, and
  a fetch judges itself only when all its calls are back.
* `OnceInv`: without an overlap one event per session at most is on its way to a
  delivery, and none after it.
* `RetentionInv`: a fold is published before its owner arms the timer for the last
  time, and a timer runs only after some build, so that it finds an age to test.
* `OneInv`: who has raced with nobody knows all the values there are, and so does
  the record of what he did.
* `EmbeddedInv`: without a marker, every embedding but the one just added was paid
  for by a failure.
* `HistoryInv`: the copies that compactions in flight will write back are cut from
  the history where their notes end, as the window is.
* `SetupInv`, `EarlyInv`, `SeenInv`: a delivery is settled only if nobody else is on
  his way to one, if the future it waited for cannot be replaced under it, and if
  interject has been given no prompt before it.
* `FoldInv`, `ReadInv`: an index may be wrong in a fold nobody reads yet but which
  others extend, or in a matrix state that is carried from fold to fold; and rows
  that a reader has picked up are only used later. Every fold has right indexes, as
  far as they are there, and every reader's rows are those of the fold he holds.
* `AckInv`, `NeedInv`: a marker is invalidated only when its drawer has an edge whose
  cell came first, so an acknowledged drawer has one of them at every moment; what a
  search needs had it when the fold was made that the search holds.
* `VisitInv`: no link leaves what is not visited yet, so a component is either found
  already or lies there, whole.
* `NestInv`: a described cluster no longer knows from which listing it came. It is
  enough that it lies in what a run has listed, or is not linked to the rest of it.
* `WholeInv`: what a run has left of its current cluster is all that is missing.
* `JudgeInv`: without the judge no handler rests between the filter and the mark.

Only model-checked: liveness (`ReadsComplete`, `IdleReleases`, `QueueDrains`,
`SweepConverges`, `EnsureReturns`, `HomeRecovers`), since fairness and `ENABLED` are
out of the prover's reach. Every safety property that a run checks is a theorem; no model has a
recursive operator, whose values only induction over data could establish for every
input, which the installed provers cannot use.

## 5. What is not modelled, and the plan

Not modelled: the texts of messages, drawers and briefings; scores (floating
point); HTTP and tokens; version strings (only who is newer); file-system
exceptions in `ensure_daemon`; the kernel's own durability; Windows locking; which
tool outputs are worth capturing; the text of an injection; the synchronous `__call__` of the
briefing hook; the labels, the `spans_rooms` facts and the closing diary entry of
the garden; `--re-embed` and `--verify` of the import; the
memory tool and the project-context hook, which keep no state that anything else
reads.

What would come next:

1. A pipeline whose daemon comes and goes as Home lets it.
2. The composition of EmbedSweep with Search: one log, with failing embeds and
   restarts on the one side and lazily filled folds on the other.
3. `Gateway`: tokens, the generic dispatch and its errors.
