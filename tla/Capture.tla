------------------------------ MODULE Capture ------------------------------
(***************************************************************************)
(* hooks-memory-capture: a tool output is spooled to disk and put on a     *)
(* bounded in-process queue by the event loop, a daemon thread files it    *)
(* with the memory daemon, and mount replays what a crash left behind.     *)
(*                                                                         *)
(* Two threads run: the event loop (the tool:post handler and mount, which *)
(* never await and so exclude each other) and the drain thread.  The spool *)
(* directory, the session's event log and the store survive a crash; the   *)
(* queue, the threads and the coordinator futures do not.  Of the event    *)
(* log only the two event kinds that replay reads are kept.                *)
(***************************************************************************)
EXTENDS Integers, FiniteSets, Sequences, SequencesExt

CONSTANTS
  Captures,     \* capture ids (uuid4, one per worthy tool output)
  MaxQueue,     \* _QUEUE_MAXSIZE
  MaxCrashes,   \* bound: process deaths in one behaviour
  MaxMounts,    \* bound: mounts of further sessions in a live process
  EmitEvents,   \* the values config emit_events may have
  Unreadable,   \* captures whose spool entry does not load back into a job
  Elsewhere     \* which captures may be of another session id than mount's

ASSUME CaptureAssumption ==
  /\ MaxQueue \in Nat \ {0}
  /\ MaxCrashes \in Nat /\ MaxMounts \in Nat
  /\ EmitEvents \subseteq BOOLEAN
  /\ Unreadable \subseteq Captures
  /\ Elsewhere \subseteq SUBSET Captures

VARIABLES
  spool,      \* captures with a file in the spool directory of their session id
  filed,      \* captures the daemon has stored (filing again is idempotent)
  filedLog,   \* capture ids with a drawer_filed event
  failedLog,  \* capture ids with a capture_failed event
  queue,      \* _QUEUE: sequence of jobs [id, spooled]
  lpc, ljob,  \* event loop: step, and {} or {the job in hand}
  done, todo, \* locals of _replay_orphans: completed_ids, files still to visit
  dpc, djob,  \* drain thread: step, and {} or {the job in hand}
  awaiting,   \* [Captures -> Int]: bridge tasks awaiting a completion future
  emit,       \* config emit_events of this installation, fixed
  elsewhere,  \* captures of tools whose event has another session_id than
              \* AMPLIFIER_SESSION_ID, which mount goes by; fixed
  crashes, mounts,
  durable,    \* history: captures whose spool entry was written
  failed,     \* history: captures whose filing raised
  gaveUp      \* history: captures dropped by the worker's last-resort guard

diskVars    == <<spool, filed, filedLog, failedLog>>
loopVars    == <<lpc, ljob, done, todo>>
drainVars   == <<dpc, djob>>
boundVars   == <<emit, elsewhere, crashes, mounts>>
historyVars == <<durable, failed, gaveUp>>
vars == <<diskVars, queue, loopVars, drainVars, awaiting, boundVars, historyVars>>

Job == [id : Captures, spooled : BOOLEAN]

\* The first mount of the process, before any capture.
Init ==
  /\ spool = {} /\ filed = {} /\ filedLog = {} /\ failedLog = {}
  /\ queue = <<>>
  /\ lpc = "mount" /\ ljob = {} /\ done = {} /\ todo = {}
  /\ dpc = "get" /\ djob = {}
  /\ awaiting = [c \in Captures |-> 0]
  /\ emit \in EmitEvents /\ elsewhere \in Elsewhere
  /\ crashes = 0 /\ mounts = 0
  /\ durable = {} /\ failed = {} /\ gaveUp = {}

-----------------------------------------------------------------------------
(* The event loop: __call__                                                *)

Captured == durable \cup failed \cup gaveUp \cup filed
              \cup {j.id : j \in Range(queue) \cup ljob \cup djob}

\* A worthy tool output: spool it.  A failed write is not fatal.
SpoolWrite(c) ==
  /\ lpc = "idle"
  /\ c \notin Captured
  /\ \E ok \in BOOLEAN :
       /\ ljob' = {[id |-> c, spooled |-> ok]}
       /\ spool' = IF ok THEN spool \cup {c} ELSE spool
       /\ durable' = IF ok THEN durable \cup {c} ELSE durable
  /\ lpc' = "put"
  /\ UNCHANGED <<filed, filedLog, failedLog, queue, done, todo, drainVars,
                 awaiting, boundVars, failed, gaveUp>>

Room == Len(queue) < MaxQueue

\* _wire_completion_bridge creates a future for the job that is enqueued; on
\* queue.Full it is cancelled again.
Wired(c) == [awaiting EXCEPT ![c] = @ + (IF emit THEN 1 ELSE 0)]
WiredOnFull(c) == Wired(c)              \* mutant: queue.Full leaves it pending
CancelledOnFull(c) == awaiting

\* queue.Full keeps the spool entry for a later replay.
SpoolDropped(c) == spool \ {c}          \* mutant: overflow drops the spool entry
SpoolOnFull(c) == spool

Enqueue(job) ==
  IF Room
  THEN queue' = Append(queue, job) /\ awaiting' = Wired(job.id)
  ELSE awaiting' = CancelledOnFull(job.id) /\ UNCHANGED queue

PutNowait ==
  /\ lpc = "put"
  /\ \E job \in ljob :
       /\ Enqueue(job)
       /\ spool' = IF Room THEN spool ELSE SpoolOnFull(job.id)
  /\ lpc' = "idle" /\ ljob' = {}
  /\ UNCHANGED <<filed, filedLog, failedLog, done, todo, drainVars,
                 boundVars, historyVars>>

-----------------------------------------------------------------------------
(* The event loop: mount and _replay_orphans                               *)

\* Another session of the same process and session id mounts the hook.
LiveMount ==
  /\ lpc = "idle"
  /\ mounts < MaxMounts
  /\ mounts' = mounts + 1
  /\ lpc' = "mount"
  /\ UNCHANGED <<diskVars, queue, ljob, done, todo, drainVars, awaiting,
                 emit, elsewhere, crashes, historyVars>>

\* completed_ids: one pass over the event log for each kind of outcome, of one
\* session id.
ReadFiledEvents ==
  /\ lpc = "mount"
  /\ done' = filedLog \ elsewhere
  /\ lpc' = "events"
  /\ UNCHANGED <<diskVars, queue, ljob, todo, drainVars, awaiting, boundVars,
                 historyVars>>

Nothing == {}                           \* mutant: replay trusts the spool alone
Completed == done \cup (failedLog \ elsewhere)

ReadFailedEvents ==
  /\ lpc = "events"
  /\ done' = Completed
  /\ lpc' = "glob"
  /\ UNCHANGED <<diskVars, queue, ljob, todo, drainVars, awaiting, boundVars,
                 historyVars>>

Glob ==
  /\ lpc = "glob"
  /\ todo' = spool \ elsewhere
  /\ lpc' = "replay"
  /\ UNCHANGED <<diskVars, queue, ljob, done, drainVars, awaiting, boundVars,
                 historyVars>>

\* One file of the glob: completed, or not loadable (also because the drain
\* thread has just deleted it): unlink.  Otherwise load the job.
ReplayFile(c) ==
  /\ lpc = "replay"
  /\ c \in todo
  /\ \/ /\ c \in done \/ c \notin spool \/ c \in Unreadable
        /\ spool' = spool \ {c}
        /\ todo' = todo \ {c}
        /\ UNCHANGED <<lpc, ljob>>
     \/ /\ c \notin done /\ c \in spool /\ c \notin Unreadable
        /\ ljob' = {[id |-> c, spooled |-> TRUE]}
        /\ lpc' = "reput"
        /\ UNCHANGED <<spool, todo>>
  /\ UNCHANGED <<filed, filedLog, failedLog, queue, done, drainVars, awaiting,
                 boundVars, historyVars>>

SameFileAgain(c) == todo                \* mutant: the loop does not advance
Rest(c) == todo \ {c}

\* Its put_nowait: queue.Full ends the sweep.
ReplayPut ==
  /\ lpc = "reput"
  /\ \E job \in ljob :
       /\ Enqueue(job)
       /\ todo' = IF Room THEN Rest(job.id) ELSE {}
  /\ lpc' = "replay" /\ ljob' = {}
  /\ UNCHANGED <<diskVars, done, drainVars, boundVars, historyVars>>

ReplayEnd ==
  /\ lpc = "replay" /\ todo = {}
  /\ lpc' = "idle" /\ done' = {}
  /\ UNCHANGED <<diskVars, queue, ljob, todo, drainVars, awaiting, boundVars,
                 historyVars>>

-----------------------------------------------------------------------------
(* The drain thread: _drain_loop and _process_job                          *)

Get ==
  /\ dpc = "get"
  /\ lpc # "down"
  /\ queue # <<>>
  /\ djob' = {Head(queue)}
  /\ queue' = Tail(queue)
  /\ dpc' = "file"
  /\ UNCHANGED <<diskVars, loopVars, awaiting, boundVars, historyVars>>

DrainStep(from, to) == dpc = from /\ dpc' = to

\* _file_drawer returns.
FileDrawer ==
  /\ DrainStep("file", "filed")
  /\ filed' = filed \cup {j.id : j \in djob}
  /\ UNCHANGED <<spool, filedLog, failedLog, queue, loopVars, djob, awaiting,
                 boundVars, historyVars>>

\* _file_drawer raises: no daemon, an error, or a timeout after the daemon
\* had already stored the drawer.
FileDrawerRaises ==
  /\ DrainStep("file", "failed")
  /\ filed' \in {filed, filed \cup {j.id : j \in djob}}
  /\ failed' = failed \cup {j.id : j \in djob}
  /\ UNCHANGED <<spool, filedLog, failedLog, queue, loopVars, djob, awaiting,
                 boundVars, durable, gaveUp>>

WorkerDies == "dead"                    \* mutant: no guard around _process_job
WorkerGuards == "gaveUp"

\* An exception before the try (wing or room detection) reaches _drain_loop.
WorkerRaises ==
  /\ DrainStep("file", WorkerGuards)
  /\ gaveUp' = gaveUp \cup {j.id : j \in djob}
  /\ UNCHANGED <<diskVars, queue, loopVars, djob, awaiting, boundVars,
                 durable, failed>>

\* Each outcome: emit the event, then resolve the completion future.
Resolved == [c \in Captures |->
  IF emit /\ \E j \in djob : j.id = c THEN awaiting[c] - 1 ELSE awaiting[c]]

Outcome(log) == IF emit THEN log \cup {j.id : j \in djob} ELSE log

DrawerFiled ==
  /\ DrainStep("filed", "unlink")
  /\ filedLog' = Outcome(filedLog)
  /\ awaiting' = Resolved
  /\ UNCHANGED <<spool, filed, failedLog, queue, loopVars, djob, boundVars,
                 historyVars>>

Unlinks == "unlink"                     \* mutant: a failure deletes the spool entry
KeepsSpool == "get"

\* A failed filing leaves the spool entry in place.
CaptureFailed ==
  /\ DrainStep("failed", KeepsSpool)
  /\ failedLog' = Outcome(failedLog)
  /\ awaiting' = Resolved
  /\ djob' = IF KeepsSpool = "get" THEN {} ELSE djob
  /\ UNCHANGED <<spool, filed, filedLog, queue, loopVars, boundVars, historyVars>>

WorkerException ==
  /\ DrainStep("gaveUp", "unlink")
  /\ failedLog' = Outcome(failedLog)
  /\ awaiting' = Resolved
  /\ UNCHANGED <<spool, filed, filedLog, queue, loopVars, djob, boundVars,
                 historyVars>>

SpoolDelete ==
  /\ DrainStep("unlink", "get")
  /\ spool' = spool \ {j.id : j \in {k \in djob : k.spooled}}
  /\ djob' = {}
  /\ UNCHANGED <<filed, filedLog, failedLog, queue, loopVars, awaiting,
                 boundVars, historyVars>>

-----------------------------------------------------------------------------
\* The process dies (or exits: the drain thread is a daemon thread).
Crash ==
  /\ lpc # "down"
  /\ crashes < MaxCrashes
  /\ crashes' = crashes + 1
  /\ queue' = <<>>
  /\ lpc' = "down" /\ ljob' = {} /\ done' = {} /\ todo' = {}
  /\ dpc' = "get" /\ djob' = {}
  /\ awaiting' = [c \in Captures |-> 0]
  /\ UNCHANGED <<diskVars, emit, elsewhere, mounts, historyVars>>

\* The session is resumed in a new process.
Restart ==
  /\ lpc = "down"
  /\ lpc' = "mount"
  /\ UNCHANGED <<diskVars, queue, ljob, done, todo, drainVars, awaiting,
                 boundVars, historyVars>>

Loop ==
  \/ PutNowait \/ ReadFiledEvents \/ ReadFailedEvents \/ Glob \/ ReplayPut \/ ReplayEnd
  \/ \E c \in Captures : ReplayFile(c)

Drain ==
  \/ Get \/ FileDrawer \/ FileDrawerRaises \/ WorkerRaises
  \/ DrawerFiled \/ CaptureFailed \/ WorkerException \/ SpoolDelete

Next ==
  \/ \E c \in Captures : SpoolWrite(c)
  \/ LiveMount \/ Loop \/ Drain \/ Crash \/ Restart

Spec == Init /\ [][Next]_vars

\* The event loop and the drain thread are scheduled; nothing obliges tools
\* to run, sessions to mount, or a dead process to be resumed.
FairSpec == Spec /\ WF_vars(Loop) /\ WF_vars(Drain)

-----------------------------------------------------------------------------
(* Properties                                                              *)

Queued == {j.id : j \in Range(queue)}
Held == Queued \cup {j.id : j \in djob}     \* what the drain thread still owes

\* The variables keep their types; the queue never exceeds its bound.
TypeOK ==
  /\ spool \subseteq Captures /\ filed \subseteq Captures
  /\ filedLog \subseteq Captures /\ failedLog \subseteq Captures
  /\ queue \in Seq(Job) /\ Len(queue) <= MaxQueue
  /\ lpc \in {"down", "idle", "put", "mount", "events", "glob", "replay", "reput"}
  /\ ljob \subseteq Job /\ done \subseteq Captures /\ todo \subseteq Captures
  /\ dpc \in {"get", "file", "filed", "failed", "gaveUp", "unlink"}
  /\ djob \subseteq Job
  /\ awaiting \in [Captures -> Int]
  /\ emit \in BOOLEAN /\ elsewhere \subseteq Captures
  /\ crashes \in 0 .. MaxCrashes /\ mounts \in 0 .. MaxMounts
  /\ durable \subseteq Captures /\ failed \subseteq Captures
  /\ gaveUp \subseteq Captures

\* A capture whose spool entry reached the disk is never lost silently: at
\* every moment, crashes included, it is stored, or still spooled, or its
\* failure is on record (without events: the worker's guard dropped it).
NoSilentLoss ==
  \A c \in durable \ Unreadable :
    c \in filed \cup spool \cup (IF emit THEN failedLog ELSE gaveUp)

\* "leave the spool entry in place so a future resume can retry": a capture
\* the daemon refused keeps its spool entry until it has been filed.
FailedStaysRetryable ==
  \A c \in (failed \cap durable) \ (gaveUp \cup Unreadable) :
    c \in filed \cup spool

\* The same where no events are emitted: with nothing on record, every resume
\* of its session can retry what failed.
SilentFailuresStayRetryable == ~emit => FailedStaysRetryable

\* "replays any spool entries left over from a prior crashed run": replay
\* never queues a capture that this process still has in its own queue, as
\* long as no second session has mounted the hook in it.
ReplaysOnlyOrphans ==
  lpc = "reput" /\ mounts = 0 => \A job \in ljob : job.id \notin Held

\* What replay queues has no completion event, even though the drain thread
\* keeps logging events while the sweep of the first mount runs.
ReplayedIsIncomplete ==
  lpc = "reput" /\ mounts = 0 => \A job \in ljob : job.id \notin filedLog \cup failedLog

\* Exactly the jobs the drain thread still owes an answer have a bridge task
\* waiting for it: no coordinator event is lost, and no task waits for ever.
Count(q, c) == Cardinality({i \in DOMAIN q : q[i].id = c})
InHand(c) == dpc \notin {"get", "unlink"} /\ \E j \in djob : j.id = c
BridgesOwed ==
  \A c \in Captures :
    awaiting[c] = IF emit THEN Count(queue, c) + (IF InHand(c) THEN 1 ELSE 0) ELSE 0

\* Why NoSilentLoss holds: replay and the drain thread delete a spool entry
\* only for a capture whose outcome is already on record.
Recorded == filed \cup (IF emit THEN failedLog ELSE gaveUp)

LossInv ==
  /\ NoSilentLoss
  /\ filedLog \subseteq filed
  /\ ~emit => filedLog = {} /\ failedLog = {}
  /\ done \subseteq filedLog \cup failedLog
  /\ \A j \in djob :
       /\ dpc = "filed" => j.id \in filed
       /\ dpc = "gaveUp" => j.id \in gaveUp
       /\ dpc = "unlink" => j.id \in Recorded

\* Why ReplaysOnlyOrphans holds: the sweep of a process's first mount starts
\* with nothing queued, and what it queues it does not revisit.
OrphanInv ==
  /\ lpc \in {"mount", "events", "glob"} /\ mounts = 0 => Held = {}
  /\ lpc = "down" => Held = {}
  /\ lpc \in {"replay", "reput"} /\ mounts = 0 => todo \cap Held = {}
  /\ lpc = "reput" => \A job \in ljob : job.id \in todo

\* Why ReplayedIsIncomplete holds: the sweep of a first mount reads the outcomes
\* while none is logged, and those logged later are not of files it has left.
IncompleteInv ==
  mounts = 0 =>
    /\ lpc = "events" => filedLog \subseteq done \cup elsewhere
    /\ lpc = "glob" => filedLog \cup failedLog \subseteq done \cup elsewhere
    /\ lpc \in {"replay", "reput"} => todo \cap (filedLog \cup failedLog) \subseteq done
    /\ lpc = "reput" => \A job \in ljob : job.id \notin done

\* The drain thread outlives every failure: what is queued is taken off the
\* queue and processed, unless the process dies.
QueueDrains ==
  \A c \in Captures :
    (c \in Held) ~> (c \in filed \cup failed \cup gaveUp \/ lpc = "down")
=============================================================================
