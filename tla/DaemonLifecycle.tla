-------------------------- MODULE DaemonLifecycle --------------------------
(***************************************************************************)
(* One memory daemon per home directory: ensure_daemon in client.py, run   *)
(* by any number of sessions, against run_daemon in daemon.py, over four   *)
(* files of that directory: daemon.json (discovery), daemon.lock (spawn    *)
(* mutex, O_EXCL), daemon.owner.lock (flock, freed by the kernel) and      *)
(* store.log.  A daemon is named by its pid, which is also its url; a pid  *)
(* that nothing refers to any more stands for a new process.  Clocks are   *)
(* abstracted: a deadline may pass whenever it is pending.                 *)
(***************************************************************************)
EXTENDS Naturals

CONSTANTS
  Clients,     \* sessions that call ensure_daemon
  Newer,       \* the clients with the newer package version
  Daemons,     \* process ids
  Flaky,       \* whether the hosts considered may be too busy to answer
  MaxCrashes,  \* bound: clients and daemons killed
  MaxRecycled  \* bound: pids of dead daemons taken by foreign processes

ASSUME LifecycleAssumption ==
  /\ Newer \subseteq Clients /\ Flaky \subseteq BOOLEAN
  /\ MaxCrashes \in Nat /\ MaxRecycled \in Nat

VARIABLES
  json,      \* daemon.json: {} or {pid}
  lock,      \* daemon.lock: {} or {[by, old]}; old: its mtime is over 30 s
  owner,     \* daemon.owner.lock: {} or {pid}
  dpc,       \* [Daemons -> step of run_daemon]
  newer,     \* daemons running the newer package version
  stopping,  \* daemons told to stop (shutdown tool or SIGTERM)
  opened,    \* daemons that have store.log open
  cpc,       \* [Clients -> step of ensure_daemon]
  info,      \* [Clients -> {} or {pid}]: what the client read from daemon.json
  recover,   \* [Clients -> BOOLEAN]: allow_recover
  retry,     \* [Clients -> BOOLEAN]: retry of _spawn_and_wait
  won,       \* [Clients -> BOOLEAN]: this call created daemon.lock
  flaky,     \* on this host a serving daemon may miss a health probe
  foreign,   \* pids that now belong to other programs
  crashes

fileVars   == <<json, lock, owner>>
daemonVars == <<dpc, newer, stopping, opened>>
localVars  == <<info, recover, retry, won>>
restVars   == <<flaky, foreign, crashes>>
vars == <<fileVars, daemonVars, cpc, localVars, restVars>>

Init ==
  /\ json = {} /\ lock = {} /\ owner = {}
  /\ dpc = [d \in Daemons |-> "gone"]
  /\ newer = {} /\ stopping = {} /\ opened = {}
  /\ cpc = [c \in Clients |-> "idle"]
  /\ info = [c \in Clients |-> {}]
  /\ recover = [c \in Clients |-> TRUE] /\ retry = [c \in Clients |-> TRUE]
  /\ won = [c \in Clients |-> FALSE]
  /\ flaky \in Flaky /\ foreign = {} /\ crashes = 0

Alive(d)    == dpc[d] # "gone" \/ d \in foreign      \* _pid_alive
Answers(d)  == dpc[d] = "serve"                      \* /health responds
Silent(d)   == dpc[d] \notin {"arm", "serve"} \/ flaky
Goto(c, to) == cpc' = [cpc EXCEPT ![c] = to]
Step(d, from, to) == dpc[d] = from /\ dpc' = [dpc EXCEPT ![d] = to]

-----------------------------------------------------------------------------
(* ensure_daemon: _discover                                                *)

Call(c) ==
  /\ cpc[c] = "idle"
  /\ Goto(c, "discover")
  /\ UNCHANGED <<fileVars, daemonVars, localVars, restVars>>

ReadJson(c) ==
  /\ cpc[c] = "discover"
  /\ info' = [info EXCEPT ![c] = json]
  /\ Goto(c, IF json = {} THEN "lock" ELSE "probe")
  /\ UNCHANGED <<fileVars, daemonVars, recover, retry, won, restVars>>

\* A healthy daemon is used, unless it is strictly older than this client.
Healthy(c) ==
  /\ cpc[c] = "probe"
  /\ \E d \in info[c] :
       /\ Answers(d)
       /\ IF c \in Newer /\ d \notin newer
          THEN Goto(c, "retire") ELSE Goto(c, "done")
  /\ UNCHANGED <<fileVars, daemonVars, info, recover, retry, won, restVars>>

\* _discover returns None, and what it read is dropped.
NotFound(c) ==
  /\ Goto(c, "lock")
  /\ info' = [info EXCEPT ![c] = {}]
  /\ UNCHANGED <<recover, retry, won>>

\* _retire_and_wait: the wait may end with the daemon still up.
Retire(c) ==
  /\ cpc[c] = "retire"
  /\ stopping' = stopping \cup {d \in info[c] : Answers(d)}
  /\ NotFound(c)
  /\ UNCHANGED <<fileVars, dpc, newer, opened, restVars>>

Unhealthy(c) ==
  /\ cpc[c] = "probe"
  /\ \E d \in info[c] :
       /\ Silent(d)
       /\ IF Alive(d) /\ recover[c] THEN Goto(c, "wedged") /\ UNCHANGED localVars
                                   ELSE NotFound(c)
  /\ UNCHANGED <<fileVars, daemonVars, restVars>>

RecoverAgain(c) == recover      \* mutant: re-evaluates with recovery allowed
RecoverOnce(c) == [recover EXCEPT ![c] = FALSE]

\* One of the three retries answers: discover again, without recovery.
Recovered(c) ==
  /\ cpc[c] = "wedged"
  /\ \E d \in info[c] : Answers(d)
  /\ recover' = RecoverOnce(c)
  /\ Goto(c, "discover")
  /\ UNCHANGED <<fileVars, daemonVars, info, retry, won, restVars>>

\* None does: SIGTERM to the pid.  Before its handler is installed a daemon
\* dies of it; a pid that was reused belongs to somebody else.
Terminate(c) ==
  /\ cpc[c] = "wedged"
  /\ \E d \in info[c] :
       /\ Silent(d)
       /\ IF dpc[d] \in {"gone", "serve", "closing", "unlink", "release", "return"}
          THEN /\ stopping' = stopping \cup {e \in {d} : dpc[e] # "gone"}
               /\ UNCHANGED <<dpc, owner, opened>>
          ELSE /\ dpc' = [dpc EXCEPT ![d] = "gone"]
               /\ owner' = owner \ {d} /\ opened' = opened \ {d}
               /\ UNCHANGED stopping
  /\ NotFound(c)
  /\ UNCHANGED <<json, lock, newer, restVars>>

-----------------------------------------------------------------------------
(* ensure_daemon: _spawn_and_wait                                          *)

LosersGiveUp(c) == FALSE        \* mutant: a stale spawn lock is never cleared
MayClear(c) == retry[c] /\ \E l \in lock : l.old

CreateLock(c) ==
  /\ cpc[c] = "lock"
  /\ lock = {}
  /\ lock' = {[by |-> c, old |-> FALSE]}
  /\ won' = [won EXCEPT ![c] = TRUE]
  /\ Goto(c, "popen")
  /\ UNCHANGED <<json, owner, daemonVars, info, recover, retry, restVars>>

LockExists(c) ==
  /\ cpc[c] = "lock"
  /\ lock # {}
  /\ Goto(c, IF MayClear(c) THEN "stale" ELSE "poll")
  /\ UNCHANGED <<fileVars, daemonVars, localVars, restVars>>

\* Unlinks whatever daemon.lock is there by now, and tries once more.
ClearStaleLock(c) ==
  /\ cpc[c] = "stale"
  /\ lock' = {}
  /\ retry' = [retry EXCEPT ![c] = FALSE]
  /\ Goto(c, "lock")
  /\ UNCHANGED <<json, owner, daemonVars, info, recover, won, restVars>>

\* A new process: a pid nothing refers to.
Popen(c) ==
  /\ cpc[c] = "popen"
  /\ \E d \in Daemons :
       /\ ~Alive(d) /\ json # {d} /\ \A x \in Clients : info[x] # {d}
       /\ Step(d, "gone", "acquire")
       /\ newer' = IF c \in Newer THEN newer \cup {d} ELSE newer \ {d}
       /\ stopping' = stopping \ {d}
  /\ Goto(c, "poll")
  /\ UNCHANGED <<fileVars, opened, localVars, restVars>>

\* _poll_until_healthy takes any healthy daemon, whatever its version.
Poll(c) ==
  /\ cpc[c] = "poll"
  /\ json # {}
  /\ info' = [info EXCEPT ![c] = json]
  /\ Goto(c, "pollprobe")
  /\ UNCHANGED <<fileVars, daemonVars, recover, retry, won, restVars>>

PollProbe(c) ==
  /\ cpc[c] = "pollprobe"
  /\ \E d \in info[c] :
       \/ Answers(d) /\ Goto(c, "unlock")
       \/ Silent(d) /\ Goto(c, "poll")
  /\ info' = [info EXCEPT ![c] = {}]
  /\ UNCHANGED <<fileVars, daemonVars, recover, retry, won, restVars>>

PollTimeout(c) ==
  /\ cpc[c] = "poll"
  /\ Goto(c, "unlock")
  /\ UNCHANGED <<fileVars, daemonVars, localVars, restVars>>

\* finally: the winner unlinks daemon.lock, its own or a later one.
Unlock(c) ==
  /\ cpc[c] = "unlock"
  /\ lock' = IF won[c] THEN {} ELSE lock
  /\ Goto(c, "done")
  /\ UNCHANGED <<json, owner, daemonVars, localVars, restVars>>

Forget(c) ==
  /\ Goto(c, "idle")
  /\ info' = [info EXCEPT ![c] = {}]
  /\ recover' = [recover EXCEPT ![c] = TRUE]
  /\ retry' = [retry EXCEPT ![c] = TRUE]
  /\ won' = [won EXCEPT ![c] = FALSE]

\* ensure_daemon returns a client, or None.
Return(c) ==
  /\ cpc[c] = "done"
  /\ Forget(c)
  /\ UNCHANGED <<fileVars, daemonVars, restVars>>

\* A live winner holds the lock for 11 seconds at most: only the lock of a
\* killed one grows old.
LockGrowsOld ==
  /\ \E l \in lock : ~(won[l.by] /\ cpc[l.by] # "done")
  /\ lock' = {[l EXCEPT !.old = TRUE] : l \in lock}
  /\ UNCHANGED <<json, owner, daemonVars, cpc, localVars, restVars>>

KillClient(c) ==
  /\ cpc[c] # "idle"
  /\ crashes < MaxCrashes
  /\ crashes' = crashes + 1
  /\ Forget(c)
  /\ UNCHANGED <<fileVars, daemonVars, flaky, foreign>>

-----------------------------------------------------------------------------
(* run_daemon and _run_owned_daemon                                        *)

Acquire(d, from) ==
  /\ Step(d, from, "open")
  /\ owner = {}
  /\ owner' = {d}
  /\ UNCHANGED <<json, lock, newer, stopping, opened, cpc, localVars,
                 restVars>>

AcquireFails(d) ==
  /\ Step(d, "acquire", "check")
  /\ owner # {}
  /\ UNCHANGED <<fileVars, newer, stopping, opened, cpc, localVars, restVars>>

\* _discovered_daemon_reachable: exit if daemon.json names a responsive one.
Duplicate(d) ==
  /\ \E e \in json : Answers(e)
  /\ Step(d, "check", "gone")
  /\ UNCHANGED <<fileVars, newer, stopping, opened, cpc, localVars, restVars>>

NotReachable(d) ==
  /\ \A e \in json : Silent(e)
  /\ Step(d, "check", "grace")
  /\ UNCHANGED <<fileVars, newer, stopping, opened, cpc, localVars, restVars>>

RunsAnyway == "open"            \* mutant: serves although it is not the owner
GivesUp == "gone"

\* Five seconds of retries have not freed the lock.
GraceOver(d) ==
  /\ Step(d, "grace", GivesUp)
  /\ owner # {}
  /\ UNCHANGED <<fileVars, newer, stopping, opened, cpc, localVars, restVars>>

OpenStore(d) ==
  /\ Step(d, "open", "publish")
  /\ opened' = opened \cup {d}
  /\ UNCHANGED <<fileVars, newer, stopping, cpc, localVars, restVars>>

WriteJson(d) ==
  /\ Step(d, "publish", "arm")
  /\ json' = {d}
  /\ UNCHANGED <<lock, owner, newer, stopping, opened, cpc, localVars,
                 restVars>>

\* The SIGTERM handler is installed and serve_forever starts.
Serve(d) ==
  /\ Step(d, "arm", "serve")
  /\ UNCHANGED <<fileVars, newer, stopping, opened, cpc, localVars, restVars>>

\* httpd.shutdown() ends serve_forever; the handlers still running (abstracted)
\* are daemon threads that server_close does not wait for.
StopServing(d) ==
  /\ d \in stopping
  /\ Step(d, "serve", "closing")
  /\ UNCHANGED <<fileVars, newer, stopping, opened, cpc, localVars, restVars>>

\* The thread that called httpd.shutdown() closes the store; nobody joins it.
CloseStore(d) ==
  /\ d \in opened
  /\ dpc[d] \in {"closing", "unlink", "release", "return"}
  /\ opened' = opened \ {d}
  /\ UNCHANGED <<fileVars, dpc, newer, stopping, cpc, localVars, restVars>>

\* mutant: the owner lock is released before daemon.json is removed
ReleasesFirst(d) ==
  /\ Step(d, "closing", IF json = {d} THEN "unlink" ELSE "release")
  /\ owner' = owner \ {d}
  /\ UNCHANGED <<json, lock, newer, stopping, opened, cpc, localVars, restVars>>

\* _remove_daemon_json_if_owned: read, compare, and only then unlink.
CheckJson(d) ==
  /\ Step(d, "closing", IF json = {d} THEN "unlink" ELSE "release")
  /\ UNCHANGED <<fileVars, newer, stopping, opened, cpc, localVars, restVars>>

UnlinkJson(d) ==
  /\ Step(d, "unlink", "release")
  /\ json' = {}
  /\ UNCHANGED <<lock, owner, newer, stopping, opened, cpc, localVars,
                 restVars>>

Release(d) ==
  /\ Step(d, "release", "return")
  /\ owner' = owner \ {d}
  /\ UNCHANGED <<json, lock, newer, stopping, opened, cpc, localVars,
                 restVars>>

Exit(d) ==
  /\ Step(d, "return", "gone")
  /\ opened' = opened \ {d}
  /\ UNCHANGED <<fileVars, newer, stopping, cpc, localVars, restVars>>

\* SIGKILL: the kernel frees the flock, daemon.json stays.
KillDaemon(d) ==
  /\ dpc[d] # "gone"
  /\ crashes < MaxCrashes
  /\ crashes' = crashes + 1
  /\ dpc' = [dpc EXCEPT ![d] = "gone"]
  /\ owner' = owner \ {d} /\ opened' = opened \ {d}
  /\ UNCHANGED <<json, lock, newer, stopping, cpc, localVars,
                 flaky, foreign>>

\* The system gives the pid of a dead daemon to another program.
Recycle(d) ==
  /\ dpc[d] = "gone" /\ json = {d}
  /\ MaxRecycled > 0 /\ foreign = {}
  /\ foreign' = {d}
  /\ UNCHANGED <<fileVars, daemonVars, cpc, localVars, flaky, crashes>>

-----------------------------------------------------------------------------
(* The system                                                              *)

\* What a session does by itself, without deadlines.
ClientStep(c) ==
  \/ ReadJson(c) \/ Healthy(c) \/ Retire(c) \/ Unhealthy(c) \/ Recovered(c)
  \/ Terminate(c) \/ CreateLock(c) \/ LockExists(c) \/ ClearStaleLock(c)
  \/ Popen(c) \/ Poll(c) \/ PollProbe(c) \/ Unlock(c) \/ Return(c)

DaemonStep(d) ==
  \/ \E from \in {"acquire", "grace"} : Acquire(d, from)
  \/ AcquireFails(d) \/ Duplicate(d) \/ NotReachable(d) \/ GraceOver(d)
  \/ OpenStore(d) \/ WriteJson(d) \/ Serve(d)
  \/ StopServing(d) \/ CloseStore(d) \/ CheckJson(d) \/ UnlinkJson(d)
  \/ Release(d) \/ Exit(d)

Next ==
  \/ \E c \in Clients :
       Call(c) \/ ClientStep(c) \/ PollTimeout(c) \/ KillClient(c)
  \/ \E d \in Daemons : DaemonStep(d) \/ KillDaemon(d) \/ Recycle(d)
  \/ LockGrowsOld

Spec == Init /\ [][Next]_vars

\* Processes run; a deadline that is passed again and again is met; sessions
\* keep calling ensure_daemon; the lock a killed session left gets older.
FairSpec ==
  /\ Spec
  /\ \A c \in Clients :
       WF_vars(Call(c)) /\ WF_vars(ClientStep(c)) /\ SF_vars(PollTimeout(c))
  /\ \A d \in Daemons : WF_vars(DaemonStep(d))
  /\ WF_vars(LockGrowsOld)

-----------------------------------------------------------------------------
(* Properties                                                              *)

ClientSteps == {"idle", "discover", "probe", "retire", "wedged", "lock", "stale",
                "popen", "poll", "pollprobe", "unlock", "done"}
DaemonSteps == {"gone", "acquire", "check", "grace", "open", "publish", "arm",
                "serve", "closing", "unlink", "release", "return"}
AtMost1(S) == {{}} \cup {{x} : x \in S}

TypeOK ==
  /\ json \in AtMost1(Daemons) /\ owner \in AtMost1(Daemons)
  /\ lock \in AtMost1([by : Clients, old : BOOLEAN])
  /\ dpc \in [Daemons -> DaemonSteps]
  /\ newer \subseteq Daemons /\ stopping \subseteq Daemons
  /\ opened \subseteq Daemons
  /\ cpc \in [Clients -> ClientSteps]
  /\ info \in [Clients -> AtMost1(Daemons)]
  /\ recover \in [Clients -> BOOLEAN] /\ retry \in [Clients -> BOOLEAN]
  /\ won \in [Clients -> BOOLEAN]
  /\ flaky \in BOOLEAN /\ foreign \subseteq Daemons /\ crashes \in 0..MaxCrashes

\* However the spawn lock is raced, cleared as stale or unlinked by another
\* winner, and however daemons are killed, retired or signalled, never do two
\* daemons serve one home: the flock decides, not daemon.lock.
OneServing ==
  \A d, e \in Daemons : dpc[d] = "serve" /\ dpc[e] = "serve" => d = e

\* A daemon that serves can be discovered: no late exit of a predecessor takes
\* its daemon.json away or overwrites it.
Discoverable == \A d \in Daemons : dpc[d] = "serve" => json = {d}

\* Whatever races, kills and upgrades sessions bring about, daemon.json is written
\* and removed by the holder of the flock only, and removed only by the daemon it
\* names; who serves holds the home, and no successor starts before.
Serving == {d \in Daemons : dpc[d] = "serve"}
Promise == INSTANCE Home WITH holder <- owner, notice <- json, serving <- Serving
ImplementsHome == Promise!Spec

\* The strengthening the proofs use (OwnerInv): the flock is held from before
\* the store is opened until daemon.json has been dealt with, and daemon.json
\* is the holder's from the moment it is written.
Holding == {"open", "publish", "arm", "serve", "closing", "unlink", "release"}
Published == {"arm", "serve", "closing", "unlink"}
OwnerInv ==
  \A d \in Daemons :
    /\ dpc[d] \in Holding => owner = {d}
    /\ dpc[d] \in Published => json = {d}

\* ensure_daemon always returns, even when probes keep failing, a wedged daemon
\* answers one probe in two, spawned daemons die and locks are left behind.
EnsureReturns == \A c \in Clients : cpc[c] # "idle" ~> cpc[c] = "idle"

\* As long as sessions keep calling, and after the last crash, a home is never
\* left without a daemon for good: stale daemon.json, stale daemon.lock, pid
\* reuse and upgrades included.  (On a host where every probe may fail, nothing
\* stops sessions from terminating every daemon they find.)
HomeRecovers == ~flaky => []<>(\E d \in Daemons : dpc[d] = "serve")

\* Why OneStoreOpen holds: a store is open only from open to the exit.
Opened == (Holding \ {"open"}) \cup {"return"}
OpenInv == \A d \in opened : dpc[d] \in Opened

\* daemon.owner.lock "prevents more than one daemon from opening a memory home":
\* two processes have store.log open only when one of them has served its last
\* request, has given the lock back, and is about to exit (the thread that
\* closes its store is not joined).
OneStoreOpen ==
  \A d, e \in opened : d = e \/ dpc[d] = "return" \/ dpc[e] = "return"
=============================================================================
