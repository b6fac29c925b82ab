----------------------------- MODULE EmbedSweep -----------------------------
(***************************************************************************)
(* How a drawer gets its vector: the memory daemon's remember and          *)
(* diary_write handlers, the watcher thread and the catch-up sweep that    *)
(* all of them run, over one write lock and one embedder that becomes      *)
(* ready (or fails) in the background.  Embedding happens outside the      *)
(* lock.  The log survives a restart; threads, lock and embedder do not.   *)
(*                                                                         *)
(* drawer[t] and item[t] are {} or one drawer: a diary_write carries no    *)
(* drawer.  A fact is a member of a set: asserting it twice leaves one     *)
(* valid fact, invalidating it removes it (the substrate's temporal lens). *)
(***************************************************************************)
EXTENDS Naturals

CONSTANTS
  Drawers,      \* contents; equal contents are one drawer (content address)
  Requests,     \* threads that serve remember and diary_write
  Watcher,      \* the thread running _watch_embedder_and_sweep
  MaxEdges,     \* embedding edges are counted up to here
  MaxFails,     \* bound: embed() calls that raise although ready
  MaxRestarts   \* bound: daemon processes that end and are replaced

ASSUME SweepAssumption ==
  /\ Watcher \notin Requests
  /\ MaxEdges \in Nat \ {0} /\ MaxFails \in Nat /\ MaxRestarts \in Nat

Threads == Requests \cup {Watcher}

VARIABLES
  stored,     \* log: drawers whose cell is written
  vectors,    \* log: [Drawers -> embedding_of edges]
  marked,     \* log: drawers with a valid needs_embedding fact
  embedder,   \* "loading", "ready" or "failed"
  open,       \* the store is open
  lock,       \* {} or the thread that holds the write lock
  pc, drawer, \* per thread: step, argument,
  pending,    \* ... refs its sweep has still to visit,
  item,       \* ... and the one it is at
  vector,     \* [Threads -> BOOLEAN]: remember holds a vector
  fails, restarts,
  acked       \* history: drawers some remember has returned

logVars    == <<stored, vectors, marked>>
threadVars == <<pc, drawer, pending, item, vector>>
sweepBounds == <<fails, restarts>>
sweepVars == <<logVars, embedder, open, lock, threadVars, sweepBounds, acked>>

Start == [t \in Threads |-> IF t = Watcher THEN "poll" ELSE "idle"]
None  == [t \in Threads |-> {}]

SweepInit ==
  /\ stored = {} /\ marked = {} /\ vectors = [d \in Drawers |-> 0]
  /\ embedder = "loading" /\ open = TRUE /\ lock = {}
  /\ pc = Start /\ drawer = None /\ pending = None /\ item = None
  /\ vector = [t \in Threads |-> FALSE]
  /\ fails = 0 /\ restarts = 0 /\ acked = {}

Free == lock = {}

Goto(t, to) == pc' = [pc EXCEPT ![t] = to]
AddEdges(ds) == vectors' = [d \in Drawers |->
  IF d \in ds /\ vectors[d] < MaxEdges THEN vectors[d] + 1 ELSE vectors[d]]

-----------------------------------------------------------------------------
(* The embedder: FastEmbedEmbedder.warm                                    *)

Warm ==
  /\ embedder = "loading"
  /\ embedder' \in {"ready", "failed"}
  /\ UNCHANGED <<logVars, open, lock, threadVars, sweepBounds, acked>>

-----------------------------------------------------------------------------
(* _sweep_needs_embedding, run by the watcher and by request threads       *)

\* The watcher: one sweep when the embedder is ready, none when it failed.
Poll ==
  /\ pc[Watcher] = "poll"
  /\ embedder # "loading"
  /\ Goto(Watcher, IF embedder = "ready" THEN "query" ELSE "end")
  /\ UNCHANGED <<logVars, embedder, open, lock, drawer, pending, item, vector,
                 sweepBounds, acked>>

Query(t) ==
  /\ pc[t] = "query"
  /\ open
  /\ pending' = [pending EXCEPT ![t] = marked]
  /\ Goto(t, "sweep")
  /\ UNCHANGED <<logVars, embedder, open, lock, drawer, item, vector,
                 sweepBounds, acked>>

\* regenerate and embed one pending drawer, outside the lock.
SweepEmbed(t, d) ==
  /\ pc[t] = "sweep" /\ d \in pending[t]
  /\ open
  /\ item' = [item EXCEPT ![t] = {d}]
  /\ pending' = [pending EXCEPT ![t] = @ \ {d}]
  /\ Goto(t, "attach")
  /\ UNCHANGED <<logVars, embedder, open, lock, drawer, vector, sweepBounds,
                 acked>>

Unmarked(d) == marked \ {d}     \* mutant: a failed item loses its marker
StaysMarked(d) == marked

\* embed() raises, or regenerate finds the store closed: the item is skipped.
SweepEmbedRaises(t, d) ==
  /\ pc[t] = "sweep" /\ d \in pending[t]
  /\ open => fails < MaxFails
  /\ fails' = IF open THEN fails + 1 ELSE fails
  /\ pending' = [pending EXCEPT ![t] = @ \ {d}]
  /\ marked' = StaysMarked(d)
  /\ UNCHANGED <<stored, vectors, embedder, open, lock, pc, drawer, item,
                 vector, restarts, acked>>

\* Under the lock: first the embedding edge ...
Attach(t) ==
  /\ pc[t] = "attach"
  /\ Free
  /\ open
  /\ lock' = lock \cup {t}
  /\ AddEdges(item[t])
  /\ Goto(t, "clear")
  /\ UNCHANGED <<stored, marked, embedder, open, drawer, pending, item, vector,
                 sweepBounds, acked>>

\* ... then the marker.
Clear(t) ==
  /\ pc[t] = "clear"
  /\ open
  /\ marked' = marked \ item[t]
  /\ lock' = lock \ {t}
  /\ item' = [item EXCEPT ![t] = {}]
  /\ Goto(t, "sweep")
  /\ UNCHANGED <<stored, vectors, embedder, open, drawer, pending, vector,
                 sweepBounds, acked>>

\* The store was closed meanwhile: the item is skipped.
SweepWriteRaises(t) ==
  /\ \/ pc[t] = "attach" /\ Free
     \/ pc[t] = "clear"
  /\ ~open
  /\ lock' = lock \ {t}
  /\ item' = [item EXCEPT ![t] = {}]
  /\ Goto(t, "sweep")
  /\ UNCHANGED <<logVars, embedder, open, drawer, pending, vector, sweepBounds,
                 acked>>

SweepDone(t) ==
  /\ pc[t] = "sweep" /\ pending[t] = {}
  /\ Goto(t, IF t = Watcher THEN "end"
             ELSE IF drawer[t] = {} THEN "file" ELSE "embed")
  /\ UNCHANGED <<logVars, embedder, open, lock, drawer, pending, item, vector,
                 sweepBounds, acked>>

-----------------------------------------------------------------------------
(* _dispatch_domain: remember and diary_write                              *)

Request(t, ds) ==
  /\ pc[t] = "idle"
  /\ open
  /\ drawer' = [drawer EXCEPT ![t] = ds]
  /\ Goto(t, "check")
  /\ UNCHANGED <<logVars, embedder, open, lock, pending, item, vector,
                 sweepBounds, acked>>

NeverSweeps == FALSE            \* mutant: no opportunistic catch-up
SweepDue == embedder = "ready" /\ marked # {}

\* _maybe_sweep.
Check(t) ==
  /\ pc[t] = "check"
  /\ open \/ embedder # "ready"
  /\ Goto(t, IF SweepDue THEN "query"
             ELSE IF drawer[t] = {} THEN "file" ELSE "embed")
  /\ UNCHANGED <<logVars, embedder, open, lock, drawer, pending, item, vector,
                 sweepBounds, acked>>

\* remember embeds its content outside the lock, if the embedder is ready.
Embed(t) ==
  /\ pc[t] = "embed"
  /\ vector' = [vector EXCEPT ![t] = embedder = "ready"]
  /\ Goto(t, "file")
  /\ UNCHANGED <<logVars, embedder, open, lock, drawer, pending, item,
                 sweepBounds, acked>>

EmbedRaises(t) ==
  /\ pc[t] = "embed"
  /\ embedder = "ready" /\ fails < MaxFails
  /\ fails' = fails + 1
  /\ Goto(t, "file")
  /\ UNCHANGED <<logVars, embedder, open, lock, drawer, pending, item, vector,
                 restarts, acked>>

\* file / file_diary under the lock: one atomic batch.  Without a vector the
\* lock is kept for the marker.
File(t) ==
  /\ pc[t] = "file"
  /\ Free
  /\ open
  /\ stored' = stored \cup drawer[t]
  /\ AddEdges(IF vector[t] THEN drawer[t] ELSE {})
  /\ IF vector[t] \/ drawer[t] = {}
     THEN Goto(t, "done") /\ UNCHANGED lock
     ELSE Goto(t, "mark") /\ lock' = lock \cup {t}
  /\ UNCHANGED <<marked, embedder, open, drawer, pending, item, vector,
                 sweepBounds, acked>>

NoMark(t) == marked              \* mutant: the marker is not asserted
Marks(t) == marked \cup drawer[t]

Mark(t) ==
  /\ pc[t] = "mark"
  /\ open
  /\ marked' = Marks(t)
  /\ lock' = lock \ {t}
  /\ Goto(t, "done")
  /\ UNCHANGED <<stored, vectors, embedder, open, drawer, pending, item, vector,
                 sweepBounds, acked>>

EndRequest(t) ==
  /\ Goto(t, "idle")
  /\ drawer' = [drawer EXCEPT ![t] = {}]
  /\ vector' = [vector EXCEPT ![t] = FALSE]

Return(t) ==
  /\ pc[t] = "done"
  /\ acked' = acked \cup drawer[t]
  /\ EndRequest(t)
  /\ UNCHANGED <<logVars, embedder, open, lock, pending, item, sweepBounds>>

\* The store was closed meanwhile: the handler answers 400 (the watcher dies).
RequestRaises(t) ==
  /\ ~open
  /\ \/ pc[t] = "check" /\ embedder = "ready"
     \/ pc[t] = "query"
     \/ pc[t] = "file" /\ Free
     \/ pc[t] = "mark"
  /\ IF t = Watcher THEN Goto(t, "end") /\ UNCHANGED <<drawer, vector>>
     ELSE EndRequest(t)
  /\ lock' = lock \ {t}
  /\ UNCHANGED <<logVars, embedder, open, pending, item, sweepBounds, acked>>

-----------------------------------------------------------------------------
\* Shutdown and SIGTERM close the store without the write lock, and without
\* waiting for the request threads.
CloseStore ==
  /\ open
  /\ restarts < MaxRestarts
  /\ open' = FALSE
  /\ UNCHANGED <<logVars, embedder, lock, threadVars, sweepBounds, acked>>

\* The process ends (killed, or after CloseStore) and is replaced.
RestartDaemon ==
  /\ restarts < MaxRestarts
  /\ restarts' = restarts + 1
  /\ embedder' = "loading" /\ open' = TRUE /\ lock' = {}
  /\ pc' = Start /\ drawer' = None /\ pending' = None /\ item' = None
  /\ vector' = [t \in Threads |-> FALSE]
  /\ UNCHANGED <<logVars, fails, acked>>

Sweep(t) ==
  \/ Query(t) \/ Attach(t) \/ Clear(t) \/ SweepWriteRaises(t) \/ SweepDone(t)
  \/ \E d \in Drawers : SweepEmbed(t, d) \/ SweepEmbedRaises(t, d)

Serve(t) ==
  \/ Check(t) \/ Embed(t) \/ EmbedRaises(t) \/ File(t) \/ Mark(t)
  \/ Return(t)

NewRequest ==
  \E t \in Requests, d \in Drawers : Request(t, {}) \/ Request(t, {d})

SweepNext ==
  \/ Warm \/ Poll \/ NewRequest
  \/ \E t \in Threads : Sweep(t) \/ RequestRaises(t)
  \/ \E t \in Requests : Serve(t)
  \/ CloseStore \/ RestartDaemon

SweepSpec == SweepInit /\ [][SweepNext]_sweepVars

\* Started threads are scheduled and the model load ends.  That mutating
\* requests keep coming is an assumption about the daemon's users: a drawer
\* marked after the watcher's only sweep waits for the next of them.
Traffic ==
  /\ WF_sweepVars(Warm) /\ WF_sweepVars(Poll) /\ WF_sweepVars(NewRequest)
  /\ \A t \in Threads : WF_sweepVars(Sweep(t) \/ RequestRaises(t))
  /\ \A t \in Requests : WF_sweepVars(Serve(t))

FairSweep == SweepSpec /\ Traffic

-----------------------------------------------------------------------------
(* Properties                                                              *)

\* The variables keep their types; the write lock has at most one holder.
SweepTypeOK ==
  /\ stored \subseteq Drawers /\ marked \subseteq Drawers
  /\ vectors \in [Drawers -> 0 .. MaxEdges]
  /\ embedder \in {"loading", "ready", "failed"} /\ open \in BOOLEAN
  /\ lock \subseteq Threads /\ \A t, u \in lock : t = u
  /\ pc \in [Threads -> {"idle", "poll", "query", "sweep", "attach", "clear",
                         "check", "embed", "file", "mark", "done", "end"}]
  /\ drawer \in [Threads -> SUBSET Drawers]
  /\ pending \in [Threads -> SUBSET Drawers]
  /\ item \in [Threads -> SUBSET Drawers]
  /\ vector \in [Threads -> BOOLEAN]
  /\ fails \in 0 .. MaxFails /\ restarts \in 0 .. MaxRestarts
  /\ acked \subseteq Drawers

Findable(d) == d \in stored /\ (vectors[d] > 0 \/ d \in marked)

\* A drawer whose remember has returned never becomes unreachable to vector
\* search: it keeps a vector, or the marker that triggers the lexical union.
AckedIsFindable == \A d \in acked : Findable(d)

\* A drawer is stored, made reachable by vector search and acknowledged in this
\* order, and none of it is taken back: by no racing sweep, failing embed,
\* shutdown or restart, whoever asked for it.
Promise == INSTANCE Filing WITH findable <- {d \in Drawers : Findable(d)}
ImplementsFiling == Promise!Spec

\* With an embedder that becomes ready and requests that keep coming, every
\* marker is eventually swept, the ones set after the watcher's sweep included.
SweepConverges ==
  \A d \in Drawers :
    (d \in marked) ~> (d \notin marked \/ embedder = "failed" \/ ~open)

\* "a drawer filed while the embedder was not ready carries a needs_embedding
\* marker": a drawer has neither vector nor marker only while its remember holds
\* the lock, or after the daemon was killed, or its store closed, between file
\* and assert_fact, which are two appends.
OnlyStopsOrphan ==
  Free /\ open /\ restarts = 0 => \A d \in stored : Findable(d)

\* Why OnlyStopsOrphan holds: whoever is about to mark has the lock.
MarkInv ==
  /\ \A t \in Threads : pc[t] \in {"mark", "clear"} => t \in lock
  /\ open /\ restarts = 0 => \A d \in stored :
       Findable(d) \/ \E t \in Requests : pc[t] = "mark" /\ d \in drawer[t]

\* Why AckedIsFindable holds: a marker is only cleared behind an edge, and
\* remember only returns behind an edge or a marker.
FindableInv ==
  /\ AckedIsFindable
  /\ \A t \in Threads :
       /\ pc[t] = "clear" => \A d \in item[t] : vectors[d] > 0
       /\ pc[t] = "done" => \A d \in drawer[t] : Findable(d)
       /\ pc[t] = "mark" => drawer[t] \subseteq stored

\* Why ImplementsFiling holds: a request is for one drawer at most, and a sweep
\* works on drawers that are findable already, and remain so.
FilingInv ==
  /\ marked \subseteq stored
  /\ \A t \in Threads :
       /\ \A d, e \in drawer[t] : d = e
       /\ \A d \in pending[t] \cup item[t] : Findable(d)
=============================================================================
