------------------------------ MODULE Curation ------------------------------
(***************************************************************************)
(* Everything that writes a drawer's has_importance fact after the drawer  *)
(* is filed: the learning passes of hooks-behavioral-write (a daemon       *)
(* thread per orchestrator:complete) through update_importance, the        *)
(* rollback of a MutationRecord, the garden's backfill and the legacy      *)
(* import.  Each of them reads first and writes later, nothing locks the   *)
(* drawer in between, and a process may end, or a call fail, at any step.  *)
(*                                                                         *)
(* A fact is valid or not (the substrate's temporal lens): asserting adds  *)
(* a value, invalidating removes it.  Only update_importance on a store    *)
(* with write_batch does both at once.                                     *)
(***************************************************************************)
EXTENDS Naturals, FiniteSets

CONSTANTS
  Drawers,
  Passes,        \* learning passes: one session each
  Gardens,       \* runs of execute_garden; a timed-out caller leaves its own
                 \* running and may start the next
  Importer,      \* amplifier-memory-import
  Conductor,     \* whoever rolls mutations back
  MaxImports,    \* bound: drawers imported, re-runs included
  MaxRollbacks,  \* bound
  MaxFails       \* bound: calls that fail and processes that end

Threads == Passes \cup Gardens \cup {Importer, Conductor}

ASSUME CurationAssumption ==
  /\ Passes \cap Gardens = {} /\ Importer # Conductor
  /\ {Importer, Conductor} \cap (Passes \cup Gardens) = {}
  /\ MaxImports \in Nat /\ MaxRollbacks \in Nat /\ MaxFails \in Nat

\* compute_importance of a drawer whose capture succeeded or failed, and what
\* the legacy store has recorded.
Rating == [ok |-> "low", failed |-> "high"]
Legacy == "legacy"
Values == {"low", "high", Legacy}
Outcomes == {"none", "ok", "failed"}    \* "none": not touched by the session

VARIABLES
  valid,      \* [Drawers -> valid values of has_importance]
  copied,     \* drawers with a has_embedding_copied marker
  edges,      \* [Drawers -> embeddings added by the importer]
  atomic,     \* the store has write_batch
  pc,
  touched,    \* [Passes -> outcomes its events file held, less those done]
  failures,   \* [Passes -> some of them had failed]
  missing,    \* [Gardens -> drawers listed without an importance]
  job,        \* [Threads -> {} or the one fact being changed]
  records,    \* the MutationRecords that can be rolled back
  imports, rollbacks, fails,
  overtaken,  \* history: drawers written over something the writer had not seen
  bared       \* history: drawers left between an invalidate and its assert, or
              \* by rolling back an update that had found no value

threadVars == <<pc, touched, failures, missing, job>>
boundVars  == <<imports, rollbacks, fails>>
vars == <<valid, copied, edges, atomic, threadVars, records, boundVars,
          overtaken, bared>>

NoJob == [t \in Threads |-> {}]
Untouched == [d \in Drawers |-> "none"]

\* Drawers are filed with an importance or without.
Init ==
  /\ valid \in [Drawers -> {{}, {"low"}}]
  /\ copied = {} /\ edges = [d \in Drawers |-> 0]
  /\ atomic \in BOOLEAN
  /\ pc = [t \in Threads |-> "idle"]
  /\ touched = [p \in Passes |-> Untouched]
  /\ failures = [p \in Passes |-> FALSE]
  /\ missing = [g \in Gardens |-> {}]
  /\ job = NoJob /\ records = {}
  /\ imports = 0 /\ rollbacks = 0 /\ fails = 0
  /\ overtaken = {} /\ bared = {}

-----------------------------------------------------------------------------
Goto(t, to) == pc' = [pc EXCEPT ![t] = to]
Take(t, j)  == job' = [job EXCEPT ![t] = {j}]
Drop(t)     == job' = [job EXCEPT ![t] = {}]

\* old is {} or one value.  seen is what was valid when the writer decided.
Job(d, old, new, seen) == [drawer |-> d, old |-> old, new |-> new, seen |-> seen]

\* d becomes vs, written by one who takes it to be as it was.
Write(d, vs, as) ==
  /\ valid' = [valid EXCEPT ![d] = vs]
  /\ overtaken' = IF valid[d] = as THEN overtaken ELSE overtaken \cup {d}

\* _first_fact_value, query_importance: one of the valid values.
Read(d) == IF valid[d] = {} THEN {{}} ELSE {{v} : v \in valid[d]}

-----------------------------------------------------------------------------
(* process_session                                                         *)

\* One pass over the events file, read once; the last event of a drawer counts.
\* others: the session had a failure among drawers not followed here.
StartPass(p, seen, others) ==
  /\ pc[p] = "idle"
  /\ touched' = [touched EXCEPT ![p] = seen]
  /\ failures' = [failures EXCEPT ![p] = others \/ \E d \in Drawers : seen[d] = "failed"]
  /\ Goto(p, "pass")
  /\ UNCHANGED <<valid, copied, edges, atomic, missing, job, records, boundVars,
                 overtaken, bared>>

\* The salience gate: a failed drawer clears it; a successful one may, but
\* only in a session with failures.
Gate(p, d) ==
  IF touched[p][d] = "failed" THEN {TRUE}
  ELSE IF failures[p] THEN BOOLEAN ELSE {FALSE}

Unchanged(old, new) == old = {new}

Consider(p, d) ==
  /\ pc[p] = "pass" /\ touched[p][d] # "none"
  /\ touched' = [touched EXCEPT ![p][d] = "none"]
  /\ \E old \in Read(d), clears \in Gate(p, d) :
       LET new == Rating[touched[p][d]] IN
       IF clears /\ ~Unchanged(old, new)
       THEN Goto(p, "update") /\ Take(p, Job(d, old, new, valid[d]))
       ELSE UNCHANGED <<pc, job>>
  /\ UNCHANGED <<valid, copied, edges, atomic, failures, missing, records,
                 boundVars, overtaken, bared>>

KeepsOld(vs, old, new) == vs \cup {new}    \* mutant: an add, not an update
OnlyTakes(vs, old, new) == vs \ old         \* mutant: the new value is not asserted
Replaced(vs, old, new) == (vs \ old) \cup {new}

Record(p, j, after) ==
  records' = records \cup
    {[by |-> p, drawer |-> j.drawer, old |-> j.old, new |-> j.new,
      before |-> j.seen, after |-> after]}

Committed(j) == Write(j.drawer, Replaced(valid[j.drawer], j.old, j.new), j.seen)
Asserted(j) == Write(j.drawer, Replaced(valid[j.drawer], {}, j.new), j.seen \ j.old)

\* update_importance: one batch,
UpdateBatch(p) ==
  /\ pc[p] = "update" /\ atomic
  /\ \E j \in job[p] : Committed(j) /\ Record(p, j, valid'[j.drawer])
  /\ Drop(p) /\ Goto(p, "pass")
  /\ UNCHANGED <<copied, edges, atomic, touched, failures, missing, boundVars,
                 bared>>

\* or invalidate_fact, if there was a value,
Invalidate(p) ==
  /\ pc[p] = "update" /\ ~atomic
  /\ \E j \in job[p] : Write(j.drawer, valid[j.drawer] \ j.old, j.seen)
  /\ Goto(p, "assert")
  /\ UNCHANGED <<copied, edges, atomic, touched, failures, missing, job, records,
                 boundVars, bared>>

\* and then assert_fact.
AssertNew(p) ==
  /\ pc[p] = "assert"
  /\ \E j \in job[p] : Asserted(j) /\ Record(p, j, valid'[j.drawer])
  /\ Drop(p) /\ Goto(p, "pass")
  /\ UNCHANGED <<copied, edges, atomic, touched, failures, missing, boundVars,
                 bared>>

EndPass(p) ==
  /\ pc[p] = "pass" /\ touched[p] = Untouched
  /\ Goto(p, "end")
  /\ failures' = [failures EXCEPT ![p] = FALSE]
  /\ UNCHANGED <<valid, copied, edges, atomic, touched, missing, job, records,
                 boundVars, overtaken, bared>>

-----------------------------------------------------------------------------
(* rollback                                                                *)

Invalidated(vs, m) == vs \ {m.new}
StaysInvalid(vs, m) == vs        \* mutant: the prior value is not restored
Restored(vs, m) == vs \cup m.old

Rollback(m) ==
  /\ pc[Conductor] = "idle" /\ rollbacks < MaxRollbacks
  /\ rollbacks' = rollbacks + 1
  /\ Write(m.drawer, Invalidated(valid[m.drawer], m), m.after)
  /\ Take(Conductor, m) /\ Goto(Conductor, "restore")
  /\ UNCHANGED <<copied, edges, atomic, touched, failures, missing, records,
                 imports, fails, bared>>

Restore ==
  /\ pc[Conductor] = "restore"
  /\ \E m \in job[Conductor] :
       /\ Write(m.drawer, Restored(valid[m.drawer], m), Invalidated(m.after, m))
       /\ records' = records \ {m}
       /\ bared' = IF m.old = {} THEN bared \cup {m.drawer} ELSE bared
  /\ Drop(Conductor) /\ Goto(Conductor, "idle")
  /\ UNCHANGED <<copied, edges, atomic, touched, failures, missing, boundVars>>

-----------------------------------------------------------------------------
(* execute_garden                                                          *)

\* list_drawers: what it finds without an importance is backfilled later.
Garden(g) ==
  /\ pc[g] = "idle"
  /\ missing' = [missing EXCEPT ![g] = {d \in Drawers : valid[d] = {}}]
  /\ Goto(g, "backfill")
  /\ UNCHANGED <<valid, copied, edges, atomic, touched, failures, job, records,
                 boundVars, overtaken, bared>>

Backfill(g, d) ==
  /\ pc[g] = "backfill" /\ d \in missing[g]
  /\ Write(d, valid[d] \cup {Rating["ok"]}, {})
  /\ missing' = [missing EXCEPT ![g] = @ \ {d}]
  /\ UNCHANGED <<copied, edges, atomic, pc, touched, failures, job, records,
                 boundVars, bared>>

EndGarden(g) ==
  /\ pc[g] = "backfill" /\ missing[g] = {}
  /\ Goto(g, "end")
  /\ UNCHANGED <<valid, copied, edges, atomic, touched, failures, missing, job,
                 records, boundVars, overtaken, bared>>

-----------------------------------------------------------------------------
(* _import_one_drawer                                                      *)

\* _fact_present, read before write: the very value, not just any.
Import(d) ==
  /\ pc[Importer] = "idle" /\ imports < MaxImports
  /\ imports' = imports + 1
  /\ Take(Importer, Job(d, {}, Legacy, {}))
  /\ Goto(Importer, IF Legacy \in valid[d] THEN "marker" ELSE "fact")
  /\ UNCHANGED <<valid, copied, edges, atomic, touched, failures, missing,
                 records, rollbacks, fails, overtaken, bared>>

ImportFact ==
  /\ pc[Importer] = "fact"
  /\ \E j \in job[Importer] : Write(j.drawer, valid[j.drawer] \cup {j.new}, {})
  /\ Goto(Importer, "marker")
  /\ UNCHANGED <<copied, edges, atomic, touched, failures, missing, job, records,
                 boundVars, bared>>

NoMarker(d) == FALSE            \* mutant: the marker is not looked for
HasMarker(d) == d \in copied

ImportMarker ==
  /\ pc[Importer] = "marker"
  /\ \E j \in job[Importer] :
       IF HasMarker(j.drawer) THEN Drop(Importer) /\ Goto(Importer, "idle")
       ELSE Goto(Importer, "copy") /\ UNCHANGED job
  /\ UNCHANGED <<valid, copied, edges, atomic, touched, failures, missing,
                 records, boundVars, overtaken, bared>>

\* "any read failure is treated as not present so import proceeds".
MarkerUnread ==
  /\ pc[Importer] = "marker" /\ fails < MaxFails
  /\ fails' = fails + 1
  /\ Goto(Importer, "copy")
  /\ UNCHANGED <<valid, copied, edges, atomic, touched, failures, missing, job,
                 records, imports, rollbacks, overtaken, bared>>

ImportEmbedding ==
  /\ pc[Importer] = "copy"
  /\ \E j \in job[Importer] : edges' = [edges EXCEPT ![j.drawer] = @ + 1]
  /\ Goto(Importer, "copied")
  /\ UNCHANGED <<valid, copied, atomic, touched, failures, missing, job, records,
                 boundVars, overtaken, bared>>

ImportCopied ==
  /\ pc[Importer] = "copied"
  /\ copied' = copied \cup {j.drawer : j \in job[Importer]}
  /\ Drop(Importer) /\ Goto(Importer, "idle")
  /\ UNCHANGED <<valid, edges, atomic, touched, failures, missing, records,
                 boundVars, overtaken, bared>>

-----------------------------------------------------------------------------
\* The rest of a pass or of a garden run is dropped; the importer goes on to the
\* next record.
GiveUp(t) ==
  /\ pc[t] \notin {"idle", "end"} /\ fails < MaxFails
  /\ fails' = fails + 1
  /\ Drop(t)
  /\ Goto(t, IF t \in {Importer, Conductor} THEN "idle" ELSE "end")
  /\ touched' = [p \in Passes |-> IF p = t THEN Untouched ELSE touched[p]]
  /\ failures' = [p \in Passes |-> p # t /\ failures[p]]
  /\ missing' = [g \in Gardens |-> IF g = t THEN {} ELSE missing[g]]

\* A call raises, or the process ends.
Fail(t) ==
  /\ GiveUp(t)
  /\ bared' = bared \cup
       {j.drawer : j \in {x \in job[t] : pc[t] \in {"assert", "restore"}}}
  /\ UNCHANGED <<valid, copied, edges, atomic, records, imports, rollbacks,
                 overtaken>>

\* The daemon executes the last call of an update, but its client has given up
\* on it (a timeout, a lost answer): the update has no MutationRecord.  Of any
\* other call this is Fail at the step after it.
Unanswered(p) ==
  /\ \/ pc[p] = "update" /\ atomic /\ \E j \in job[p] : Committed(j)
     \/ pc[p] = "assert" /\ \E j \in job[p] : Asserted(j)
  /\ GiveUp(p)
  /\ UNCHANGED <<copied, edges, atomic, records, imports, rollbacks, bared>>

Pass(p) ==
  \/ \E seen \in [Drawers -> Outcomes], others \in BOOLEAN : StartPass(p, seen, others)
  \/ \E d \in Drawers : Consider(p, d)
  \/ UpdateBatch(p) \/ Invalidate(p) \/ AssertNew(p) \/ Unanswered(p) \/ EndPass(p)

Next ==
  \/ \E p \in Passes : Pass(p)
  \/ \E m \in records : Rollback(m)
  \/ Restore
  \/ \E g \in Gardens : Garden(g) \/ EndGarden(g) \/ \E d \in Drawers : Backfill(g, d)
  \/ \E d \in Drawers : Import(d)
  \/ ImportFact \/ ImportMarker \/ MarkerUnread \/ ImportEmbedding \/ ImportCopied
  \/ \E t \in Threads : Fail(t)

Spec == Init /\ [][Next]_vars

-----------------------------------------------------------------------------
(* Properties                                                              *)

Busy == {"update", "assert", "restore", "marker", "fact", "copy", "copied"}
Steps == Busy \cup {"idle", "pass", "backfill", "end"}
Jobs == [drawer : Drawers, old : SUBSET Values, new : Values, seen : SUBSET Values]
Records == [by : Passes, drawer : Drawers, old : SUBSET Values, new : Values,
            before : SUBSET Values, after : SUBSET Values]

\* The variables keep their types; a thread works on a fact only mid-way.
TypeOK ==
  /\ valid \in [Drawers -> SUBSET Values]
  /\ copied \subseteq Drawers /\ edges \in [Drawers -> Nat]
  /\ atomic \in BOOLEAN
  /\ pc \in [Threads -> Steps]
  /\ touched \in [Passes -> [Drawers -> Outcomes]]
  /\ failures \in [Passes -> BOOLEAN] /\ missing \in [Gardens -> SUBSET Drawers]
  /\ job \in [Threads -> SUBSET (Jobs \cup Records)]
  /\ \A t \in Threads : /\ job[t] \subseteq IF t = Conductor THEN Records ELSE Jobs
                        /\ job[t] # {} <=> pc[t] \in Busy
                        /\ \A i, j \in job[t] : i = j
  /\ records \subseteq Records
  /\ imports \in 0 .. MaxImports /\ rollbacks \in 0 .. MaxRollbacks
  /\ fails \in 0 .. MaxFails
  /\ overtaken \subseteq Drawers /\ bared \subseteq Drawers

\* "replace a drawer's has_importance fact (UPDATE, not add)": a drawer has two
\* importances only where a writer came upon what it had not seen: a race, a
\* rollback out of order, or an import over a value that was changed.
OneValue == \A d \in Drawers \ overtaken : Cardinality(valid[d]) <= 1

\* "all-or-nothing": a drawer whose value was ever replaced has one, but while
\* the sequential path or a rollback is between its two calls.  What leaves it
\* without is a failure in between, or the rollback of an update that found none.
Between(d) ==
  \E t \in Threads : pc[t] \in {"assert", "restore"} /\ \E j \in job[t] : j.drawer = d
NeverUnrated ==
  \A m \in records : valid[m.drawer] = {} =>
    Between(m.drawer) \/ m.drawer \in bared

\* "Reverse a prior UPDATE": what was valid before an update is valid again
\* after its rollback, unless somebody wrote to the drawer in between.
RollbackRestores ==
  [][\A m \in records \ records' :
       m.drawer \in overtaken' \/ valid'[m.drawer] = m.before]_vars

\* "makes the embedding copy itself idempotent on re-run": one embedding per
\* drawer, and one more for every time the import, or its look at the marker,
\* fails.
EmbeddedOnce == \A d \in Drawers : edges[d] <= 1 + fails

\* Why OneValue and RollbackRestores hold: who has raced with nobody knows all
\* the values there are, and so does the record of what he did.
Single(vs) == \A v, w \in vs : v = w
Faithful(m) ==
  Single(m.old) /\ (m.drawer \notin overtaken => m.before = m.old /\ m.after = {m.new})
OneInv ==
  /\ \A d \in Drawers \ overtaken : Single(valid[d])
  /\ \A p \in Passes : \A j \in job[p] :
       Single(j.old) /\ (j.drawer \notin overtaken => j.seen = j.old)
  /\ \A m \in records \cup job[Conductor] : Faithful(m)

\* Why EmbeddedOnce holds: without a marker, every embedding but the one just
\* added was paid for by a failure, and so is one that is about to be added.
At(step, d) == pc[Importer] = step /\ \E j \in job[Importer] : j.drawer = d
EmbeddedInv ==
  \A d \in Drawers :
    /\ edges[d] <= 1 + fails
    /\ d \notin copied /\ ~At("copied", d) => edges[d] <= fails
    /\ At("copy", d) => edges[d] <= fails
=============================================================================
