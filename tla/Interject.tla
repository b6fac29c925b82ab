------------------------------ MODULE Interject ------------------------------
(***************************************************************************)
(* hooks-memory-interject in one session: which memories its handlers for  *)
(* prompt:submit, tool:pre and orchestrator:complete inject, across        *)
(* the awaits between retrieving, judging and marking them.  The handlers  *)
(* of prompt:submit and orchestrator:complete run one at a time (Main);    *)
(* those of tool:pre overlap when the orchestrator runs tools in parallel. *)
(* What is emitted, and the text of an injection, is left out.             *)
(***************************************************************************)
EXTENDS Integers, FiniteSets

CONSTANTS
  Drawers,        \* ids of drawers the daemon's search may return
  Contradicting,  \* those whose text has a contradiction keyword
  Tools,          \* tool calls that may be in flight at the same time
  Main,           \* the handler of prompt:submit and orchestrator:complete
  CooldownTurns,  \* cooldown_turns
  MaxTurns        \* bound: orchestrator:complete events

ASSUME InterjectAssumption ==
  /\ Main \notin Tools /\ Contradicting \subseteq Drawers
  /\ CooldownTurns \in Int /\ MaxTurns \in Nat

VARIABLES
  judge,      \* llm_judge_enabled, fixed when the hook is mounted
  turn,       \* _turn
  guard,      \* _injected_this_turn
  last,       \* _last_injected: [Drawers -> turn], -999 when absent
  briefedIds, \* _briefed_ids
  phase,      \* the session: waits for a prompt, runs, or awaits a handler
  pc,         \* [Handlers -> step]
  sure,       \* [Handlers -> candidates above the threshold]
  unsure,     \* [Handlers -> candidates in the uncertain band]
  streak,     \* history: Main handlers that injected one after the other
  repeated    \* history: memories injected while on cooldown or briefed

hookVars    == <<judge, turn, guard, last, briefedIds>>
handlerVars == <<phase, pc, sure, unsure>>
historyVars == <<streak, repeated>>
injectVars  == <<hookVars, handlerVars, historyVars>>

Handlers == Tools \cup {Main}
Goto(h, to) == pc' = [pc EXCEPT ![h] = to]

InjectInit ==
  /\ judge \in BOOLEAN
  /\ turn = 0 /\ guard = FALSE /\ briefedIds = {}
  /\ last = [m \in Drawers |-> -999]
  /\ phase = "idle"
  /\ pc = [h \in Handlers |-> "idle"]
  /\ sure = [h \in Handlers |-> {}] /\ unsure = [h \in Handlers |-> {}]
  /\ streak = 0 /\ repeated = {}

-----------------------------------------------------------------------------
(* The events                                                              *)

PromptSubmit ==
  /\ phase = "idle"
  /\ guard' = FALSE
  /\ phase' = "prompt"
  /\ Goto(Main, "search")
  /\ streak' = 0
  /\ UNCHANGED <<judge, turn, last, briefedIds, sure, unsure, repeated>>

\* An event of a child session or an automated run, a handler that is disabled,
\* and a prompt of less than 20 characters: it returns before the guard is reset.
PromptSkipped ==
  /\ phase = "idle"
  /\ phase' = "run"
  /\ streak' = 0
  /\ UNCHANGED <<hookVars, pc, sure, unsure, repeated>>

\* (A query that is skipped or too short leaves no trace.)
ToolPre(t) ==
  /\ phase = "run"
  /\ pc[t] = "idle"
  /\ Goto(t, "search")
  /\ UNCHANGED <<hookVars, phase, sure, unsure, historyVars>>

\* orchestrator:complete.  Afterwards the session waits for the next prompt,
\* or the orchestrator runs again on what the hook injected.
Complete ==
  /\ phase = "run"
  /\ \A t \in Tools : pc[t] = "idle"
  /\ turn < MaxTurns
  /\ turn' = turn + 1
  /\ UNCHANGED <<judge, last, briefedIds, sure, unsure, repeated>>

\* Child session, automated run or disabled: the turn is counted, and the guard
\* left as it stands.  So it is with a short response when there is no guard.
CompleteSkipped ==
  /\ Complete
  /\ phase' \in {"idle", "run"}
  /\ streak' = 0
  /\ UNCHANGED <<guard, pc>>

CompleteGuarded ==
  /\ Complete
  /\ guard
  /\ guard' = FALSE
  /\ phase' \in {"idle", "run"}
  /\ streak' = 0
  /\ UNCHANGED pc

CompleteSearch ==
  /\ Complete
  /\ ~guard
  /\ phase' = "complete"
  /\ Goto(Main, "search")
  /\ UNCHANGED <<guard, streak>>

\* _on_briefing_assembled: the briefing hook tells what it delivered.
BriefingAssembled(ids) ==
  /\ briefedIds' = briefedIds \cup ids
  /\ UNCHANGED <<judge, turn, guard, last, handlerVars, historyVars>>

-----------------------------------------------------------------------------
(* _retrieve_and_gate, and what the handlers do with its result            *)

OnCooldown(m) == turn - last[m] < CooldownTurns
OffCooldown(m) == ~OnCooldown(m)        \* mutant: briefed memories come again
Eligible(m) == m \notin briefedIds /\ ~OnCooldown(m)

\* The handler returns; prompt:submit goes on to the run.
Leave(h) ==
  /\ Goto(h, "idle")
  /\ sure' = [sure EXCEPT ![h] = {}] /\ unsure' = [unsure EXCEPT ![h] = {}]
  /\ IF h # Main THEN UNCHANGED phase
     ELSE IF phase = "prompt" THEN phase' = "run" ELSE phase' \in {"idle", "run"}

Skip(h) ==
  /\ Leave(h)
  /\ streak' = IF h = Main THEN 0 ELSE streak
  /\ UNCHANGED <<hookVars, repeated>>

\* The two best scores: what the judge promoted ranks below what passed alone.
Top(passed, promoted) ==
  {top \in SUBSET (passed \cup promoted) :
     /\ top # {} /\ Cardinality(top) <= 2
     /\ passed \subseteq top \/ (top \subseteq passed /\ Cardinality(top) = 2)
     /\ top = passed \cup promoted \/ Cardinality(top) = 2}

\* At orchestrator:complete only a memory that contradicts is injected.
Kept(h, top) ==
  IF h = Main /\ phase = "complete" THEN top \cap Contradicting ELSE top

ToolsOnly(h) == h # Main                \* mutant: no guard against loops
ByMain(h) == h = Main

Stamp == turn

\* _mark_injected, and the guard (not for tool:pre).
Inject(h, top) ==
  /\ last' = [m \in Drawers |-> IF m \in top THEN Stamp ELSE last[m]]
  /\ guard' = (guard \/ ByMain(h))
  /\ Leave(h)
  /\ streak' = IF h = Main THEN streak + 1 ELSE streak
  /\ repeated' = repeated \cup
       {m \in top : m \in briefedIds \/ turn - last[m] < CooldownTurns}
  /\ UNCHANGED <<judge, turn, briefedIds>>

Decide(h, passed, promoted) ==
  IF passed \cup promoted = {} THEN Skip(h)
  ELSE \E top \in Top(passed, promoted) :
         IF Kept(h, top) = {} THEN Skip(h) ELSE Inject(h, Kept(h, top))

\* The daemon's answer, which may be empty: what is neither briefed nor on
\* cooldown is gated by score.  Only the judge is awaited before the decision.
Retrieve(h) ==
  /\ pc[h] = "search"
  /\ \E high, band \in SUBSET {m \in Drawers : Eligible(m)} :
       /\ high \cap band = {}
       /\ IF judge /\ band # {}
          THEN /\ sure' = [sure EXCEPT ![h] = high]
               /\ unsure' = [unsure EXCEPT ![h] = band]
               /\ Goto(h, "judge")
               /\ UNCHANGED <<hookVars, phase, historyVars>>
          ELSE Decide(h, high, {})

Judged(h) ==
  /\ pc[h] = "judge"
  /\ \E promoted \in SUBSET unsure[h] : Decide(h, sure[h], promoted)

InjectNext ==
  \/ PromptSubmit \/ PromptSkipped
  \/ CompleteSkipped \/ CompleteGuarded \/ CompleteSearch
  \/ \E t \in Tools : ToolPre(t)
  \/ \E h \in Handlers : Retrieve(h) \/ Judged(h)
  \/ \E m \in Drawers : BriefingAssembled({m})

InjectSpec == InjectInit /\ [][InjectNext]_injectVars

-----------------------------------------------------------------------------
(* Properties                                                              *)

\* The variables keep their types, and a handler is in flight only in the
\* phase of the session that starts it.
InjectTypeOK ==
  /\ judge \in BOOLEAN /\ turn \in 0 .. MaxTurns /\ guard \in BOOLEAN
  /\ last \in [Drawers -> -999 .. MaxTurns] /\ briefedIds \subseteq Drawers
  /\ phase \in {"idle", "prompt", "run", "complete"}
  /\ pc \in [Handlers -> {"idle", "search", "judge"}]
  /\ sure \in [Handlers -> SUBSET Drawers]
  /\ unsure \in [Handlers -> SUBSET Drawers]
  /\ streak \in Nat /\ repeated \subseteq Drawers
  /\ pc[Main] # "idle" <=> phase \in {"prompt", "complete"}
  /\ \A t \in Tools : pc[t] # "idle" => phase = "run"

\* "min turns between injections for same memory", and never one the briefing
\* showed already: holds for tool calls in parallel as well, because without
\* the judge nothing is awaited between filtering and marking.  (With it, two
\* handlers may both be past the filter when the first of them marks.)
NoRepeat == ~judge => repeated = {}

\* "prevents infinite loops on orchestrator:complete": injections by the Main
\* handlers never follow each other without a skip or a new prompt.
NoInjectionLoop == streak <= 1

\* Why NoInjectionLoop holds: after an injection by Main the guard stands until
\* a handler clears it, and no handler that finds it searches.
LoopInv ==
  /\ streak \in {0, 1}
  /\ phase \in {"prompt", "complete"} => streak = 0
  /\ streak = 1 => guard

\* Why NoRepeat holds: without the judge nobody waits past the filter.
JudgeInv == ~judge => repeated = {} /\ \A h \in Handlers : pc[h] # "judge"
=============================================================================
