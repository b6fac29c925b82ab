----------------------------- MODULE FreshReads -----------------------------
(***************************************************************************)
(* What a reader of the memory store is promised, with no cache in sight.  *)
(* An append is committed to the log and later acknowledged to its caller. *)
(* A read answers from SOME prefix of the log, and that prefix holds every *)
(* event acknowledged before the read was called.  A read may also raise.  *)
(***************************************************************************)
EXTENDS Integers

CONSTANTS Readers     \* the threads that serve read requests

VARIABLES
  log,      \* number of events committed to the append-only log
  acked,    \* position of the last event whose append has returned
  phase,    \* [Readers -> {"idle", "reading", "answered", "raised"}]
  need,     \* [Readers -> Nat]: acked, when the read was called
  answer    \* [Readers -> SUBSET Nat]: {n}, the prefix the read answered from

vars == <<log, acked, phase, need, answer>>

Init ==
  /\ log = 0
  /\ acked = 0
  /\ phase = [r \in Readers |-> "idle"]
  /\ need = [r \in Readers |-> 0]
  /\ answer = [r \in Readers |-> {}]

Commit ==
  /\ log' = log + 1
  /\ UNCHANGED <<acked, phase, need, answer>>

Acknowledge ==
  /\ acked' \in acked .. log
  /\ UNCHANGED <<log, phase, need, answer>>

Call(r) ==
  /\ phase[r] = "idle"
  /\ phase' = [phase EXCEPT ![r] = "reading"]
  /\ need' = [need EXCEPT ![r] = acked]
  /\ UNCHANGED <<log, acked, answer>>

Answer(r) ==
  /\ phase[r] = "reading"
  /\ phase' = [phase EXCEPT ![r] = "answered"]
  /\ \E n \in need[r] .. log : answer' = [answer EXCEPT ![r] = {n}]
  /\ UNCHANGED <<log, acked, need>>

Raise(r) ==
  /\ phase[r] = "reading"
  /\ phase' = [phase EXCEPT ![r] = "raised"]
  /\ UNCHANGED <<log, acked, need, answer>>

Return(r) ==
  /\ phase[r] \in {"answered", "raised"}
  /\ phase' = [phase EXCEPT ![r] = "idle"]
  /\ need' = [need EXCEPT ![r] = 0]
  /\ answer' = [answer EXCEPT ![r] = {}]
  /\ UNCHANGED <<log, acked>>

Next ==
  \/ Commit
  \/ Acknowledge
  \/ \E r \in Readers : Call(r) \/ Answer(r) \/ Raise(r) \/ Return(r)

Spec == Init /\ [][Next]_vars
=============================================================================
