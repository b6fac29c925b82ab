---------------------------- MODULE ContextSleep ----------------------------
(***************************************************************************)
(* context-sleep: a session context with two buffers.  _raw is the whole   *)
(* history; _working is what the next request is given: a consolidated     *)
(* note and the recent messages verbatim.  A message that takes _working   *)
(* over the threshold makes its caller compact the window.                 *)
(*                                                                         *)
(* Compaction works on a copy of _working and awaits hooks and a provider  *)
(* before it overwrites _working.  Tools that run in parallel, and the     *)
(* handlers of the emitted events, reach the same context meanwhile: every *)
(* await lets the other callers run, and only an await does.               *)
(*                                                                         *)
(* A message is its identity.  A note is the set of messages whose content *)
(* it retains, and its size; a provider's note retains what it was given   *)
(* (the faithful prompt asks for that) in one unit of size, a verbatim one *)
(* takes the room of the messages it holds.                                *)
(***************************************************************************)
EXTENDS Naturals, FiniteSets, Sequences, SequencesExt

CONSTANTS
  Messages,     \* message identities; each is added at most once
  Callers,      \* coroutines that use the context concurrently
  Threshold,    \* consolidation_threshold_tokens, a message being one unit
  KeepRecents,  \* the values keep_recent_messages may have
  MaxResets     \* bound: calls of set_messages and clear

ASSUME ContextAssumption ==
  Threshold \in Nat /\ KeepRecents \subseteq Nat /\ MaxResets \in Nat

VARIABLES
  raw,       \* _raw
  working,   \* _working: [note, tail]; note is {} or {[covers, size]}
  hooks, provider, \* are _hooks and _provider wired
  keep,      \* _keep_recent, fixed
  pc,        \* [Callers -> step]: idle, or what compact() awaits
  snap,      \* [Callers -> the copy of _working that compact() took]
  resets,
  raced,     \* history: messages that arrived during another's compaction
  stale      \* history: messages that a reset removed during a compaction

vars == <<raw, working, hooks, provider, keep, pc, snap, resets, raced, stale>>

Note == [covers : SUBSET Messages, size : Nat]
Window == [note : SUBSET Note, tail : Seq(Messages)]
Empty == [note |-> {}, tail |-> <<>>]

Covered(w) == UNION {n.covers : n \in w.note}
Visible(w) == Covered(w) \cup Range(w.tail)
NoteSize(w) == IF w.note = {} THEN 0 ELSE (CHOOSE n \in w.note : TRUE).size

Init ==
  /\ raw = <<>> /\ working = Empty
  /\ hooks = FALSE /\ provider = FALSE
  /\ keep \in KeepRecents
  /\ pc = [c \in Callers |-> "idle"]
  /\ snap = [c \in Callers |-> Empty]
  /\ resets = 0 /\ raced = {} /\ stale = {}

Busy == {c \in Callers : pc[c] # "idle"}

\* Called once; wires what is there, and each of the two may fail on its own.
OnSessionReady ==
  /\ ~hooks /\ ~provider
  /\ hooks' \in {hooks, TRUE} /\ provider' \in {provider, TRUE}
  /\ hooks' \/ provider'
  /\ UNCHANGED <<raw, working, keep, pc, snap, resets, raced, stale>>

-----------------------------------------------------------------------------
(* compact()                                                               *)

ShouldCompact(w) == Len(w.tail) + NoteSize(w) > Threshold

NothingToEvict(s) == Len(s.tail) <= keep

\* verbatim[:-keep_recent] and verbatim[-keep_recent:]; -0 is 0.
EvictedOneMore(s) ==                    \* mutant: the two slices disagree
  IF keep = 0 THEN <<>> ELSE SubSeq(s.tail, 1, Len(s.tail) - keep - 1)
Evicted(s) ==
  IF keep = 0 THEN <<>> ELSE SubSeq(s.tail, 1, Len(s.tail) - keep)
Kept(s) ==
  IF keep = 0 THEN s.tail ELSE SubSeq(s.tail, Len(s.tail) - keep + 1, Len(s.tail))

ForgetsPrior(s) == Range(Evicted(s))    \* mutant: the prior note is left out
ToConsolidate(s) == Covered(s) \cup Range(Evicted(s))

\* The new _working; size is that of the note.
Memory(s, size) == {[covers |-> ToConsolidate(s), size |-> size]}
Rebuilt(s, size) == [note |-> Memory(s, size), tail |-> Kept(s)]

\* The rest of compact() awaits post_compact and sleep_complete, if there are
\* hooks; the copy is not used any more.
EmitPost(c) ==
  /\ pc' = [pc EXCEPT ![c] = IF hooks THEN "post" ELSE "idle"]
  /\ snap' = [snap EXCEPT ![c] = Empty]

\* What runs without an await once context:pre_compact has been emitted, s being
\* the copy and w the window by then: the early return, the provider call, or
\* the verbatim fallback.
AfterPre(c, s, w) ==
  \/ /\ NothingToEvict(s)
     /\ working' = w
     /\ EmitPost(c)
  \/ /\ ~NothingToEvict(s) /\ provider
     /\ working' = w
     /\ pc' = [pc EXCEPT ![c] = "llm"] /\ snap' = [snap EXCEPT ![c] = s]
  \/ /\ ~NothingToEvict(s) /\ ~provider
     /\ working' = Rebuilt(s, NoteSize(s) + Len(Evicted(s)))
     /\ EmitPost(c)

PreCompactEmitted(c) ==
  /\ pc[c] = "pre"
  /\ AfterPre(c, snap[c], working)
  /\ UNCHANGED <<raw, hooks, provider, keep, resets, raced, stale>>

\* _call_provider returns a note, or None on any failure: then the fallback.
ProviderReturns(c) ==
  /\ pc[c] = "llm"
  /\ \E size \in {1, NoteSize(snap[c]) + Len(Evicted(snap[c]))} :
       working' = Rebuilt(snap[c], size)
  /\ EmitPost(c)
  /\ UNCHANGED <<raw, hooks, provider, keep, resets, raced, stale>>

PostCompactEmitted(c) ==
  /\ pc[c] = "post"
  /\ pc' = [pc EXCEPT ![c] = "idle"]
  /\ UNCHANGED <<raw, working, hooks, provider, keep, snap, resets, raced, stale>>

-----------------------------------------------------------------------------
(* The ContextManager protocol                                             *)

AddMessage(c, m) ==
  LET w == [working EXCEPT !.tail = Append(@, m)] IN
  /\ pc[c] = "idle"
  /\ m \notin Range(raw) \cup Visible(working) \cup stale \cup raced
       \cup UNION {Visible(snap[b]) : b \in Busy}
  /\ raw' = Append(raw, m)
  /\ raced' = IF Busy = {} THEN raced ELSE raced \cup {m}
  /\ \/ ~ShouldCompact(w) /\ working' = w /\ UNCHANGED <<pc, snap>>
     \/ /\ ShouldCompact(w) /\ hooks
        /\ working' = w
        /\ pc' = [pc EXCEPT ![c] = "pre"] /\ snap' = [snap EXCEPT ![c] = w]
     \/ ShouldCompact(w) /\ ~hooks /\ AfterPre(c, w, w)
  /\ UNCHANGED <<hooks, provider, keep, resets, stale>>

\* Both buffers are replaced, whoever is compacting.
NoteSurvives(msgs) == [working EXCEPT !.tail = msgs]   \* mutant: the note stays
WorkingOf(msgs) == [note |-> {}, tail |-> msgs]

Replace(c, msgs) ==
  /\ pc[c] = "idle"
  /\ resets < MaxResets
  /\ resets' = resets + 1
  /\ raw' = msgs
  /\ working' = WorkingOf(msgs)
  /\ stale' = stale \cup IF Busy = {} THEN {} ELSE Visible(working) \cup Range(raw)
                                   \cup UNION {Visible(snap[b]) : b \in Busy}
  /\ UNCHANGED <<hooks, provider, keep, pc, snap, raced>>

\* Resume and rewind: the stored history, or the beginning of it.
SetMessages(c) ==
  \E n \in 1 .. Len(raw) : Replace(c, SubSeq(raw, 1, n))

\* Also the cleanup of mount().
Clear(c) == Replace(c, <<>>)

Compaction(c) == PreCompactEmitted(c) \/ ProviderReturns(c) \/ PostCompactEmitted(c)

Next ==
  \/ OnSessionReady
  \/ \E c \in Callers :
       \/ Compaction(c) \/ SetMessages(c) \/ Clear(c)
       \/ \E m \in Messages : AddMessage(c, m)

Spec == Init /\ [][Next]_vars

-----------------------------------------------------------------------------
(* Properties                                                              *)

\* The variables keep their types; there is at most one consolidated note.
TypeOK ==
  /\ raw \in Seq(Messages)
  /\ working \in Window /\ Cardinality(working.note) <= 1
  /\ hooks \in BOOLEAN /\ provider \in BOOLEAN /\ keep \in KeepRecents
  /\ pc \in [Callers -> {"idle", "pre", "llm", "post"}]
  /\ snap \in [Callers -> Window]
  /\ resets \in 0 .. MaxResets
  /\ raced \subseteq Messages /\ stale \subseteq Messages

\* "no data ever silently lost": every message of the history is in the window,
\* verbatim or in its note.  The exceptions: a message that arrived, or survived
\* a reset, while another caller was compacting.
OnlyRacersAreLost == Range(raw) \ (raced \cup stale) \subseteq Visible(working)

\* A reset is final: the window brings back a message that is no longer in the
\* history only if a compaction was under way when it was removed.
OnlyRacersComeBack == Visible(working) \subseteq Range(raw) \cup stale

\* Without an overlap the window is the history in order: the note retains a
\* beginning of it, and the rest follows verbatim.
Retells(w, history) ==
  \E n \in 0 .. Len(history) :
    /\ w.tail = SubSeq(history, n + 1, Len(history))
    /\ Covered(w) = Range(SubSeq(history, 1, n))
WindowIsHistory == raced = {} /\ stale = {} => Retells(working, raw)

\* A provider is only asked about a copy that has messages to evict.
HasEvicted == \A c \in Callers : pc[c] = "llm" => ~NothingToEvict(snap[c])

\* Why the two hold: they hold of the window, and of every copy of it that a
\* compaction will still put in its place.
Bounds(w) ==
  /\ Range(raw) \ (raced \cup stale) \subseteq Visible(w)
  /\ Visible(w) \subseteq Range(raw) \cup stale
WindowInv ==
  /\ Bounds(working)
  /\ \A c \in Callers : pc[c] \in {"pre", "llm"} => Bounds(snap[c])

\* Why WindowIsHistory holds: it holds of those copies, too.
HistoryInv ==
  raced = {} /\ stale = {} =>
    /\ Retells(working, raw)
    /\ \A c \in Callers : pc[c] \in {"pre", "llm"} => Retells(snap[c], raw)
=============================================================================
