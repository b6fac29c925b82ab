------------------------- MODULE ContextSleep_proofs -------------------------
(***************************************************************************)
(* Machine-checked proofs about ContextSleep, for any messages, any number *)
(* of callers, any threshold and any keep_recent_messages.                 *)
(***************************************************************************)
EXTENDS ContextSleep, FiniteSetTheorems, SequenceTheorems, TLAPS

-----------------------------------------------------------------------------
(* The two slices of compact()                                             *)

\* verbatim[:-k] and verbatim[-k:] are sequences of the same messages ...
LEMMA Slices ==
  ASSUME keep \in Nat, NEW s \in Window, keep <= Len(s.tail)
  PROVE  /\ Evicted(s) \in Seq(Messages) /\ Kept(s) \in Seq(Messages)
         /\ Len(Evicted(s)) \in Nat
<1>1. s.tail \in Seq(Messages) /\ Len(s.tail) \in Nat
  BY DEF Window
<1>2. QED
  BY <1>1, SubSeqProperties DEF Evicted, Kept

\* ... and together they hold all of them.
LEMMA SlicesCover ==
  ASSUME keep \in Nat, NEW s \in Window, keep <= Len(s.tail)
  PROVE  Range(Evicted(s)) \cup Range(Kept(s)) = Range(s.tail)
<1> DEFINE t == s.tail
           n == Len(t)
<1>1. t \in Seq(Messages) /\ n \in Nat /\ DOMAIN t = 1 .. n
  BY DEF Window
<1>2. CASE keep = 0
  BY <1>2, <1>1 DEF Evicted, Kept, Range
<1>3. CASE keep > 0
  <2>1. /\ Evicted(s) = SubSeq(t, 1, n - keep)
        /\ Kept(s) = SubSeq(t, n - keep + 1, n)
    BY <1>3 DEF Evicted, Kept
  <2> DEFINE m == n - keep
  <2>a. m \in Nat /\ n = m + keep
    BY <1>1
  <2>b. n \in Nat
    BY <1>1
  <2> HIDE DEF m, n
  <2>2. Range(SubSeq(t, 1, m)) = {t[i] : i \in 1 .. m}
    <3>1. /\ DOMAIN SubSeq(t, 1, m) = 1 .. m
          /\ \A i \in 1 .. m : SubSeq(t, 1, m)[i] = t[i]
      BY <1>1, <2>a
    <3>2. QED
      BY <3>1 DEF Range
  <2>3. Range(SubSeq(t, m + 1, n)) = {t[i] : i \in m + 1 .. n}
    <3>1. /\ DOMAIN SubSeq(t, m + 1, n) = 1 .. keep
          /\ \A i \in 1 .. keep : SubSeq(t, m + 1, n)[i] = t[m + i]
      BY <1>1, <2>a, <2>b
    <3>2. \A i \in m + 1 .. n : i - m \in 1 .. keep /\ t[m + (i - m)] = t[i]
      <4>1. \A i \in m + 1 .. n : i - m \in 1 .. keep /\ m + (i - m) = i
        BY <2>a, <2>b
      <4>2. QED
        BY <4>1
    <3>3. \A i \in 1 .. keep : m + i \in m + 1 .. n
      BY <2>a, <2>b
    <3>4. {t[m + i] : i \in 1 .. keep} = {t[i] : i \in m + 1 .. n}
      BY <3>2, <3>3
    <3>5. QED
      BY <3>1, <3>4 DEF Range
  <2>4. Range(t) = {t[i] : i \in 1 .. n}
    BY <1>1 DEF Range
  <2>5. 1 .. n = (1 .. m) \cup (m + 1 .. n)
    BY <2>a, <2>b
  <2>6. Evicted(s) = SubSeq(t, 1, m) /\ Kept(s) = SubSeq(t, m + 1, n)
    BY <2>1 DEF m
  <2>7. QED
    BY <2>2, <2>3, <2>4, <2>5, <2>6
<1>4. QED
  BY <1>2, <1>3

\* Appending adds one element to what a sequence holds.
LEMMA RangeOfAppend ==
  ASSUME NEW T, NEW t \in Seq(T), NEW x \in T
  PROVE  Range(Append(t, x)) = Range(t) \cup {x}
<1> DEFINE u == Append(t, x)
           n == Len(t)
<1>1. n \in Nat /\ Len(u) = n + 1 /\ u[n + 1] = x /\ \A i \in 1 .. n : u[i] = t[i]
  BY AppendProperties
<1>2. DOMAIN u = 1 .. n + 1 /\ DOMAIN t = 1 .. n
  BY <1>1, AppendProperties, LenProperties
<1>3. 1 .. n + 1 = (1 .. n) \cup {n + 1}
  BY <1>1
<1>4. QED
  BY <1>1, <1>2, <1>3 DEF Range

\* A rebuilt window shows what the copy it was built from showed.
LEMMA RebuiltShowsAll ==
  ASSUME keep \in Nat, NEW s \in Window, ~NothingToEvict(s), NEW size
  PROVE  Visible(Rebuilt(s, size)) = Visible(s)
<1>1. keep <= Len(s.tail)
  BY DEF NothingToEvict, Window
<1>2. Covered(Rebuilt(s, size)) = Covered(s) \cup Range(Evicted(s))
  BY DEF Covered, Rebuilt, Memory, ToConsolidate
<1>3. Rebuilt(s, size).tail = Kept(s)
  BY DEF Rebuilt
<1>4. QED
  BY <1>1, <1>2, <1>3, SlicesCover DEF Visible

-----------------------------------------------------------------------------
(* Types                                                                   *)

LEMMA NoteSizeIsNat ==
  ASSUME NEW s \in Window
  PROVE  NoteSize(s) \in Nat
<1>1. CASE s.note = {}
  BY <1>1 DEF NoteSize
<1>2. CASE s.note # {}
  <2>1. (CHOOSE n \in s.note : TRUE) \in Note
    BY <1>2 DEF Window
  <2>2. QED
    BY <1>2, <2>1 DEF NoteSize, Note
<1>3. QED
  BY <1>1, <1>2

\* A rebuilt window is a window with one note.
LEMMA RebuiltIsWindow ==
  ASSUME keep \in Nat, NEW s \in Window, ~NothingToEvict(s), NEW size \in Nat
  PROVE  Rebuilt(s, size) \in Window /\ Cardinality(Rebuilt(s, size).note) <= 1
<1>1. keep <= Len(s.tail)
  BY DEF NothingToEvict, Window
<1>2. Kept(s) \in Seq(Messages) /\ Range(Evicted(s)) \subseteq Messages
  <2>1. Evicted(s) \in Seq(Messages) /\ Kept(s) \in Seq(Messages)
    BY <1>1, Slices
  <2>2. QED
    BY <2>1, RangeOfSeq DEF Range
<1>3. Covered(s) \subseteq Messages
  BY DEF Covered, Window, Note
<1>4. Rebuilt(s, size).note = {[covers |-> ToConsolidate(s), size |-> size]}
  BY DEF Rebuilt, Memory
<1>5. Cardinality(Rebuilt(s, size).note) = 1
  BY <1>4, FS_Singleton
<1>6. [covers |-> ToConsolidate(s), size |-> size] \in Note
  BY <1>2, <1>3 DEF ToConsolidate, Note
<1>7. Rebuilt(s, size) \in Window
  BY <1>2, <1>4, <1>6 DEF Rebuilt, Window
<1>8. QED
  BY <1>5, <1>7

\* What a compaction leaves after pre_compact, or after the provider, is a
\* window, and so is its copy.
LEMMA AfterPreTypes ==
  ASSUME TypeOK, NEW c \in Callers, NEW s \in Window, NEW w \in Window,
         Cardinality(w.note) <= 1, AfterPre(c, s, w)
  PROVE  /\ working' \in Window /\ Cardinality(working'.note) <= 1
         /\ pc' \in [Callers -> {"idle", "pre", "llm", "post"}]
         /\ snap' \in [Callers -> Window]
         /\ pc'[c] = "llm" => snap'[c] = s /\ ~NothingToEvict(s)
         /\ \A b \in Callers \ {c} : pc'[b] = pc[b] /\ snap'[b] = snap[b]
<1>1. keep \in Nat
  BY ContextAssumption DEF TypeOK
<1>2. Empty \in Window
  BY EmptySeq DEF Empty, Window
<1>3. CASE ~NothingToEvict(s) /\ working' = Rebuilt(s, NoteSize(s) + Len(Evicted(s))) /\ EmitPost(c)
  <2>1. NoteSize(s) + Len(Evicted(s)) \in Nat
    <3>1. keep <= Len(s.tail)
      BY <1>1, <1>3 DEF NothingToEvict, Window
    <3>2. QED
      BY <1>1, <3>1, Slices, NoteSizeIsNat
  <2>2. QED
    BY <1>1, <1>2, <1>3, <2>1, RebuiltIsWindow DEF EmitPost, TypeOK
<1>4. CASE working' = w /\ EmitPost(c)
  BY <1>2, <1>4 DEF EmitPost, TypeOK
<1>5. CASE /\ working' = w /\ ~NothingToEvict(s)
           /\ pc' = [pc EXCEPT ![c] = "llm"] /\ snap' = [snap EXCEPT ![c] = s]
  BY <1>5 DEF TypeOK
<1>6. QED
  BY <1>3, <1>4, <1>5 DEF AfterPre

\* The types, and what a provider is asked about, are inductive together.
LEMMA TypesInductive == Spec => [](TypeOK /\ HasEvicted)
<1> USE ContextAssumption
<1>0. Empty \in Window /\ Cardinality(Empty.note) <= 1
  BY EmptySeq, FS_EmptySet DEF Empty, Window
<1>1. Init => TypeOK /\ HasEvicted
  <2> SUFFICES ASSUME Init PROVE TypeOK /\ HasEvicted
    OBVIOUS
  <2>1. raw \in Seq(Messages) /\ working \in Window /\ Cardinality(working.note) <= 1
    BY <1>0, EmptySeq DEF Init
  <2>2. pc \in [Callers -> {"idle", "pre", "llm", "post"}] /\ snap \in [Callers -> Window]
    BY <1>0 DEF Init
  <2>3. /\ hooks \in BOOLEAN /\ provider \in BOOLEAN /\ keep \in KeepRecents
        /\ raced \subseteq Messages /\ stale \subseteq Messages
    BY DEF Init
  <2>r. resets \in 0 .. MaxResets
    BY DEF Init
  <2>4. HasEvicted
    BY DEF Init, HasEvicted
  <2>5. QED
    BY <2>1, <2>2, <2>3, <2>r, <2>4 DEF TypeOK
<1>2. TypeOK /\ HasEvicted /\ [Next]_vars => TypeOK' /\ HasEvicted'
  <2> SUFFICES ASSUME TypeOK, HasEvicted, [Next]_vars PROVE TypeOK' /\ HasEvicted'
    OBVIOUS
  <2>0. keep \in Nat /\ working \in Window /\ Cardinality(working.note) <= 1
    BY DEF TypeOK
  <2>1. CASE OnSessionReady
    BY <2>1 DEF OnSessionReady, TypeOK, HasEvicted, NothingToEvict
  <2>2. ASSUME NEW c \in Callers, PreCompactEmitted(c) PROVE TypeOK' /\ HasEvicted'
    <3>1. snap[c] \in Window /\ AfterPre(c, snap[c], working)
      BY <2>2 DEF PreCompactEmitted, TypeOK
    <3>2. QED
      BY <2>0, <2>2, <3>1, AfterPreTypes DEF PreCompactEmitted, TypeOK, HasEvicted, NothingToEvict
  <2>3. ASSUME NEW c \in Callers, ProviderReturns(c) PROVE TypeOK' /\ HasEvicted'
    <3>1. snap[c] \in Window /\ ~NothingToEvict(snap[c])
      BY <2>3 DEF ProviderReturns, TypeOK, HasEvicted
    <3>2. NoteSize(snap[c]) + Len(Evicted(snap[c])) \in Nat
      <4>1. keep <= Len(snap[c].tail)
        BY <2>0, <3>1 DEF NothingToEvict, Window
      <4>2. QED
        BY <2>0, <3>1, <4>1, Slices, NoteSizeIsNat
    <3>3. PICK size \in Nat : working' = Rebuilt(snap[c], size)
      BY <2>3, <3>2 DEF ProviderReturns
    <3>4. working' \in Window /\ Cardinality(working'.note) <= 1
      BY <2>0, <3>1, <3>3, RebuiltIsWindow
    <3>5. /\ pc' \in [Callers -> {"idle", "pre", "llm", "post"}]
          /\ snap' \in [Callers -> Window]
          /\ HasEvicted'
      BY <1>0, <2>3 DEF ProviderReturns, EmitPost, TypeOK, HasEvicted, NothingToEvict
    <3>6. QED
      BY <2>3, <3>4, <3>5 DEF ProviderReturns, TypeOK
  <2>4. ASSUME NEW c \in Callers, PostCompactEmitted(c) PROVE TypeOK' /\ HasEvicted'
    BY <2>4 DEF PostCompactEmitted, TypeOK, HasEvicted, NothingToEvict
  <2>5. ASSUME NEW c \in Callers, NEW m \in Messages, AddMessage(c, m)
        PROVE  TypeOK' /\ HasEvicted'
    <3> DEFINE w == [working EXCEPT !.tail = Append(@, m)]
    <3>1. w \in Window /\ Cardinality(w.note) <= 1
      BY <2>0 DEF Window
    <3>2. raw' \in Seq(Messages) /\ raced' \subseteq Messages
      BY <2>5 DEF AddMessage, TypeOK
    <3> HIDE DEF w
    <3>3. CASE working' = w /\ UNCHANGED <<pc, snap>>
      BY <2>5, <3>1, <3>2, <3>3 DEF AddMessage, TypeOK, HasEvicted, NothingToEvict
    <3>4. CASE /\ working' = w
               /\ pc' = [pc EXCEPT ![c] = "pre"] /\ snap' = [snap EXCEPT ![c] = w]
      <4>1. /\ pc' \in [Callers -> {"idle", "pre", "llm", "post"}]
            /\ snap' \in [Callers -> Window]
            /\ \A b \in Callers : pc'[b] = "llm" => pc[b] = "llm" /\ snap'[b] = snap[b]
        BY <3>1, <3>4 DEF TypeOK
      <4>2. QED
        BY <2>5, <3>1, <3>2, <3>4, <4>1 DEF AddMessage, TypeOK, HasEvicted, NothingToEvict
    <3>5. CASE AfterPre(c, w, w)
      BY <2>5, <3>1, <3>2, <3>5, AfterPreTypes
         DEF AddMessage, TypeOK, HasEvicted, NothingToEvict
    <3>6. QED
      BY <2>5, <3>3, <3>4, <3>5 DEF AddMessage, w
  <2>6. ASSUME NEW c \in Callers, NEW msgs \in Seq(Messages), Replace(c, msgs)
        PROVE  TypeOK' /\ HasEvicted'
    <3>1. working' \in Window /\ Cardinality(working'.note) <= 1
      BY <2>6, FS_EmptySet DEF Replace, WorkingOf, Window
    <3>2. stale' \subseteq Messages
      <4>1. \A s \in Window : Visible(s) \subseteq Messages
        BY RangeOfSeq DEF Visible, Covered, Window, Note, Range
      <4>2. Range(raw) \subseteq Messages
        BY RangeOfSeq DEF Range, TypeOK
      <4>3. \A b \in Busy : Visible(snap[b]) \subseteq Messages
        BY <4>1 DEF Busy, TypeOK
      <4>4. QED
        BY <2>0, <2>6, <4>1, <4>2, <4>3 DEF Replace, TypeOK
    <3>3. resets' \in 0 .. MaxResets
      BY <2>6 DEF Replace, TypeOK
    <3>4. QED
      BY <2>6, <3>1, <3>2, <3>3 DEF Replace, TypeOK, HasEvicted, NothingToEvict
  <2>7. ASSUME NEW c \in Callers, SetMessages(c) PROVE TypeOK' /\ HasEvicted'
    <3>1. PICK n \in 1 .. Len(raw) : Replace(c, SubSeq(raw, 1, n))
      BY <2>7 DEF SetMessages
    <3>2. SubSeq(raw, 1, n) \in Seq(Messages)
      BY <3>1, SubSeqProperties DEF TypeOK
    <3>3. QED
      BY <2>6, <3>1, <3>2
  <2>8. ASSUME NEW c \in Callers, Clear(c) PROVE TypeOK' /\ HasEvicted'
    BY <2>6, <2>8, EmptySeq DEF Clear
  <2>9. CASE UNCHANGED vars
    BY <2>9 DEF vars, TypeOK, HasEvicted, NothingToEvict
  <2>10. QED
    BY <2>1, <2>2, <2>3, <2>4, <2>5, <2>7, <2>8, <2>9 DEF Next, Compaction
<1>3. QED
  BY <1>1, <1>2, PTL DEF Spec

\* The context's buffers keep their types, and the window one note at most.
THEOREM TypeCorrect == Spec => []TypeOK
  BY TypesInductive, PTL

-----------------------------------------------------------------------------
(* What a window shows                                                     *)

\* Whatever await a compaction returns from, the window it leaves shows what its
\* copy, or the window as it was, shows.
LEMMA AfterPreShows ==
  ASSUME TypeOK, NEW c \in Callers, NEW s \in Window, NEW w \in Window,
         AfterPre(c, s, w)
  PROVE  /\ Visible(working') = Visible(s) \/ working' = w
         /\ pc'[c] \in {"pre", "llm"} => snap'[c] = s
         /\ \A b \in Callers \ {c} : pc'[b] = pc[b] /\ snap'[b] = snap[b]
<1>1. keep \in Nat
  BY ContextAssumption DEF TypeOK
<1>2. Visible(working') = Visible(s) \/ working' = w
  BY <1>1, RebuiltShowsAll DEF AfterPre
<1>3. CASE EmitPost(c)
  BY <1>2, <1>3 DEF EmitPost, TypeOK
<1>4. CASE pc' = [pc EXCEPT ![c] = "llm"] /\ snap' = [snap EXCEPT ![c] = s]
  BY <1>2, <1>4 DEF TypeOK
<1>5. QED
  BY <1>3, <1>4 DEF AfterPre

\* A step that changes no history keeps the bounds of the windows it leaves.
LEMMA Compacts ==
  ASSUME WindowInv, UNCHANGED <<raw, raced, stale>>, NEW c \in Callers,
         \/ working' = working
         \/ pc[c] \in {"pre", "llm"} /\ Visible(working') = Visible(snap[c]),
         pc'[c] \in {"pre", "llm"} =>
           pc[c] \in {"pre", "llm"} /\ snap'[c] = snap[c],
         \A b \in Callers \ {c} : pc'[b] = pc[b] /\ snap'[b] = snap[b]
  PROVE  WindowInv'
BY DEF WindowInv, Bounds

LEMMA WindowInductive == Spec => []WindowInv
<1>1. Init => WindowInv
  BY DEF Init, WindowInv, Bounds, Visible, Covered, Empty, Range
<1>2. TypeOK /\ HasEvicted /\ WindowInv /\ [Next]_vars => WindowInv'
  <2> SUFFICES ASSUME TypeOK, HasEvicted, WindowInv, [Next]_vars PROVE WindowInv'
    OBVIOUS
  <2>0. keep \in Nat /\ working \in Window
    BY ContextAssumption DEF TypeOK
  <2>1. CASE OnSessionReady
    BY <2>1 DEF OnSessionReady, WindowInv, Bounds
  <2>2. ASSUME NEW c \in Callers, PreCompactEmitted(c) PROVE WindowInv'
    <3>1. pc[c] = "pre" /\ snap[c] \in Window /\ AfterPre(c, snap[c], working)
      BY <2>2 DEF PreCompactEmitted, TypeOK
    <3>2. QED
      BY <2>0, <2>2, <3>1, AfterPreShows, Compacts DEF PreCompactEmitted
  <2>3. ASSUME NEW c \in Callers, ProviderReturns(c) PROVE WindowInv'
    <3>1. pc[c] = "llm" /\ snap[c] \in Window /\ ~NothingToEvict(snap[c])
      BY <2>3 DEF ProviderReturns, TypeOK, HasEvicted
    <3>2. Visible(working') = Visible(snap[c])
      BY <2>0, <2>3, <3>1, RebuiltShowsAll DEF ProviderReturns
    <3>3. /\ pc'[c] \notin {"pre", "llm"}
          /\ \A b \in Callers \ {c} : pc'[b] = pc[b] /\ snap'[b] = snap[b]
      BY <2>3 DEF ProviderReturns, EmitPost, TypeOK
    <3>4. QED
      BY <2>3, <3>1, <3>2, <3>3, Compacts DEF ProviderReturns
  <2>4. ASSUME NEW c \in Callers, PostCompactEmitted(c) PROVE WindowInv'
    BY <2>4, Compacts DEF PostCompactEmitted, TypeOK
  <2>5. ASSUME NEW c \in Callers, NEW m \in Messages, AddMessage(c, m)
        PROVE  WindowInv'
    <3> DEFINE w == [working EXCEPT !.tail = Append(@, m)]
    <3>1. w \in Window
      BY <2>0 DEF Window
    <3>2. Visible(w) = Visible(working) \cup {m}
      <4>1. w.tail = Append(working.tail, m) /\ w.note = working.note
        BY <2>0 DEF Window
      <4>2. Range(Append(working.tail, m)) = Range(working.tail) \cup {m}
        BY <2>0, RangeOfAppend DEF Window
      <4>3. QED
        BY <4>1, <4>2 DEF Visible, Covered
    <3>3. Range(raw') = Range(raw) \cup {m}
      <4>1. raw' = Append(raw, m) /\ raw \in Seq(Messages)
        BY <2>5 DEF AddMessage, TypeOK
      <4>2. QED
        BY <4>1, RangeOfAppend
    <3>4. stale' = stale /\ raced \subseteq raced'
      BY <2>5 DEF AddMessage
    <3>5. \A v : Visible(v) = Visible(w) => Bounds(v)'
      BY <3>2, <3>3, <3>4 DEF WindowInv, Bounds
    <3>6. ASSUME NEW b \in Callers, pc[b] \in {"pre", "llm"}, NEW v, v = snap[b]
          PROVE  Bounds(v)'
      <4>1. m \in raced'
        BY <2>5, <3>6 DEF AddMessage, Busy
      <4>2. Bounds(v)
        BY <3>6 DEF WindowInv
      <4>3. QED
        BY <3>3, <3>4, <4>1, <4>2 DEF Bounds
    <3>7. pc[c] = "idle"
      BY <2>5 DEF AddMessage
    <3> HIDE DEF w
    <3>8. CASE working' = w /\ UNCHANGED <<pc, snap>>
      BY <3>5, <3>6, <3>8 DEF WindowInv
    <3>9. CASE /\ working' = w
               /\ pc' = [pc EXCEPT ![c] = "pre"] /\ snap' = [snap EXCEPT ![c] = w]
      <4>1. snap'[c] = w /\ \A b \in Callers \ {c} : pc'[b] = pc[b] /\ snap'[b] = snap[b]
        BY <3>9 DEF TypeOK
      <4>2. Bounds(working)'
        BY <3>5, <3>9
      <4>3. \A b \in Callers : pc'[b] \in {"pre", "llm"} => Bounds(snap[b])'
        BY <3>5, <3>6, <4>1
      <4>4. QED
        BY <4>2, <4>3 DEF WindowInv
    <3>10. CASE AfterPre(c, w, w)
      <4>1. /\ Visible(working') = Visible(w)
            /\ pc'[c] \in {"pre", "llm"} => snap'[c] = w
            /\ \A b \in Callers \ {c} : pc'[b] = pc[b] /\ snap'[b] = snap[b]
        BY <3>1, <3>10, AfterPreShows
      <4>2. Bounds(working)'
        BY <3>5, <4>1
      <4>3. \A b \in Callers : pc'[b] \in {"pre", "llm"} => Bounds(snap[b])'
        BY <3>5, <3>6, <4>1
      <4>4. QED
        BY <4>2, <4>3 DEF WindowInv
    <3>11. QED
      BY <2>5, <3>8, <3>9, <3>10 DEF AddMessage, w
  <2>6. ASSUME NEW c \in Callers, NEW msgs \in Seq(Messages), Replace(c, msgs),
               Range(msgs) \subseteq Range(raw)
        PROVE  WindowInv'
    <3>1. Visible(working') = Range(msgs)
      BY <2>6 DEF Replace, WorkingOf, Visible, Covered
    <3>2. raw' = msgs /\ raced' = raced /\ pc' = pc /\ snap' = snap
      BY <2>6 DEF Replace
    <3>3. Bounds(working)'
      BY <3>1, <3>2 DEF Bounds
    <3>4. ASSUME NEW b \in Callers, pc[b] \in {"pre", "llm"}
          PROVE  Bounds(snap[b])'
      <4>1. b \in Busy
        BY <3>4 DEF Busy
      <4>2. Range(raw) \subseteq stale' /\ Visible(snap[b]) \subseteq stale'
        BY <2>6, <4>1 DEF Replace
      <4>3. QED
        BY <2>6, <3>2, <4>2 DEF Bounds
    <3>5. QED
      BY <3>2, <3>3, <3>4 DEF WindowInv
  <2>7. ASSUME NEW c \in Callers, SetMessages(c) PROVE WindowInv'
    <3>1. PICK n \in 1 .. Len(raw) : Replace(c, SubSeq(raw, 1, n))
      BY <2>7 DEF SetMessages
    <3>2. SubSeq(raw, 1, n) \in Seq(Messages)
      BY <3>1, SubSeqProperties DEF TypeOK
    <3>3. Range(SubSeq(raw, 1, n)) \subseteq Range(raw)
      BY <3>1, SubSeqProperties DEF Range, TypeOK
    <3>4. QED
      BY <2>6, <3>1, <3>2, <3>3
  <2>8. ASSUME NEW c \in Callers, Clear(c) PROVE WindowInv'
    <3>1. <<>> \in Seq(Messages) /\ Range(<<>>) \subseteq Range(raw)
      BY EmptySeq DEF Range
    <3>2. QED
      BY <2>6, <2>8, <3>1 DEF Clear
  <2>9. CASE UNCHANGED vars
    BY <2>9 DEF vars, WindowInv, Bounds
  <2>10. QED
    BY <2>1, <2>2, <2>3, <2>4, <2>5, <2>7, <2>8, <2>9 DEF Next, Compaction
<1>3. QED
  BY <1>1, <1>2, TypesInductive, PTL DEF Spec

\* Only a message that arrived, or survived a reset, while another caller was
\* compacting can be missing from the window.
THEOREM WindowLosesOnlyRacers == Spec => []OnlyRacersAreLost
<1>1. WindowInv => OnlyRacersAreLost
  BY DEF WindowInv, Bounds, OnlyRacersAreLost
<1>2. QED
  BY <1>1, WindowInductive, PTL

\* What a reset removed comes back only through a compaction under way.
THEOREM ResetsAreFinal == Spec => []OnlyRacersComeBack
<1>1. WindowInv => OnlyRacersComeBack
  BY DEF WindowInv, Bounds, OnlyRacersComeBack
<1>2. QED
  BY <1>1, WindowInductive, PTL
-----------------------------------------------------------------------------
(* The window as a piece of the history                                    *)

\* What a slice r[i:j] holds.
LEMMA Slice ==
  ASSUME NEW T, NEW r \in Seq(T), NEW i \in 0 .. Len(r), NEW j \in i .. Len(r)
  PROVE  /\ SubSeq(r, i + 1, j) \in Seq(T)
         /\ Len(SubSeq(r, i + 1, j)) = j - i
         /\ \A k \in 1 .. j - i : SubSeq(r, i + 1, j)[k] = r[i + k]
         /\ Range(SubSeq(r, i + 1, j)) = {r[k] : k \in i + 1 .. j}
<1> DEFINE t == SubSeq(r, i + 1, j)
<1>1. i \in Nat /\ j \in Nat /\ Len(r) \in Nat /\ i <= j /\ j <= Len(r)
  BY LenProperties
<1>2. \A k \in i + 1 .. j : r[k] \in T
  BY <1>1, ElementOfSeq
<1>3. /\ t \in Seq(T) /\ Len(t) = IF i + 1 <= j THEN j - (i + 1) + 1 ELSE 0
      /\ \A k \in 1 .. j - (i + 1) + 1 : t[k] = r[i + 1 + k - 1]
  BY <1>1, <1>2, SubSeqProperties
<1>4. j - (i + 1) + 1 = j - i /\ \A k \in 1 .. j - i : i + 1 + k - 1 = i + k
  BY <1>1
<1>5. Len(t) = j - i /\ \A k \in 1 .. j - i : t[k] = r[i + k]
  BY <1>1, <1>3, <1>4
<1>6. DOMAIN t = 1 .. j - i
  BY <1>3, <1>5, LenProperties
<1> HIDE DEF t
<1>7. {t[k] : k \in 1 .. j - i} = {r[k] : k \in i + 1 .. j}
  <2>1. \A k \in 1 .. j - i : i + k \in i + 1 .. j
    BY <1>1
  <2>2. \A k \in i + 1 .. j : k - i \in 1 .. j - i /\ i + (k - i) = k
    BY <1>1
  <2>3. \A k \in i + 1 .. j : t[k - i] = r[k]
    BY <1>5, <2>2
  <2>4. QED
    BY <1>5, <2>1, <2>2, <2>3
<1>8. Range(t) = {r[k] : k \in i + 1 .. j}
  BY <1>6, <1>7 DEF Range
<1>9. QED
  BY <1>3, <1>5, <1>8 DEF t

LEMMA Prefix ==
  ASSUME NEW T, NEW r \in Seq(T), NEW n \in 0 .. Len(r)
  PROVE  Range(SubSeq(r, 1, n)) = {r[k] : k \in 1 .. n}
<1>1. 0 \in 0 .. Len(r) /\ n \in 0 .. Len(r) /\ 0 + 1 = 1
  BY LenProperties
<1>2. Range(SubSeq(r, 0 + 1, n)) = {r[k] : k \in 0 + 1 .. n}
  BY <1>1, Slice
<1>3. QED
  BY <1>1, <1>2

\* Splitting the rest of a sequence: what comes after, and what came before.
LEMMA SplitRest ==
  ASSUME NEW T, NEW r \in Seq(T), NEW n \in 0 .. Len(r), NEW m \in Nat,
         n + m <= Len(r), NEW t, t = SubSeq(r, n + 1, Len(r))
  PROVE  /\ SubSeq(t, m + 1, Len(t)) = SubSeq(r, n + m + 1, Len(r))
         /\ Range(SubSeq(r, 1, n)) \cup Range(SubSeq(t, 1, m)) = Range(SubSeq(r, 1, n + m))
<1> DEFINE L == Len(r)
<1>1. L \in Nat /\ n \in Nat /\ n <= L /\ n + m \in 0 .. L
  BY LenProperties
<1>2. t \in Seq(T) /\ Len(t) = L - n /\ \A k \in 1 .. L - n : t[k] = r[n + k]
  BY <1>1, Slice
<1>3. m \in 0 .. Len(t) /\ Len(t) \in Nat
  BY <1>1, <1>2
<1>4. SubSeq(t, m + 1, Len(t)) = SubSeq(r, n + m + 1, L)
  <2> DEFINE u == SubSeq(t, m + 1, Len(t))
             v == SubSeq(r, n + m + 1, L)
  <2>1. u \in Seq(T) /\ Len(u) = Len(t) - m /\ \A k \in 1 .. Len(t) - m : u[k] = t[m + k]
    BY <1>2, <1>3, Slice
  <2>2. v \in Seq(T) /\ Len(v) = L - (n + m) /\ \A k \in 1 .. L - (n + m) : v[k] = r[n + m + k]
    BY <1>1, Slice
  <2>3. Len(t) - m = L - (n + m)
    BY <1>1, <1>2
  <2>4. \A k \in 1 .. Len(u) : m + k \in 1 .. L - n /\ n + (m + k) = n + m + k
    BY <1>1, <1>2, <2>1
  <2>5. \A k \in 1 .. Len(u) : u[k] = v[k]
    BY <1>2, <2>1, <2>2, <2>3, <2>4
  <2> HIDE DEF u, v
  <2>6. u = v
    BY <2>1, <2>2, <2>3, <2>5, SeqEqual
  <2>7. QED
    BY <2>6 DEF u, v
<1>5. Range(SubSeq(r, 1, n)) = {r[k] : k \in 1 .. n}
  BY Prefix
<1>6. Range(SubSeq(r, 1, n + m)) = {r[k] : k \in 1 .. n + m}
  BY <1>1, Prefix
<1>7. Range(SubSeq(t, 1, m)) = {t[k] : k \in 1 .. m}
  <2>1. \A u \in Seq(T) : \A j \in 0 .. Len(u) : Range(SubSeq(u, 1, j)) = {u[k] : k \in 1 .. j}
    BY Prefix
  <2>2. t \in Seq(T) /\ m \in 0 .. Len(t)
    BY <1>2, <1>3
  <2>3. QED
    BY <2>1, <2>2
<1>8. {t[k] : k \in 1 .. m} = {r[k] : k \in n + 1 .. n + m}
  <2>1. \A k \in 1 .. m : n + k \in n + 1 .. n + m /\ t[k] = r[n + k]
    BY <1>1, <1>2
  <2>2. \A k \in n + 1 .. n + m : k - n \in 1 .. m /\ n + (k - n) = k
    BY <1>1
  <2>3. \A k \in n + 1 .. n + m : t[k - n] = r[k]
    BY <2>1, <2>2
  <2>4. \A k \in n + 1 .. n + m : r[k] \in {t[j] : j \in 1 .. m}
    BY <2>2, <2>3
  <2>5. \A k \in 1 .. m : t[k] \in {r[j] : j \in n + 1 .. n + m}
    BY <2>1
  <2>6. QED
    BY <2>4, <2>5
<1>9. 1 .. n + m = (1 .. n) \cup (n + 1 .. n + m)
  BY <1>1
<1>10. QED
  BY <1>4, <1>5, <1>6, <1>7, <1>8, <1>9 DEF L

\* A window rebuilt from a piece of the history is one: what it evicts goes to
\* the note, and the rest stays in order.
LEMMA RebuiltRetells ==
  ASSUME TypeOK, NEW s \in Window, ~NothingToEvict(s), NEW size,
         NEW r \in Seq(Messages), Retells(s, r)
  PROVE  Retells(Rebuilt(s, size), r)
<1> DEFINE t == s.tail
           w == Rebuilt(s, size)
           L == Len(r)
<1>1. keep \in Nat /\ r \in Seq(Messages) /\ L \in Nat
  BY ContextAssumption, LenProperties DEF TypeOK
<1>2. /\ w.tail = Kept(s)
      /\ Covered(w) = Covered(s) \cup Range(Evicted(s))
  BY DEF Rebuilt, Covered, Memory, ToConsolidate
<1>3. PICK n \in 0 .. L : t = SubSeq(r, n + 1, L) /\ Covered(s) = Range(SubSeq(r, 1, n))
  BY DEF Retells
<1>4. t \in Seq(Messages) /\ Len(t) = L - n
  BY <1>1, <1>3, Slice
<1> HIDE DEF w
<1>5. CASE keep = 0
  <2>1. Kept(s) = t /\ Range(Evicted(s)) = {}
    BY <1>5 DEF Kept, Evicted, Range
  <2>2. QED
    BY <1>2, <1>3, <2>1 DEF Retells, w
<1>6. CASE keep > 0
  <2>0. Len(t) - keep \in Nat
    BY <1>1, <1>4 DEF NothingToEvict
  <2>1. PICK m \in Nat : m = Len(t) - keep
    BY <2>0
  <2>2. Evicted(s) = SubSeq(t, 1, m) /\ Kept(s) = SubSeq(t, m + 1, Len(t))
    BY <1>1, <1>6, <2>1 DEF Evicted, Kept
  <2>3. n + m <= L /\ n + m \in 0 .. L
    BY <1>1, <1>4, <2>1
  <2>4. /\ SubSeq(t, m + 1, Len(t)) = SubSeq(r, n + m + 1, L)
        /\ Range(SubSeq(r, 1, n)) \cup Range(SubSeq(t, 1, m)) = Range(SubSeq(r, 1, n + m))
    <3>1. \A u : u = SubSeq(r, n + 1, Len(r)) =>
            /\ SubSeq(u, m + 1, Len(u)) = SubSeq(r, n + m + 1, Len(r))
            /\ Range(SubSeq(r, 1, n)) \cup Range(SubSeq(u, 1, m)) = Range(SubSeq(r, 1, n + m))
      BY <2>3, SplitRest
    <3>2. QED
      BY <1>3, <3>1
  <2>5. QED
    BY <1>2, <1>3, <2>2, <2>3, <2>4 DEF Retells, w
<1>7. QED
  BY <1>1, <1>5, <1>6

\* So is one that gets the message that the history gets.
LEMMA AppendedRetells ==
  ASSUME TypeOK, NEW m \in Messages,
         NEW s, Retells(s, raw), NEW w, w.tail = Append(s.tail, m), w.note = s.note
  PROVE  Retells(w, Append(raw, m))
<1>0. PICK r : r = Append(raw, m)
  OBVIOUS
<1> DEFINE L == Len(raw)
           K == Len(r)
<1>1. raw \in Seq(Messages) /\ r \in Seq(Messages) /\ L \in Nat /\ K \in Nat /\ K = L + 1
  BY <1>0, LenProperties, AppendProperties DEF TypeOK
<1>2. PICK n \in 0 .. L : /\ s.tail = SubSeq(raw, n + 1, L)
                          /\ Covered(s) = Range(SubSeq(raw, 1, n))
  BY DEF Retells
<1>3. (\A k \in 1 .. L : r[k] = raw[k]) /\ r[L + 1] = m
  BY <1>0, <1>1, AppendProperties
<1> HIDE DEF L, K
<1>4. n \in 0 .. K /\ K \in n .. K /\ L \in n .. L /\ K - n = (L - n) + 1 /\ L - n \in Nat
  BY <1>1
<1>5. w.tail = SubSeq(r, n + 1, K)
  <2> DEFINE t == SubSeq(raw, n + 1, L)
             u == Append(t, m)
             v == SubSeq(r, n + 1, K)
  <2>1. t \in Seq(Messages) /\ Len(t) = L - n /\ \A k \in 1 .. L - n : t[k] = raw[n + k]
    BY <1>1, <1>4, Slice DEF L
  <2>2. v \in Seq(Messages) /\ Len(v) = K - n /\ \A k \in 1 .. K - n : v[k] = r[n + k]
    BY <1>1, <1>4, Slice DEF K
  <2> HIDE DEF t, v
  <2>3. /\ u \in Seq(Messages) /\ Len(u) = (L - n) + 1
        /\ (\A k \in 1 .. L - n : u[k] = t[k]) /\ u[(L - n) + 1] = m
    BY <2>1, AppendProperties
  <2> HIDE DEF u
  <2>4. ASSUME NEW k \in 1 .. K - n PROVE u[k] = v[k]
    <3>1. CASE k \in 1 .. L - n
      <4>1. n + k \in 1 .. L
        BY <1>1, <3>1
      <4>2. QED
        BY <1>3, <2>1, <2>2, <2>3, <3>1, <4>1
    <3>2. CASE k = (L - n) + 1
      <4>1. n + k = L + 1
        BY <1>1, <3>2
      <4>2. QED
        BY <1>3, <2>2, <2>3, <3>2, <4>1
    <3>3. QED
      BY <1>4, <3>1, <3>2
  <2>5. u = v
    BY <1>4, <2>2, <2>3, <2>4, SeqEqual
  <2>6. QED
    BY <1>2, <2>5 DEF t, u, v
<1>6. Covered(w) = Range(SubSeq(r, 1, n))
  <2>1. Covered(w) = Covered(s)
    BY DEF Covered
  <2>2. Range(SubSeq(raw, 1, n)) = {raw[k] : k \in 1 .. n}
    BY <1>1, Prefix DEF L
  <2>3. Range(SubSeq(r, 1, n)) = {r[k] : k \in 1 .. n}
    BY <1>1, <1>4, Prefix DEF K
  <2>4. \A k \in 1 .. n : r[k] = raw[k]
    BY <1>1, <1>3
  <2>5. {r[k] : k \in 1 .. n} = {raw[k] : k \in 1 .. n}
    BY <2>4
  <2>6. QED
    BY <1>2, <2>1, <2>2, <2>3, <2>5
<1>7. QED
  BY <1>0, <1>4, <1>5, <1>6 DEF Retells, K

\* A compaction that goes on leaves pieces of the history, if there were no others.
LEMMA CompactsHistory ==
  ASSUME raw' = raw, Retells(working, raw),
         \A b \in Callers : pc[b] \in {"pre", "llm"} => Retells(snap[b], raw),
         NEW c \in Callers,
         working' = working \/ Retells(working', raw),
         pc'[c] \in {"pre", "llm"} => pc[c] \in {"pre", "llm"} /\ snap'[c] = snap[c],
         \A b \in Callers \ {c} : pc'[b] = pc[b] /\ snap'[b] = snap[b]
  PROVE  /\ Retells(working', raw')
         /\ \A b \in Callers : pc'[b] \in {"pre", "llm"} => Retells(snap'[b], raw')
OBVIOUS

\* After pre_compact, or without it, the window is what it was or a rebuilt one.
LEMMA AfterPreRetells ==
  ASSUME TypeOK, NEW c \in Callers, NEW s \in Window, NEW w \in Window,
         NEW r \in Seq(Messages), AfterPre(c, s, w), Retells(s, r)
  PROVE  working' = w \/ Retells(working', r)
BY RebuiltRetells DEF AfterPre

\* Every window a compaction has under way, or leaves, is the history: inductive.
LEMMA HistoryInductive == Spec => []HistoryInv
<1>1. Init => HistoryInv
  <2>1. Len(<<>>) = 0 /\ 0 \in 0 .. Len(<<>>)
    BY EmptySeq
  <2>2. SubSeq(<<>>, 0 + 1, Len(<<>>)) = <<>> /\ SubSeq(<<>>, 1, 0) = <<>>
    BY <2>1, SubSeqEmpty
  <2>3. Range(<<>>) = {} /\ Covered(Empty) = {} /\ Empty.tail = <<>>
    BY DEF Range, Covered, Empty
  <2>4. Retells(Empty, <<>>)
    BY <2>1, <2>2, <2>3 DEF Retells
  <2>5. QED
    BY <2>4 DEF Init, HistoryInv
<1>2. TypeOK /\ HasEvicted /\ HistoryInv /\ [Next]_vars => HistoryInv'
  <2> DEFINE Good == /\ Retells(working', raw')
                     /\ \A b \in Callers : pc'[b] \in {"pre", "llm"} => Retells(snap'[b], raw')
  <2> SUFFICES ASSUME TypeOK, HasEvicted, HistoryInv, [Next]_vars,
                      raced' = {}, stale' = {}
               PROVE  Good
    BY DEF HistoryInv
  <2>1. CASE raced # {} \/ stale # {}
    BY <2>1 DEF Next, Compaction, OnSessionReady, PreCompactEmitted, ProviderReturns,
       PostCompactEmitted, SetMessages, Clear, Replace, AddMessage, vars
  <2> SUFFICES ASSUME raced = {}, stale = {} PROVE Good
    BY <2>1
  <2>2. /\ Retells(working, raw)
        /\ \A b \in Callers : pc[b] \in {"pre", "llm"} => Retells(snap[b], raw)
    BY DEF HistoryInv
  <2>3. /\ raw \in Seq(Messages) /\ working \in Window
        /\ \A b \in Callers : snap[b] \in Window
    BY DEF TypeOK
  <2>4. CASE UNCHANGED <<raw, working, pc, snap>>
    BY <2>2, <2>4
  <2>5. ASSUME NEW c \in Callers, PreCompactEmitted(c) PROVE Good
    <3>1. pc[c] = "pre" /\ AfterPre(c, snap[c], working) /\ raw' = raw
      BY <2>5 DEF PreCompactEmitted
    <3>2. working' = working \/ Retells(working', raw)
      BY <2>2, <2>3, <3>1, AfterPreRetells
    <3>3. /\ pc'[c] \in {"pre", "llm"} => snap'[c] = snap[c]
          /\ \A b \in Callers \ {c} : pc'[b] = pc[b] /\ snap'[b] = snap[b]
      BY <2>3, <3>1, AfterPreShows
    <3>4. QED
      BY <2>2, <3>1, <3>2, <3>3, CompactsHistory
  <2>6. ASSUME NEW c \in Callers, ProviderReturns(c) PROVE Good
    <3>1. pc[c] = "llm" /\ ~NothingToEvict(snap[c]) /\ raw' = raw
      BY <2>6 DEF ProviderReturns, HasEvicted
    <3>2. Retells(working', raw)
      BY <2>2, <2>3, <2>6, <3>1, RebuiltRetells DEF ProviderReturns
    <3>3. /\ pc'[c] \notin {"pre", "llm"}
          /\ \A b \in Callers \ {c} : pc'[b] = pc[b] /\ snap'[b] = snap[b]
      BY <2>6 DEF ProviderReturns, EmitPost, TypeOK
    <3>4. QED
      BY <2>2, <3>1, <3>2, <3>3, CompactsHistory
  <2>7. ASSUME NEW c \in Callers, PostCompactEmitted(c) PROVE Good
    BY <2>2, <2>7, CompactsHistory DEF PostCompactEmitted, TypeOK
  <2>8. ASSUME NEW c \in Callers, NEW m \in Messages, AddMessage(c, m) PROVE Good
    <3> DEFINE w == [working EXCEPT !.tail = Append(@, m)]
    <3>1. raw' = Append(raw, m) /\ raw' \in Seq(Messages)
      BY <2>3, <2>8, AppendProperties DEF AddMessage
    <3>2. \A b \in Callers : pc[b] = "idle"
      BY <2>8 DEF AddMessage, Busy
    <3>3. w \in Window /\ w.tail = Append(working.tail, m) /\ w.note = working.note
      <4>1. working \in Window
        BY <2>3
      <4>2. Append(working.tail, m) \in Seq(Messages)
        BY <4>1, AppendProperties DEF Window
      <4>3. QED
        BY <4>1, <4>2 DEF Window
    <3> HIDE DEF w
    <3>4. Retells(w, raw')
      BY <2>2, <3>1, <3>3, AppendedRetells
    <3>5. CASE working' = w /\ UNCHANGED <<pc, snap>>
      BY <3>2, <3>4, <3>5
    <3>6. CASE /\ working' = w
               /\ pc' = [pc EXCEPT ![c] = "pre"] /\ snap' = [snap EXCEPT ![c] = w]
      BY <3>2, <3>4, <3>6 DEF TypeOK
    <3>7. CASE AfterPre(c, w, w)
      <4>1. Retells(working', raw')
        BY <3>1, <3>3, <3>4, <3>7, AfterPreRetells
      <4>2. /\ pc'[c] \in {"pre", "llm"} => snap'[c] = w
            /\ \A b \in Callers \ {c} : pc'[b] = pc[b] /\ snap'[b] = snap[b]
        BY <3>3, <3>7, AfterPreShows
      <4>3. QED
        BY <3>2, <3>4, <4>1, <4>2
    <3>8. QED
      BY <2>8, <3>5, <3>6, <3>7 DEF AddMessage, w
  <2>9. ASSUME NEW c \in Callers, NEW msgs \in Seq(Messages), Replace(c, msgs),
               Range(msgs) \subseteq Range(raw)
        PROVE  Good
    <3>1. raw' = msgs /\ pc' = pc /\ snap' = snap /\ working' = [note |-> {}, tail |-> msgs]
      BY <2>9 DEF Replace, WorkingOf
    <3>2. Retells(working', raw')
      <4>1. SubSeq(msgs, 0 + 1, Len(msgs)) = msgs /\ SubSeq(msgs, 1, 0) = <<>>
        BY SubSeqFull, SubSeqEmpty, LenProperties
      <4>2. Covered(working') = {} /\ Range(<<>>) = {} /\ working'.tail = msgs
        BY <3>1 DEF Covered, Range
      <4>3. 0 \in 0 .. Len(msgs)
        BY LenProperties
      <4>4. QED
        BY <3>1, <4>1, <4>2, <4>3 DEF Retells
    <3>3. CASE Busy = {}
      BY <3>1, <3>2, <3>3 DEF Busy
    <3>4. CASE Busy # {}
      <4>1. Range(raw) = {}
        BY <2>9, <3>4 DEF Replace
      <4>2. raw = <<>> /\ msgs = <<>>
        <5>1. \A q \in Seq(Messages) : Range(q) = {} => q = <<>>
          BY LenProperties, ElementOfSeq, EmptySeq DEF Range
        <5>2. QED
          BY <2>3, <2>9, <4>1, <5>1
      <4>3. QED
        BY <2>2, <3>1, <3>2, <4>2
    <3>5. QED
      BY <3>3, <3>4
  <2>10. ASSUME NEW c \in Callers, SetMessages(c) \/ Clear(c) PROVE Good
    <3>1. ASSUME NEW n \in 1 .. Len(raw), Replace(c, SubSeq(raw, 1, n)) PROVE Good
      <4>1. /\ SubSeq(raw, 1, n) \in Seq(Messages)
            /\ Range(SubSeq(raw, 1, n)) \subseteq Range(raw)
        BY <2>3, SubSeqProperties DEF Range
      <4>2. QED
        BY <2>9, <3>1, <4>1
    <3>2. ASSUME Replace(c, <<>>) PROVE Good
      <4>1. <<>> \in Seq(Messages) /\ Range(<<>>) \subseteq Range(raw)
        BY EmptySeq DEF Range
      <4>2. QED
        BY <2>9, <3>2, <4>1
    <3>3. QED
      BY <2>10, <3>1, <3>2 DEF SetMessages, Clear
  <2>11. QED
    BY <2>4, <2>5, <2>6, <2>7, <2>8, <2>10 DEF Next, Compaction, OnSessionReady, vars
<1>3. QED
  BY <1>1, <1>2, TypesInductive, PTL DEF Spec

\* Without an overlap the window is the history in order.
THEOREM WindowIsOrderedHistory == Spec => []WindowIsHistory
<1>1. HistoryInv => WindowIsHistory
  BY DEF HistoryInv, WindowIsHistory
<1>2. QED
  BY <1>1, HistoryInductive, PTL
=============================================================================
