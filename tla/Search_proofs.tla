---------------------------- MODULE Search_proofs ----------------------------
(***************************************************************************)
(* Machine-checked proofs about Search, for any readers, any number of     *)
(* folds and writes: whichever fold a reader gets, and whoever filled it,  *)
(* its indexes are those of a full build.                                  *)
(***************************************************************************)
EXTENDS Search, FiniteSetTheorems, TLAPS

-----------------------------------------------------------------------------
(* The lists *)

\* The log grows at its end.
Grows ==
  /\ log' \in Seq(Events) /\ Len(log) <= Len(log')
  /\ \A i \in 1 .. Len(log) : log'[i] = log[i]

LEMMA Appends ==
  ASSUME log \in Seq(Events), NEW es \in Seq(Events), Append_(es)
  PROVE  Grows
BY DEF Append_, Grows

\* What the lists over the first n events hold.
LEMMA Lists ==
  ASSUME log \in Seq(Events), NEW n \in 0 .. Len(log)
  PROVE  /\ 1 .. n \subseteq DOMAIN log /\ \A i \in 1 .. n : log[i] \in Events
         /\ Payloads(CellRefs, 1 .. n) =
              {log[i].from : i \in {j \in 1 .. n : log[j].kind = "cell"}}
         /\ LensRows(1 .. n) =
              {i \in EmbeddingEdges(1 .. n) :
                 \E j \in 1 .. n : log[j].kind = "cell" /\ log[j].from = log[i].from}
<1>1. 1 .. n \subseteq DOMAIN log /\ \A i \in 1 .. n : log[i] \in Events
  OBVIOUS
<1>2. \A i \in 1 .. n : CellRefs[i] = IF log[i].kind = "cell" THEN {log[i].from} ELSE {}
  BY <1>1 DEF CellRefs, RefOf
<1>3. Payloads(CellRefs, 1 .. n) =
        {log[i].from : i \in {j \in 1 .. n : log[j].kind = "cell"}}
  <2> DEFINE froms == {log[i].from : i \in {j \in 1 .. n : log[j].kind = "cell"}}
  <2>1. ASSUME NEW i \in 1 .. n, NEW x
        PROVE  x \in CellRefs[i] <=> log[i].kind = "cell" /\ x = log[i].from
    BY <1>2
  <2>2. ASSUME NEW x PROVE x \in Payloads(CellRefs, 1 .. n) <=> x \in froms
    BY <2>1 DEF Payloads
  <2> HIDE DEF froms
  <2>3. Payloads(CellRefs, 1 .. n) = froms
    BY <2>2
  <2>4. QED
    BY <2>3 DEF froms
<1>4. QED
  BY <1>1, <1>3 DEF LensRows, Rows

\* They stay what they are when the log grows.
LEMMA ListsStay ==
  ASSUME log \in Seq(Events), Grows, NEW n \in 0 .. Len(log)
  PROVE  /\ Payloads(CellRefs, 1 .. n)' = Payloads(CellRefs, 1 .. n)
         /\ BySubject(1 .. n)' = BySubject(1 .. n)
         /\ EmbeddingEdges(1 .. n)' = EmbeddingEdges(1 .. n)
         /\ LensRows(1 .. n)' = LensRows(1 .. n)
         /\ Timely(1 .. n)' = Timely(1 .. n)
<1>1. n \in 0 .. Len(log)' /\ \A i \in 1 .. n : log[i] = log'[i]
  BY DEF Grows
<1>2. EmbeddingEdges(1 .. n)' = EmbeddingEdges(1 .. n)
  BY <1>1 DEF EmbeddingEdges, Of
<1>3. Payloads(CellRefs, 1 .. n)' = Payloads(CellRefs, 1 .. n)
  <2>1. ASSUME NEW i \in 1 .. n PROVE CellRefs'[i] = CellRefs[i]
    <3>1. i \in DOMAIN log /\ i \in DOMAIN log' /\ log'[i] = log[i]
      BY <1>1 DEF Grows
    <3>2. CellRefs[i] = RefOf(log[i]) /\ CellRefs'[i] = RefOf(log'[i])
      BY <3>1 DEF CellRefs, RefOf
    <3>3. QED
      BY <3>1, <3>2
  <2>2. QED
    BY <2>1 DEF Payloads
<1>4. LensRows(1 .. n)' = LensRows(1 .. n)
  BY <1>1, <1>2, <1>3 DEF LensRows, Rows, EmbeddingEdges, Of
<1>5. BySubject(1 .. n)' = BySubject(1 .. n)
  BY <1>1 DEF BySubject
<1>6. Timely(1 .. n)' = Timely(1 .. n)
  BY <1>1, <1>2 DEF Timely, EmbeddingEdges, Of, Cell, Event
<1>7. QED
  BY <1>2, <1>3, <1>4, <1>5, <1>6

\* More events have more edges and rows; what was late stays so.
LEMMA ListsGrow ==
  ASSUME log \in Seq(Events), NEW n \in 0 .. Len(log), NEW m \in 0 .. n
  PROVE  /\ EmbeddingEdges(1 .. m) \subseteq EmbeddingEdges(1 .. n)
         /\ LensRows(1 .. m) \subseteq LensRows(1 .. n)
         /\ Timely(1 .. m) = Timely(1 .. n) \cap EmbeddingEdges(1 .. m)
<1>1. EmbeddingEdges(1 .. m) \subseteq EmbeddingEdges(1 .. n)
  BY DEF EmbeddingEdges, Of
<1>2. LensRows(1 .. m) \subseteq LensRows(1 .. n)
  <2>1. m \in 0 .. Len(log) /\ 1 .. m \subseteq 1 .. n
    OBVIOUS
  <2>2. QED
    BY <1>1, <2>1, Lists
<1>3. ASSUME NEW i \in EmbeddingEdges(1 .. m)
      PROVE  i \in Timely(1 .. n) <=> i \in Timely(1 .. m)
  <2>1. i \in 1 .. m
    BY DEF EmbeddingEdges, Of
  <2>2. \A j \in 1 .. n : j < i => j \in 1 .. m
    BY <2>1
  <2>3. \A j \in 1 .. m : j \in 1 .. n
    OBVIOUS
  <2>4. QED
    BY <1>1, <2>2, <2>3 DEF Timely
<1>4. Timely(1 .. m) \subseteq EmbeddingEdges(1 .. m)
  BY DEF Timely
<1>5. QED
  BY <1>1, <1>2, <1>3, <1>4

\* An edge that comes after its cell is a row.
LEMMA TimelyRows ==
  ASSUME log \in Seq(Events), NEW n \in 0 .. Len(log)
  PROVE  Timely(1 .. n) \subseteq LensRows(1 .. n)
<1>1. ASSUME NEW i \in Timely(1 .. n)
      PROVE  \E j \in 1 .. n : log[j].kind = "cell" /\ log[j].from = log[i].from
  <2>1. PICK j \in 1 .. n : log[j] = Cell(log[i].from)
    BY DEF Timely
  <2>2. log[j].kind = "cell" /\ log[j].from = log[i].from
    BY <2>1 DEF Cell, Event
  <2>3. QED
    BY <2>2
<1>2. Timely(1 .. n) \subseteq EmbeddingEdges(1 .. n)
  BY DEF Timely
<1>3. QED
  BY <1>1, <1>2, Lists

\* The vector view has the rows that the whole log has.
LEMMA ViewRows ==
  ASSUME log \in Seq(Events), NEW n \in 0 .. Len(log), NEW f, f.len = n
  PROVE  LensRows(VectorView(f)) = LensRows(1 .. n)
<1> DEFINE emb == {log[i].from : i \in EmbeddingEdges(1 .. n)}
           kept == {i \in 1 .. n :
                      \/ log[i].kind = "cell" /\ log[i].from \in emb
                      \/ log[i].kind \in {"embedding_of", "scoped_to"}}
<1>1. VectorView(f) = kept
  BY DEF VectorView, EventsOf
<1>2. EmbeddingEdges(kept) = EmbeddingEdges(1 .. n)
  BY DEF EmbeddingEdges, Of
<1> HIDE DEF kept
<1>3. /\ kept \subseteq 1 .. n
      /\ \A j \in 1 .. n : log[j].kind = "cell" /\ log[j].from \in emb => j \in kept
  BY DEF kept
<1>4. ASSUME NEW i \in EmbeddingEdges(1 .. n)
      PROVE  log[i].from \in Payloads(CellRefs, kept)
               <=> log[i].from \in Payloads(CellRefs, 1 .. n)
  <2>1. log[i].from \in emb
    OBVIOUS
  <2>2. ASSUME NEW j \in 1 .. n
        PROVE  log[i].from \in CellRefs[j]
                 <=> log[j].kind = "cell" /\ log[j].from = log[i].from
    <3>1. j \in DOMAIN log
      OBVIOUS
    <3>2. CellRefs[j] = IF log[j].kind = "cell" THEN {log[j].from} ELSE {}
      BY <3>1 DEF CellRefs, RefOf
    <3>3. QED
      BY <3>2
  <2> HIDE DEF emb
  <2>3. \A j \in 1 .. n : log[i].from \in CellRefs[j] => j \in kept
    BY <1>3, <2>1, <2>2
  <2>4. QED
    BY <1>3, <2>3 DEF Payloads
<1>5. QED
  BY <1>1, <1>2, <1>4 DEF LensRows, Rows

-----------------------------------------------------------------------------
(* The folds *)

LEMMA NoFoldRight == log \in Seq(Events) => NoFold \in FoldType /\ RightFold(NoFold)
<1> SUFFICES ASSUME log \in Seq(Events) PROVE NoFold \in FoldType /\ RightFold(NoFold)
  OBVIOUS
<1>1. NoFold \in FoldType
  BY DEF NoFold, FoldType
<1>2. EventsOf(NoFold) = {} /\ NoFold.len = 0 /\ NoFold.payloads = {}
      /\ NoFold.bySubject = {} /\ NoFold.edges = {} /\ NoFold.state = {} /\ NoFold.matrix = {}
  BY DEF EventsOf, NoFold
<1>3. Payloads(CellRefs, {}) = {}
  BY DEF Payloads
<1>4. QED
  BY <1>1, <1>2, <1>3 DEF RightFold

\* A fold, its rows and its matrix state stay right when the log grows.
LEMMA RightStays ==
  ASSUME log \in Seq(Events), Grows, NEW n \in 0 .. Len(log)
  PROVE  /\ \A f \in FoldType : f.len = n /\ RightFold(f) => RightFold(f)'
         /\ \A rows : RightRows(rows, 1 .. n) => RightRows(rows, 1 .. n)'
<1>1. \A s : RightState(s, 1 .. n) => RightState(s, 1 .. n)'
  BY ListsStay DEF RightState
<1>2. \A rows : RightRows(rows, 1 .. n) => RightRows(rows, 1 .. n)'
  BY ListsStay DEF RightRows
<1>3. ASSUME NEW f \in FoldType, f.len = n, RightFold(f) PROVE RightFold(f)'
  <2>1. EventsOf(f) = 1 .. n
    BY <1>3 DEF EventsOf
  <2>2. f.len <= Len(log)'
    BY <1>3 DEF Grows
  <2>3. QED
    BY <1>1, <1>2, <1>3, <2>1, <2>2, ListsStay DEF RightFold
<1>4. QED
  BY <1>2, <1>3

\* The matrix state of a fold serves those that extend it.
LEMMA StateServes ==
  ASSUME log \in Seq(Events), NEW n \in 0 .. Len(log), NEW m \in 0 .. n,
         NEW s, RightState(s, 1 .. m)
  PROVE  RightState(s, 1 .. n)
<1>1. s.counted \subseteq EmbeddingEdges(1 .. n) /\ s.rows \subseteq LensRows(1 .. n)
  BY ListsGrow DEF RightState
<1>2. Timely(1 .. n) \cap s.counted \subseteq s.rows
  BY ListsGrow DEF RightState
<1>3. QED
  BY <1>1, <1>2 DEF RightState

\* A new fold is right whether it extends another or not.
LEMMA NewFoldRight ==
  ASSUME log \in Seq(Events), fold \in [Folds -> FoldType], NEW from \in SUBSET Folds,
         \A f \in from : RightFold(fold[f]),
         NEW refs, \A i \in 1 .. Len(log) : refs[i] = RefOf(log[i])
  PROVE  /\ NewFold(from, refs) \in FoldType /\ RightFold(NewFold(from, refs))
         /\ NewFold(from, refs).len = Len(log)
<1> DEFINE p == IF from # {} /\ \A f \in from : IsPrefixOf(fold[f])
                THEN fold[CHOOSE f \in from : TRUE] ELSE NoFold
           tail == p.len + 1 .. Len(log)
           new == NewFold(from, refs)
<1>1. p \in FoldType /\ RightFold(p)
  <2>1. from # {} => (CHOOSE f \in from : TRUE) \in from
    OBVIOUS
  <2>2. QED
    BY <2>1, NoFoldRight
<1>2. new = [NoFold EXCEPT !.len = Len(log),
                           !.payloads = p.payloads \cup Payloads(refs, tail),
                           !.bySubject = ExtendSubjects(p.bySubject, tail),
                           !.edges = ExtendEdges(p.edges, tail)]
  BY DEF NewFold
<1>3. /\ new.len = Len(log) /\ new.state = {} /\ new.matrix = {}
      /\ new.payloads = p.payloads \cup Payloads(refs, tail)
      /\ new.bySubject = ExtendSubjects(p.bySubject, tail)
      /\ new.edges = ExtendEdges(p.edges, tail)
  BY <1>2 DEF NoFold
<1> DEFINE n == p.len
<1>4. n \in 0 .. Len(log) /\ EventsOf(p) = 1 .. n /\ 1 .. Len(log) = (1 .. n) \cup tail
  <2>1. n \in Nat /\ n <= Len(log)
    BY <1>1 DEF FoldType, RightFold
  <2>2. EventsOf(p) = 1 .. n
    BY DEF EventsOf
  <2> HIDE DEF p
  <2>3. QED
    BY <2>1, <2>2
<1> HIDE DEF p, new
<1>5. new.payloads = Payloads(CellRefs, 1 .. Len(log))
  <2>1. \A i \in 1 .. Len(log) : CellRefs[i] = refs[i]
    BY DEF CellRefs
  <2>2. p.payloads = Payloads(CellRefs, 1 .. n)
    BY <1>1, <1>4 DEF RightFold
  <2>3. Payloads(refs, tail) = Payloads(CellRefs, tail)
    BY <1>4, <2>1 DEF Payloads
  <2>4. \A es, fs : Payloads(CellRefs, es \cup fs)
                    = Payloads(CellRefs, es) \cup Payloads(CellRefs, fs)
    BY DEF Payloads
  <2> HIDE DEF n, tail
  <2>5. Payloads(CellRefs, 1 .. Len(log))
          = Payloads(CellRefs, 1 .. n) \cup Payloads(CellRefs, tail)
    BY <1>4, <2>4
  <2>6. QED
    BY <1>3, <2>2, <2>3, <2>5
<1>6. ASSUME NEW by \in new.bySubject PROVE by = BySubject(1 .. Len(log))
  <2>1. by = [r \in Refs |-> BySubject(1 .. n)[r] \cup BySubject(tail)[r]]
    BY <1>1, <1>3, <1>4, <1>6 DEF RightFold, ExtendSubjects
  <2>2. \A r \in Refs : BySubject(1 .. n)[r] \cup BySubject(tail)[r] = BySubject(1 .. Len(log))[r]
    BY <1>4 DEF BySubject
  <2>3. QED
    BY <2>1, <2>2 DEF BySubject
<1>7. ASSUME NEW es \in new.edges PROVE es = EmbeddingEdges(1 .. Len(log))
  <2>1. es = EmbeddingEdges(1 .. n) \cup EmbeddingEdges(tail)
    BY <1>1, <1>3, <1>4, <1>7 DEF RightFold, ExtendEdges
  <2>2. QED
    BY <1>4, <2>1 DEF EmbeddingEdges, Of
<1>8. EventsOf(new) = 1 .. Len(log)
  BY <1>3 DEF EventsOf
<1>9. RightFold(new)
  BY <1>3, <1>5, <1>6, <1>7, <1>8 DEF RightFold
<1>10. new \in FoldType
  <2>1. Len(log) \in Nat
    OBVIOUS
  <2>2. Payloads(CellRefs, 1 .. Len(log)) \subseteq Refs
    BY Lists, Len(log) \in 0 .. Len(log) DEF Events
  <2>3. BySubject(1 .. Len(log)) \in [Refs -> SUBSET Nat]
    BY DEF BySubject
  <2>4. EmbeddingEdges(1 .. Len(log)) \in SUBSET Nat
    BY DEF EmbeddingEdges, Of
  <2>5. new.bySubject \in SUBSET [Refs -> SUBSET Nat] /\ new.edges \in SUBSET SUBSET Nat
    BY <1>6, <1>7, <2>3, <2>4
  <2>6. new.payloads \in SUBSET Refs /\ new.len \in Nat
    BY <1>3, <1>5, <2>1, <2>2
  <2> DEFINE fields(ps, bs, es) ==
               [len |-> Len(log), payloads |-> ps, bySubject |-> bs, edges |-> es,
                state |-> {}, computed |-> FALSE, matrix |-> {}]
  <2>7. new = fields(new.payloads, new.bySubject, new.edges)
    BY <1>2, <1>3 DEF NoFold
  <2>8. \A ps \in SUBSET Refs, bs \in SUBSET [Refs -> SUBSET Nat], es \in SUBSET SUBSET Nat :
          fields(ps, bs, es) \in FoldType
    BY <2>1 DEF FoldType
  <2> HIDE DEF fields
  <2>9. QED
    BY <2>5, <2>6, <2>7, <2>8
<1>11. QED
  BY <1>3, <1>9, <1>10 DEF new

\* The matrix of a fold whose edges are listed has the right rows, however many
\* of them come from the state of a fold it extends.
LEMMA MatrixRight ==
  ASSUME log \in Seq(Events), NEW f \in FoldType, RightFold(f), f.edges # {}
  PROVE  /\ WithMatrix(f) \in FoldType /\ RightFold(WithMatrix(f))
         /\ WithMatrix(f).len = f.len
<1> DEFINE edges == CHOOSE es \in f.edges : TRUE
           old == IF \E s \in f.state : s.counted \subseteq edges
                  THEN CHOOSE s \in f.state : TRUE ELSE [rows |-> {}, counted |-> {}]
           rows == old.rows \cup Rows(edges \ old.counted, f.payloads)
           n == f.len
<1>1. n \in 0 .. Len(log) /\ EventsOf(f) = 1 .. n
  BY DEF RightFold, EventsOf, FoldType
<1>2. edges = EmbeddingEdges(1 .. n)
  BY <1>1 DEF RightFold
<1>3. RightState(old, 1 .. n)
  <2>1. CASE f.state # {}
    BY <1>1, <2>1 DEF RightFold, RightState
  <2>2. CASE f.state = {}
    BY <2>2 DEF RightState
  <2>3. QED
    BY <2>1, <2>2
<1> HIDE DEF edges, old
<1>4. f.payloads = Payloads(CellRefs, 1 .. n)
  BY <1>1 DEF RightFold
<1>5. LensRows(1 .. n) = Rows(edges, f.payloads)
  BY <1>2, <1>4 DEF LensRows
<1>6. rows \subseteq LensRows(1 .. n)
  BY <1>3, <1>5 DEF RightState, Rows
<1>7. Timely(1 .. n) \subseteq rows
  <2>1. Timely(1 .. n) \subseteq LensRows(1 .. n)
    BY <1>1, TimelyRows
  <2>2. QED
    BY <1>3, <1>5, <2>1 DEF RightState, Rows
<1>8. edges \in SUBSET Nat /\ rows \in SUBSET Nat
  BY <1>2, <1>5, <1>6 DEF EmbeddingEdges, Of, Rows
<1> HIDE DEF rows
<1>9. CASE WithMatrix(f) = f
  BY <1>9
<1>10. CASE WithMatrix(f) = [f EXCEPT !.matrix = {rows},
                                      !.state = {[rows |-> rows, counted |-> edges]}]
  <2> DEFINE g == WithMatrix(f)
  <2>1. /\ g.len = n /\ g.payloads = f.payloads /\ g.bySubject = f.bySubject
        /\ g.edges = f.edges /\ g.matrix = {rows}
        /\ g.state = {[rows |-> rows, counted |-> edges]}
    BY <1>10 DEF FoldType
  <2> DEFINE states == {[rows |-> rows, counted |-> edges]}
  <2>0. g \in FoldType
    <3>1. states \in SUBSET [rows : SUBSET Nat, counted : SUBSET Nat]
      BY <1>8
    <3>2. {rows} \in SUBSET SUBSET Nat
      BY <1>8
    <3> HIDE DEF states
    <3>3. [f EXCEPT !.matrix = {rows}, !.state = states] \in FoldType
      BY <3>1, <3>2 DEF FoldType
    <3>4. QED
      BY <1>10, <3>3 DEF states
  <2>2. EventsOf(g) = EventsOf(f)
    BY <2>1 DEF EventsOf
  <2>3. RightRows(rows, 1 .. n) /\ RightState([rows |-> rows, counted |-> edges], 1 .. n)
    BY <1>2, <1>6, <1>7 DEF RightRows, RightState
  <2> HIDE DEF g
  <2>4. RightFold(g)
    BY <1>1, <2>1, <2>2, <2>3 DEF RightFold
  <2>5. QED
    BY <2>0, <2>1, <2>4 DEF g
<1>11. QED
  BY <1>9, <1>10 DEF WithMatrix, rows, old, edges

\* A fold whose edges are listed, whose matrix somebody has started on, whose
\* subjects are indexed, or which takes over the matrix state of another.
LEMMA FilledRight ==
  ASSUME log \in Seq(Events), NEW f \in FoldType, RightFold(f)
  PROVE  /\ LET g == [f EXCEPT !.computed = TRUE]
            IN  g \in FoldType /\ RightFold(g) /\ g.len = f.len /\ g.edges = f.edges
         /\ LET g == WithEdges(f)
            IN  g \in FoldType /\ RightFold(g) /\ g.len = f.len /\ g.edges # {}
         /\ LET g == [f EXCEPT !.bySubject = {BySubject(EventsOf(f))}]
            IN  g \in FoldType /\ RightFold(g) /\ g.len = f.len /\ g.edges = f.edges
         /\ \A states \in SUBSET [rows : SUBSET Nat, counted : SUBSET Nat] :
              LET g == [f EXCEPT !.state = states]
              IN  /\ g \in FoldType /\ g.len = f.len /\ g.edges = f.edges
                  /\ (\A s \in states : RightState(s, EventsOf(f))) => RightFold(g)
<1>1. BySubject(EventsOf(f)) \in [Refs -> SUBSET Nat]
  BY DEF BySubject, EventsOf
<1>2. EmbeddingEdges(EventsOf(f)) \in SUBSET Nat
  BY DEF EmbeddingEdges, Of, EventsOf
<1>3. LET g == [f EXCEPT !.computed = TRUE]
      IN  g \in FoldType /\ RightFold(g) /\ g.len = f.len /\ g.edges = f.edges
  BY DEF FoldType, RightFold, EventsOf
<1>4. LET g == [f EXCEPT !.edges = {EmbeddingEdges(EventsOf(f))}]
      IN  g \in FoldType /\ RightFold(g) /\ g.len = f.len /\ g.edges # {}
  <2> DEFINE g == [f EXCEPT !.edges = {EmbeddingEdges(EventsOf(f))}]
  <2>1. g \in FoldType /\ g.len = f.len /\ g.edges = {EmbeddingEdges(EventsOf(f))}
    BY <1>2 DEF FoldType
  <2>2. RightFold(g)
    BY <2>1 DEF FoldType, RightFold, EventsOf
  <2>3. QED
    BY <2>1, <2>2
<1>5. LET g == [f EXCEPT !.bySubject = {BySubject(EventsOf(f))}]
      IN  g \in FoldType /\ RightFold(g) /\ g.len = f.len /\ g.edges = f.edges
  <2> DEFINE g == [f EXCEPT !.bySubject = {BySubject(EventsOf(f))}]
  <2>1. g \in FoldType /\ g.len = f.len /\ g.edges = f.edges
    BY <1>1 DEF FoldType
  <2>2. RightFold(g)
    BY <2>1 DEF FoldType, RightFold, EventsOf
  <2>3. QED
    BY <2>1, <2>2
<1>6. ASSUME NEW states \in SUBSET [rows : SUBSET Nat, counted : SUBSET Nat]
      PROVE  LET g == [f EXCEPT !.state = states]
             IN  /\ g \in FoldType /\ g.len = f.len /\ g.edges = f.edges
                 /\ (\A s \in states : RightState(s, EventsOf(f))) => RightFold(g)
  BY DEF FoldType, RightFold, EventsOf
<1>7. QED
  BY <1>3, <1>4, <1>5, <1>6 DEF WithEdges

\* The memo of refs is right for every event, whatever was dropped of it.
LEMMA MemoRight ==
  ASSUME log \in Seq(Events), memo \in Seq(SUBSET Refs),
         \A i \in DOMAIN memo : i <= Len(log) => memo[i] = RefOf(log[i])
  PROVE  /\ RefsFor \in Seq(SUBSET Refs) /\ Len(RefsFor) = Len(log)
         /\ \A i \in 1 .. Len(log) : RefsFor[i] = RefOf(log[i])
<1> DEFINE known == IF Len(memo) > Len(log) THEN 0 ELSE Len(memo)
           ref(i) == IF i <= known THEN memo[i] ELSE RefOf(log[i])
<1>1. RefsFor = [i \in 1 .. Len(log) |-> ref(i)]
  BY DEF RefsFor
<1>2. ASSUME NEW i \in 1 .. Len(log) PROVE ref(i) = RefOf(log[i]) /\ ref(i) \in SUBSET Refs
  <2>1. ref(i) = RefOf(log[i])
    OBVIOUS
  <2>2. log[i] \in Events
    OBVIOUS
  <2>3. QED
    BY <2>1, <2>2 DEF RefOf, Events
<1> HIDE DEF ref
<1>3. QED
  BY <1>1, <1>2

-----------------------------------------------------------------------------
(* The steps *)

\* A writer only appends.
Wrote ==
  /\ UNCHANGED <<foldVars, readVars>>
  /\ writes' \in 0 .. MaxWrites /\ strays' \in 0 .. MaxStrays
  /\ acked' \subseteq Drawers \X Scopes

LEMMA WriteDoes == ASSUME TypeOK, Write PROVE Grows /\ Wrote
<1>0. MaxWrites \in Nat /\ MaxStrays \in Nat
  BY SearchAssumption
<1>1. /\ log \in Seq(Events) /\ writes \in 0 .. MaxWrites /\ strays \in 0 .. MaxStrays
      /\ acked \subseteq Drawers \X Scopes
  BY DEF TypeOK
<1>2. \A d \in Drawers : d \in Refs /\ \A s \in ScopesOf[d] : s \in Scopes
  BY SearchAssumption DEF Refs
<1>3. \A e \in Embeds : e[1] \in Refs /\ e[1] \in Vectors /\ e[2] \in Drawers
  BY SearchAssumption DEF Refs
<1>4. /\ \A a \in Refs : Cell(a) \in Events
      /\ \A v \in Vectors, d \in Drawers : Edge(v, d) \in Events
      /\ \A d \in Drawers : \A s \in Scopes : Event("scoped_to", d, s) \in Events
      /\ \A d \in Drawers : \A k \in {"needs_embedding", "invalidate"} :
            Event(k, d, d) \in Events
  BY DEF Event, Cell, Edge, Events, Kinds, Refs
<1>5. \A es : es \in Seq(Events) /\ Append_(es) => Grows
  BY <1>1, Appends
<1>6. ASSUME NEW d \in Drawers, NEW s \in ScopesOf[d], NEW v \in Vectors, <<v, d>> \in Embeds,
             FileVector(d, s, v)
      PROVE  Grows /\ Wrote
  <2>1. <<Cell(d), Event("scoped_to", d, s), Cell(v), Edge(v, d)>> \in Seq(Events)
    BY <1>2, <1>4 DEF Refs
  <2>2. Grows
    BY <1>5, <1>6, <2>1 DEF FileVector
  <2>3. Wrote
    BY <1>0, <1>1, <1>2, <1>6 DEF Wrote, FileVector, Writing
  <2>4. QED
    BY <2>2, <2>3
<1>7. ASSUME NEW d \in Drawers, NEW s \in ScopesOf[d], FilePending(d, s)
      PROVE  Grows /\ Wrote
  <2>1. <<Cell(d), Event("scoped_to", d, s)>> \in Seq(Events)
    BY <1>2, <1>4 DEF Refs
  <2>2. Grows
    BY <1>5, <1>7, <2>1 DEF FilePending
  <2>3. Wrote
    BY <1>0, <1>1, <1>2, <1>7 DEF Wrote, FilePending, Writing
  <2>4. QED
    BY <2>2, <2>3
<1>8. ASSUME NEW d \in Drawers, NEW s \in ScopesOf[d], Mark(d, s)
      PROVE  Grows /\ Wrote
  <2>1. <<Event("needs_embedding", d, d)>> \in Seq(Events)
    BY <1>2, <1>4 DEF Refs
  <2>2. Grows
    BY <1>5, <1>8, <2>1 DEF Mark
  <2>3. Wrote
    BY <1>0, <1>1, <1>2, <1>8 DEF Wrote, Mark, Owed
  <2>4. QED
    BY <2>2, <2>3
<1>9. ASSUME NEW d \in Drawers, Clear(d)
      PROVE  Grows /\ Wrote
  <2>1. <<Event("invalidate", d, d)>> \in Seq(Events)
    BY <1>2, <1>4 DEF Refs
  <2>2. Grows
    BY <1>5, <1>9, <2>1 DEF Clear
  <2>3. Wrote
    BY <1>0, <1>1, <1>2, <1>9 DEF Wrote, Clear, Owed
  <2>4. QED
    BY <2>2, <2>3
<1>10. ASSUME NEW e \in Embeds, Attach(e[2], e[1])
      PROVE  Grows /\ Wrote
  <2>1. <<Cell(e[1]), Edge(e[1], e[2])>> \in Seq(Events)
    BY <1>3, <1>4
  <2>2. Grows
    BY <1>5, <1>10, <2>1 DEF Attach
  <2>3. Wrote
    BY <1>0, <1>1, <1>2, <1>10 DEF Wrote, Attach, Writing
  <2>4. QED
    BY <2>2, <2>3
<1>11. ASSUME NEW e \in Embeds, Relate(e[1], e[2])
      PROVE  Grows /\ Wrote
  <2>1. <<Edge(e[1], e[2])>> \in Seq(Events)
    BY <1>3, <1>4
  <2>2. Grows
    BY <1>5, <1>11, <2>1 DEF Relate
  <2>3. Wrote
    BY <1>0, <1>1, <1>2, <1>11 DEF Wrote, Relate, Writing
  <2>4. QED
    BY <2>2, <2>3
<1>12. QED
  BY <1>6, <1>7, <1>8, <1>9, <1>10, <1>11 DEF Write

\* The garbage collector takes folds that nothing refers to.
LEMMA KeptFolds ==
  ASSUME log \in Seq(Events), NEW folds \in [Folds -> FoldType], fold' = Kept(folds)
  PROVE  /\ fold' \in [Folds -> FoldType]
         /\ \A f \in Folds : fold'[f] \in {folds[f], NoFold}
         /\ \A f \in Folds : f \in Alive' => fold'[f] = folds[f]
BY NoFoldRight DEF Kept

\* A reader that is not idle holds one fold.
LEMMA HeldFold ==
  ASSUME TypeOK, NEW r \in Readers, pc[r] # "idle"
  PROVE  held[r] = {One(held[r])} /\ One(held[r]) \in Folds
<1>1. One(held[r]) \in held[r]
  BY DEF TypeOK, One
<1>2. QED
  BY <1>1 DEF TypeOK

\* What a step of a reader or the timer does to the folds: they stay right, and
\* those that something still refers to keep their length and their edges.
Refolded ==
  /\ fold' \in [Folds -> FoldType] /\ \A g \in Folds : RightFold(fold'[g])
  /\ \A g \in Alive' \cap Folds : /\ fold'[g].len = fold[g].len
                                  /\ fold[g].edges # {} => fold'[g].edges # {}

\* Filling one fold f is such a step, with or without the garbage collected.
LEMMA Refolds ==
  ASSUME TypeOK, FoldInv, NEW f \in Folds, NEW g \in FoldType, RightFold(g),
         g.len = fold[f].len, fold[f].edges # {} => g.edges # {},
         fold' = [fold EXCEPT ![f] = g] \/ fold' = Kept([fold EXCEPT ![f] = g])
  PROVE  Refolded
<1> DEFINE folds == [fold EXCEPT ![f] = g]
<1>1. /\ log \in Seq(Events) /\ fold \in [Folds -> FoldType]
      /\ \A e \in Folds : RightFold(fold[e])
  BY DEF TypeOK, FoldInv
<1>2. folds \in [Folds -> FoldType] /\ \A e \in Folds : folds[e] = IF e = f THEN g ELSE fold[e]
  BY <1>1
<1> HIDE DEF folds
<1>3. \A e \in Folds : /\ RightFold(folds[e]) /\ folds[e].len = fold[e].len
                       /\ fold[e].edges # {} => folds[e].edges # {}
  BY <1>1, <1>2
<1>4. CASE fold' = folds
  BY <1>2, <1>3, <1>4 DEF Refolded
<1>5. CASE fold' = Kept(folds)
  BY <1>1, <1>2, <1>3, <1>5, KeptFolds, NoFoldRight DEF Refolded
<1>6. QED
  BY <1>4, <1>5 DEF folds

\* Collecting the garbage alone.
LEMMA Collects == TypeOK /\ FoldInv /\ (fold' = fold \/ fold' = Kept(fold)) => Refolded
<1> SUFFICES ASSUME TypeOK, FoldInv, fold' = fold \/ fold' = Kept(fold) PROVE Refolded
  OBVIOUS
<1>1. /\ log \in Seq(Events) /\ fold \in [Folds -> FoldType]
      /\ \A e \in Folds : RightFold(fold[e])
  BY DEF TypeOK, FoldInv
<1>2. CASE fold' = fold
  BY <1>1, <1>2 DEF Refolded
<1>3. CASE fold' = Kept(fold)
  BY <1>1, <1>3, KeptFolds, NoFoldRight DEF Refolded
<1>4. QED
  BY <1>2, <1>3

LEMMA BuiltRefolds ==
  ASSUME TypeOK, FoldInv, ReadInv, NEW r \in Readers, Built(r)
  PROVE  Refolded
<1> DEFINE f == One(held[r])
           states == UNION {fold[p].state : p \in base[r]}
           g == [fold[f] EXCEPT !.state = states]
<1>1. held[r] = {f} /\ f \in Folds
  BY HeldFold DEF Built
<1>2. fold[f] \in FoldType /\ RightFold(fold[f]) /\ log \in Seq(Events)
  BY <1>1 DEF TypeOK, FoldInv
<1>3. ASSUME NEW p \in base[r], NEW s \in fold[p].state
      PROVE  /\ s \in [rows : SUBSET Nat, counted : SUBSET Nat]
             /\ RightState(s, EventsOf(fold[f]))
  <2>1. fold[p] \in FoldType /\ RightFold(fold[p]) /\ fold[p].len <= fold[f].len
    BY <1>1 DEF TypeOK, FoldInv, ReadInv, RightReader
  <2>2. RightState(s, 1 .. fold[p].len)
    BY <2>1 DEF RightFold, EventsOf
  <2>3. fold[f].len \in 0 .. Len(log) /\ fold[p].len \in 0 .. fold[f].len
    BY <1>2, <2>1 DEF RightFold, FoldType
  <2>4. RightState(s, 1 .. fold[f].len)
    BY <1>2, <2>2, <2>3, StateServes
  <2>5. QED
    BY <2>1, <2>4 DEF EventsOf, FoldType
<1>4. /\ states \in SUBSET [rows : SUBSET Nat, counted : SUBSET Nat]
      /\ \A s \in states : RightState(s, EventsOf(fold[f]))
  BY <1>3
<1> HIDE DEF states
<1>5. /\ g \in FoldType /\ g.len = fold[f].len /\ g.edges = fold[f].edges /\ RightFold(g)
  BY <1>2, <1>4, FilledRight
<1>6. fold' = Kept([fold EXCEPT ![f] = g])
  BY DEF Built, states
<1> HIDE DEF f, g
<1>7. QED
  BY <1>1, <1>5, <1>6, Refolds

LEMMA MatrixRefolds ==
  ASSUME TypeOK, FoldInv, NEW r \in Readers, Matrix(r)
  PROVE  Refolded /\ (pc'[r] = "rows" => fold'[One(held[r])].edges # {})
<1> DEFINE f == One(held[r])
           e == IF Numpy THEN WithEdges(fold[f]) ELSE fold[f]
           g == [e EXCEPT !.computed = TRUE]
<1>1. held[r] = {f} /\ f \in Folds
  BY HeldFold DEF Matrix
<1>2. fold[f] \in FoldType /\ RightFold(fold[f]) /\ log \in Seq(Events)
      /\ fold \in [Folds -> FoldType]
  BY <1>1 DEF TypeOK, FoldInv
<1>3. /\ e \in FoldType /\ RightFold(e) /\ e.len = fold[f].len
      /\ Numpy \/ fold[f].edges # {} => e.edges # {}
  BY <1>2, FilledRight
<1> HIDE DEF e
<1>4. g \in FoldType /\ RightFold(g) /\ g.len = fold[f].len /\ g.edges = e.edges
  BY <1>2, <1>3, FilledRight
<1>5. \/ fold' = fold /\ pc' = [pc EXCEPT ![r] = "rank"]
      \/ /\ fold' = [fold EXCEPT ![f] = g]
         /\ pc' = [pc EXCEPT ![r] = IF Numpy THEN "rows" ELSE "rank"]
  BY DEF Matrix, Goto, e
<1>6. CASE fold' = fold /\ pc' = [pc EXCEPT ![r] = "rank"]
  BY <1>6, Collects DEF TypeOK
<1>7. CASE fold' = [fold EXCEPT ![f] = g] /\ pc' = [pc EXCEPT ![r] = IF Numpy THEN "rows" ELSE "rank"]
  <2>1. fold'[f] = g
    BY <1>1, <1>2, <1>7
  <2>2. pc'[r] = "rows" => Numpy
    BY <1>7 DEF TypeOK
  <2> HIDE DEF f, g
  <2>3. Refolded
    BY <1>1, <1>3, <1>4, <1>7, Refolds
  <2>4. QED
    BY <1>3, <1>4, <2>1, <2>2, <2>3 DEF f
<1>8. QED
  BY <1>5, <1>6, <1>7

LEMMA MatrixRowsRefolds ==
  ASSUME TypeOK, FoldInv, ReadInv, NEW r \in Readers, MatrixRows(r)
  PROVE  Refolded
<1> DEFINE f == One(held[r])
<1>1. held[r] = {f} /\ f \in Folds
  BY HeldFold DEF MatrixRows
<1>2. fold[f] \in FoldType /\ RightFold(fold[f]) /\ log \in Seq(Events)
      /\ fold[f].edges # {}
  BY <1>1 DEF TypeOK, FoldInv, ReadInv, RightReader, MatrixRows
<1>3. /\ WithMatrix(fold[f]) \in FoldType /\ RightFold(WithMatrix(fold[f]))
      /\ WithMatrix(fold[f]).len = fold[f].len /\ WithMatrix(fold[f]).edges # {}
  <2>1. WithMatrix(fold[f]).edges = fold[f].edges
    BY <1>2 DEF WithMatrix, FoldType
  <2>2. QED
    BY <1>2, <2>1, MatrixRight
<1>4. fold' = [fold EXCEPT ![f] = WithMatrix(fold[f])]
  BY DEF MatrixRows
<1> HIDE DEF f
<1>5. QED
  BY <1>1, <1>3, <1>4, Refolds

LEMMA RankRefolds ==
  ASSUME TypeOK, FoldInv, NEW r \in Readers, Rank(r)
  PROVE  Refolded
<1> DEFINE f == One(held[r])
           g == [fold[f] EXCEPT !.bySubject = {BySubject(EventsOf(fold[f]))}]
<1>1. held[r] = {f} /\ f \in Folds
  BY HeldFold DEF Rank
<1>2. fold[f] \in FoldType /\ RightFold(fold[f]) /\ log \in Seq(Events)
  BY <1>1 DEF TypeOK, FoldInv
<1>3. g \in FoldType /\ RightFold(g) /\ g.len = fold[f].len /\ g.edges = fold[f].edges
  BY <1>2, FilledRight
<1>4. fold' = Kept(fold) \/ fold' = Kept([fold EXCEPT ![f] = g])
  BY DEF Rank
<1> HIDE DEF f, g
<1>5. QED
  BY <1>1, <1>3, <1>4, Refolds, Collects

\* Folds and what readers hold keep their types.
LEMMA TypeInductive == TypeOK /\ FoldInv /\ ReadInv /\ [Next]_vars => TypeOK'
<1> SUFFICES ASSUME TypeOK, FoldInv, ReadInv, [Next]_vars PROVE TypeOK'
  OBVIOUS
<1> DEFINE Asked == [scope : Scopes \cup {NoScope}, vector : BOOLEAN]
<1>0. /\ Requests \subseteq Asked /\ log \in Seq(Events)
      /\ \A f \in Folds : fold[f] \in FoldType /\ RightFold(fold[f])
  BY SearchAssumption DEF TypeOK, FoldInv
<1>1. CASE Write
  BY <1>1, WriteDoes DEF TypeOK, Grows, Wrote, foldVars, readVars
<1>2. CASE Expire
  <2>1. fold' \in [Folds -> FoldType]
    BY <1>0, <1>2, KeptFolds DEF Expire, TypeOK
  <2>2. QED
    BY <1>2, <2>1 DEF Expire, TypeOK, logVars, readVars
<1>3. ASSUME NEW r \in Readers, NEW q \in Requests, Reuse(r, q) PROVE TypeOK'
  <2>1. PICK f \in prior : Begin(r, q, f)
    BY <1>3 DEF Reuse
  <2>2. need' \in [Readers -> SUBSET Drawers]
    BY <2>1 DEF Begin, TypeOK
  <2>3. request' \in [Readers -> Asked]
    BY <1>0, <2>1 DEF Begin, TypeOK
  <2>4. QED
    BY <1>3, <2>1, <2>2, <2>3 DEF Reuse, Begin, Goto, TypeOK, logVars
<1>4. ASSUME NEW r \in Readers, NEW q \in Requests, NEW f \in Folds, Build(r, q, f)
      PROVE  TypeOK'
  <2>1. need' \in [Readers -> SUBSET Drawers]
    BY <1>4 DEF Build, Begin, TypeOK
  <2>2. request' \in [Readers -> Asked]
    BY <1>0, <1>4 DEF Build, Begin, TypeOK
  <2>3. /\ memo' \in Seq(SUBSET Refs) /\ Len(memo') = Len(log)
        /\ \A i \in 1 .. Len(log) : memo'[i] = RefOf(log[i])
    BY <1>4, MemoRight DEF Build, TypeOK, FoldInv
  <2>4. fold' \in [Folds -> FoldType]
    BY <1>0, <1>4, <2>3, NewFoldRight DEF Build, TypeOK
  <2>5. QED
    BY <1>4, <2>1, <2>2, <2>3, <2>4 DEF Build, Begin, Goto, TypeOK, logVars
<1>5. ASSUME NEW r \in Readers, Built(r) PROVE TypeOK'
  <2> DEFINE f == One(held[r])
  <2>1. held[r] = {f} /\ f \in Folds /\ f \notin unbuilt
    BY <1>5, HeldFold DEF Built, TypeOK
  <2>2. prior' \subseteq Folds \ unbuilt
    BY <1>5, <2>1 DEF Built, NextPrior, TypeOK
  <2>3. fold' \in [Folds -> FoldType]
    BY <1>5, BuiltRefolds DEF Refolded
  <2>4. /\ pc[r] = "build" /\ pc' = [pc EXCEPT ![r] = "matrix"]
        /\ base' = [base EXCEPT ![r] = {}] /\ held' = held
        /\ UNCHANGED <<logVars, unbuilt, memo, request, view, need>>
    BY <1>5 DEF Built, Goto
  <2>5. QED
    BY <2>2, <2>3, <2>4 DEF TypeOK, logVars
<1>6. ASSUME NEW r \in Readers, Matrix(r) PROVE TypeOK'
  <2> DEFINE f == One(held[r])
  <2>1. f \in Folds
    BY <1>6, HeldFold DEF Matrix
  <2>2. Published(f) \in SUBSET SUBSET Nat
    BY <1>0, <2>1 DEF Published, FoldType
  <2>3. view' \in [Readers -> SUBSET SUBSET Nat]
    BY <1>6, <2>2 DEF Matrix, TypeOK
  <2>4. fold' \in [Folds -> FoldType]
    BY <1>6, MatrixRefolds DEF Refolded
  <2>5. pc' = [pc EXCEPT ![r] = "rows"] \/ pc' = [pc EXCEPT ![r] = "rank"]
    BY <1>6 DEF Matrix, Goto
  <2>6. pc[r] = "matrix" /\ UNCHANGED <<logVars, unbuilt, memo, prior, request, held, base, need>>
    BY <1>6 DEF Matrix
  <2>7. QED
    BY <2>3, <2>4, <2>5, <2>6 DEF TypeOK, logVars
<1>7. ASSUME NEW r \in Readers, MatrixRows(r) PROVE TypeOK'
  <2> DEFINE f == One(held[r])
  <2>1. f \in Folds
    BY <1>7, HeldFold DEF MatrixRows
  <2>2. fold' \in [Folds -> FoldType]
    BY <1>7, MatrixRowsRefolds DEF Refolded
  <2>3. fold'[f].matrix \in SUBSET SUBSET Nat
    BY <2>1, <2>2 DEF FoldType
  <2>4. view' \in [Readers -> SUBSET SUBSET Nat]
    BY <1>7, <2>3 DEF MatrixRows, TypeOK
  <2>5. /\ pc[r] = "rows" /\ pc' = [pc EXCEPT ![r] = "rank"]
        /\ UNCHANGED <<logVars, unbuilt, memo, prior, request, held, base, need>>
    BY <1>7 DEF MatrixRows, Goto
  <2>6. QED
    BY <2>2, <2>4, <2>5 DEF TypeOK, logVars
<1>8. ASSUME NEW r \in Readers, Rank(r) PROVE TypeOK'
  <2>1. fold' \in [Folds -> FoldType]
    BY <1>8, RankRefolds DEF Refolded
  <2>2. /\ pc[r] = "rank" /\ pc' = [pc EXCEPT ![r] = "idle"]
        /\ request' = [request EXCEPT ![r] = NoRequest] /\ held' = [held EXCEPT ![r] = {}]
        /\ view' = [view EXCEPT ![r] = {}] /\ need' = [need EXCEPT ![r] = {}]
        /\ UNCHANGED <<logVars, unbuilt, memo, prior, base>>
    BY <1>8 DEF Rank, Goto
  <2>3. NoRequest \in Asked
    BY DEF NoRequest
  <2>4. request' \in [Readers -> Asked]
    BY <2>2, <2>3 DEF TypeOK
  <2>5. QED
    BY <2>1, <2>2, <2>4 DEF TypeOK, logVars
<1>9. CASE UNCHANGED vars
  BY <1>9 DEF TypeOK, vars, logVars, foldVars, readVars
<1> HIDE DEF TypeOK
<1>10. QED
  BY <1>1, <1>2, <1>3, <1>4, <1>5, <1>6, <1>7, <1>8, <1>9 DEF Next, Read

\* Without an append what is right stays so.
LEMMA SameLog ==
  ASSUME log' = log
  PROVE  /\ \A f : RightFold(f)' <=> RightFold(f)
         /\ \A rows, es : RightRows(rows, es)' <=> RightRows(rows, es)
BY DEF RightFold, RightRows, RightState, EventsOf, Payloads, CellRefs, RefOf, BySubject,
       EmbeddingEdges, Of, LensRows, Rows, Timely, Cell, Event

\* Every step but a write and the start of a fold: it appends nothing.
ReadsOn(r) ==
  \/ \E q \in Requests : Reuse(r, q)
  \/ Built(r) \/ Matrix(r) \/ MatrixRows(r) \/ Rank(r)

LEMMA ReadsRefold ==
  ASSUME TypeOK, FoldInv, ReadInv, Expire \/ \E r \in Readers : ReadsOn(r)
  PROVE  Refolded /\ UNCHANGED <<log, memo>>
<1>0. CASE Expire
  BY <1>0, Collects DEF Expire, logVars
<1> SUFFICES ASSUME NEW r \in Readers, ReadsOn(r)
             PROVE  Refolded /\ UNCHANGED <<log, memo>>
  BY <1>0
<1>1. CASE \E q \in Requests : Reuse(r, q)
  BY <1>1, Collects DEF Reuse, Begin, logVars
<1>2. CASE Built(r)
  BY <1>2, BuiltRefolds DEF Built, logVars
<1>3. CASE Matrix(r)
  BY <1>3, MatrixRefolds DEF Matrix, logVars
<1>4. CASE MatrixRows(r)
  BY <1>4, MatrixRowsRefolds DEF MatrixRows, logVars
<1>5. CASE Rank(r)
  BY <1>5, RankRefolds DEF Rank, logVars
<1>6. QED
  BY <1>1, <1>2, <1>3, <1>4, <1>5 DEF ReadsOn

\* A new fold is another object than any in use, and covers the whole log.
LEMMA BuildDoes ==
  ASSUME TypeOK, FoldInv, NEW r \in Readers, NEW q \in Requests, NEW f \in Folds,
         Build(r, q, f)
  PROVE  /\ log' = log /\ memo' \in Seq(SUBSET Refs) /\ Len(memo') = Len(log)
         /\ \A i \in 1 .. Len(log) : memo'[i] = RefOf(log[i])
         /\ fold' = [fold EXCEPT ![f] = NewFold(prior, memo')]
         /\ RightFold(NewFold(prior, memo')) /\ NewFold(prior, memo').len = Len(log)
         /\ f \in unbuilt /\ pc[r] = "idle" /\ pc' = [pc EXCEPT ![r] = "build"]
         /\ held' = [held EXCEPT ![r] = {f}] /\ base' = [base EXCEPT ![r] = prior]
         /\ view' = view
<1>1. /\ log \in Seq(Events) /\ fold \in [Folds -> FoldType] /\ prior \in SUBSET Folds
      /\ \A g \in prior : RightFold(fold[g])
  BY DEF TypeOK, FoldInv
<1>2. memo' = RefsFor /\ fold' = [fold EXCEPT ![f] = NewFold(prior, memo')]
  BY DEF Build
<1>3. /\ memo' \in Seq(SUBSET Refs) /\ Len(memo') = Len(log)
      /\ \A i \in 1 .. Len(log) : memo'[i] = RefOf(log[i])
  BY <1>1, <1>2, MemoRight DEF TypeOK, FoldInv
<1>4. RightFold(NewFold(prior, memo')) /\ NewFold(prior, memo').len = Len(log)
  BY <1>1, <1>3, NewFoldRight
<1>5. QED
  BY <1>2, <1>3, <1>4 DEF Build, Begin, Goto, logVars

\* Every fold stays right: appends are past its end, and whatever fills or
\* extends it takes right lists from right ones.
LEMMA FoldInductive == TypeOK /\ FoldInv /\ ReadInv /\ [Next]_vars => FoldInv'
<1> SUFFICES ASSUME TypeOK, FoldInv, ReadInv, [Next]_vars PROVE FoldInv'
  OBVIOUS
<1>0. /\ log \in Seq(Events) /\ memo \in Seq(SUBSET Refs)
      /\ fold \in [Folds -> FoldType] /\ \A f \in Folds : RightFold(fold[f])
      /\ Len(memo) <= Len(log) /\ \A i \in DOMAIN memo : memo[i] = RefOf(log[i])
  BY DEF TypeOK, FoldInv
<1>1. CASE Write
  <2>1. Grows /\ UNCHANGED <<fold, memo>>
    BY <1>1, WriteDoes DEF Wrote, foldVars
  <2>2. ASSUME NEW f \in Folds PROVE RightFold(fold[f])'
    <3>1. fold[f] \in FoldType /\ fold[f].len \in 0 .. Len(log) /\ RightFold(fold[f])
      BY <1>0 DEF RightFold, FoldType
    <3>2. \A x \in FoldType : x.len = fold[f].len /\ RightFold(x) => RightFold(x)'
      BY <1>0, <2>1, <3>1, RightStays
    <3>3. QED
      BY <2>1, <3>1, <3>2
  <2>3. Len(memo') <= Len(log') /\ \A i \in DOMAIN memo' : memo'[i] = RefOf(log'[i])
    BY <1>0, <2>1 DEF Grows
  <2>4. QED
    BY <2>2, <2>3 DEF FoldInv, RefOf
<1>2. ASSUME Refolded, UNCHANGED <<log, memo>> PROVE FoldInv'
  BY <1>0, <1>2, SameLog DEF FoldInv, Refolded, RefOf
<1>3. ASSUME NEW r \in Readers, NEW q \in Requests, NEW f \in Folds, Build(r, q, f)
      PROVE  FoldInv'
  <2>1. ASSUME NEW g \in Folds PROVE RightFold(fold'[g])
    <3>1. /\ fold' = [fold EXCEPT ![f] = NewFold(prior, memo')]
          /\ RightFold(NewFold(prior, memo'))
      BY <1>3, BuildDoes
    <3>2. fold'[g] = IF g = f THEN NewFold(prior, memo') ELSE fold[g]
      BY <1>0, <3>1
    <3>3. QED
      BY <1>0, <3>1, <3>2
  <2>2. Len(memo') <= Len(log') /\ \A i \in DOMAIN memo' : memo'[i] = RefOf(log[i])
    BY <1>0, <1>3, BuildDoes
  <2>3. log' = log
    BY <1>3, BuildDoes
  <2>4. QED
    BY <2>1, <2>2, <2>3, SameLog DEF FoldInv, RefOf
<1>4. CASE UNCHANGED vars
  BY <1>4, <1>2, Collects DEF vars, foldVars, logVars
<1>5. CASE Expire \/ \E r \in Readers : ReadsOn(r)
  BY <1>2, <1>5, ReadsRefold
<1>6. CASE \E r \in Readers : Read(r)
  BY <1>3, <1>5, <1>6 DEF Read, ReadsOn
<1>7. QED
  BY <1>1, <1>4, <1>5, <1>6 DEF Next

\* A reader keeps what it has through the steps of others.
LEMMA Rereads ==
  ASSUME TypeOK, Refolded, log' = log, NEW x \in Readers, RightReader(x),
         held'[x] = held[x], base'[x] = base[x], pc'[x] = pc[x], view'[x] = view[x]
  PROVE  RightReader(x)'
<1>1. ASSUME NEW f \in held[x] \cup base[x]
      PROVE  fold'[f].len = fold[f].len /\ (fold[f].edges # {} => fold'[f].edges # {})
  <2>1. f \in held'[x] \cup base'[x]
    OBVIOUS
  <2>2. f \in Alive' /\ f \in Folds
    BY <2>1 DEF Alive, TypeOK
  <2>3. QED
    BY <2>2 DEF Refolded
<1>2. ASSUME NEW rows \in view[x], NEW f \in held[x]
      PROVE  RightRows(rows, EventsOf(fold[f]))'
  <2>1. RightRows(rows, EventsOf(fold[f])) /\ fold'[f].len = fold[f].len
    BY <1>1 DEF RightReader
  <2>2. QED
    BY <2>1, SameLog DEF EventsOf
<1>3. QED
  BY <1>1, <1>2 DEF RightReader

\* What a reader holds is right whoever takes a step.
LEMMA ReadInductive == TypeOK /\ FoldInv /\ ReadInv /\ [Next]_vars => ReadInv'
<1> SUFFICES ASSUME TypeOK, FoldInv, ReadInv, [Next]_vars, NEW x \in Readers
             PROVE  RightReader(x)'
  BY DEF ReadInv
<1>0. /\ RightReader(x) /\ log \in Seq(Events) /\ fold \in [Folds -> FoldType]
      /\ \A f \in Folds : RightFold(fold[f])
      /\ pc[x] # "rank" => view[x] = {}
      /\ pc[x] # "build" => base[x] = {}
  BY DEF TypeOK, FoldInv, ReadInv, RightReader
<1>1. CASE Write
  <2>1. Grows /\ UNCHANGED <<foldVars, readVars>>
    BY <1>1, WriteDoes DEF Wrote
  <2>2. ASSUME NEW rows \in view[x], NEW f \in held[x]
        PROVE  RightRows(rows, EventsOf(fold[f]))'
    <3>1. fold[f].len \in 0 .. Len(log) /\ RightRows(rows, 1 .. fold[f].len)
      BY <1>0 DEF TypeOK, FoldType, RightFold, RightReader, EventsOf
    <3>2. RightRows(rows, 1 .. fold[f].len)'
      BY <1>0, <2>1, <3>1, RightStays DEF foldVars
    <3>3. QED
      BY <3>2 DEF EventsOf
  <2>3. QED
    BY <1>0, <2>1, <2>2 DEF RightReader, foldVars, readVars
<1>2. ASSUME NEW r \in Readers, NEW q \in Requests, NEW f \in Folds, Build(r, q, f)
      PROVE  RightReader(x)'
  <2>1. /\ log' = log /\ fold' = [fold EXCEPT ![f] = NewFold(prior, memo')]
        /\ NewFold(prior, memo').len = Len(log)
        /\ f \in unbuilt /\ pc[r] = "idle" /\ pc' = [pc EXCEPT ![r] = "build"]
        /\ held' = [held EXCEPT ![r] = {f}] /\ base' = [base EXCEPT ![r] = prior]
        /\ view' = view
    BY <1>2, BuildDoes
  <2>2. \A g \in Folds : g # f => fold'[g] = fold[g]
    BY <1>0, <2>1
  <2>3. CASE x # r
    <3>1. held'[x] = held[x] /\ base'[x] = base[x] /\ pc'[x] = pc[x] /\ view'[x] = view[x]
      BY <2>1, <2>3 DEF TypeOK
    <3>2. \A g \in held[x] \cup base[x] : fold'[g] = fold[g]
      BY <2>1, <2>2 DEF TypeOK
    <3>3. \A rows \in view[x], g \in held[x] : RightRows(rows, EventsOf(fold[g]))'
      BY <1>0, <2>1, <3>2, SameLog DEF RightReader, EventsOf
    <3>4. QED
      BY <1>0, <3>1, <3>2, <3>3 DEF RightReader
  <2>4. CASE x = r
    <3>1. held'[x] = {f} /\ base'[x] = prior /\ pc'[x] = "build" /\ view'[x] = {}
      BY <1>0, <2>1, <2>4 DEF TypeOK
    <3>2. fold'[f].len = Len(log)
      BY <1>0, <2>1
    <3>3. \A p \in prior : fold'[p].len <= Len(log)
      BY <1>0, <2>1, <2>2 DEF TypeOK, RightFold
    <3>4. QED
      BY <3>1, <3>2, <3>3 DEF RightReader
  <2>5. QED
    BY <2>3, <2>4
<1>3. CASE Expire
  <2>1. Refolded /\ log' = log /\ UNCHANGED readVars
    BY <1>3, ReadsRefold DEF Expire
  <2>2. QED
    BY <1>0, <2>1, Rereads DEF readVars
<1>4. ASSUME NEW r \in Readers, ReadsOn(r), x # r PROVE RightReader(x)'
  <2>1. Refolded /\ log' = log
    BY <1>4, ReadsRefold
  <2>2. held'[x] = held[x] /\ base'[x] = base[x] /\ pc'[x] = pc[x] /\ view'[x] = view[x]
    BY <1>4 DEF ReadsOn, Reuse, Begin, Built, Matrix, MatrixRows, Rank, Goto, TypeOK
  <2>3. QED
    BY <1>0, <2>1, <2>2, Rereads
<1>5. ASSUME NEW q \in Requests, Reuse(x, q) PROVE RightReader(x)'
  <2>1. base'[x] = {} /\ pc'[x] = "matrix" /\ view'[x] = {}
    BY <1>0, <1>5 DEF Reuse, Begin, Goto, TypeOK
  <2>2. QED
    BY <2>1 DEF RightReader
<1>6. CASE Built(x)
  <2>1. base'[x] = {} /\ pc'[x] = "matrix" /\ view'[x] = {}
    BY <1>0, <1>6 DEF Built, Goto, TypeOK
  <2>2. QED
    BY <2>1 DEF RightReader
<1>7. CASE Matrix(x)
  <2>1. PICK f \in Folds : f = One(held[x]) /\ held[x] = {f}
    BY <1>7, HeldFold DEF Matrix
  <2>2. /\ held'[x] = {f} /\ base'[x] = {} /\ pc'[x] \in {"rows", "rank"} /\ log' = log
        /\ pc'[x] = "rows" => fold'[f].edges # {}
    BY <1>0, <1>7, <2>1, MatrixRefolds DEF Matrix, Goto, TypeOK, logVars
  <2>3. \/ view'[x] = {}
        \/ view'[x] = fold[f].matrix /\ fold' = fold /\ pc'[x] = "rank"
    BY <1>7, <2>1 DEF Matrix, Published, Goto, TypeOK
  <2>4. \A rows \in fold[f].matrix : RightRows(rows, EventsOf(fold[f]))
    BY <1>0, <2>1 DEF RightFold
  <2>5. ASSUME NEW rows \in view'[x] PROVE RightRows(rows, EventsOf(fold[f]))'
    BY <2>2, <2>3, <2>4, <2>5, SameLog DEF EventsOf
  <2>6. QED
    BY <2>2, <2>3, <2>5 DEF RightReader
<1>8. CASE MatrixRows(x)
  <2>1. PICK f \in Folds : f = One(held[x]) /\ held[x] = {f}
    BY <1>8, HeldFold DEF MatrixRows
  <2>2. /\ held'[x] = {f} /\ base'[x] = {} /\ pc'[x] = "rank" /\ log' = log
        /\ view'[x] = fold'[f].matrix
    BY <1>0, <1>8, <2>1 DEF MatrixRows, Goto, TypeOK, logVars
  <2>3. RightFold(fold'[f])
    BY <1>8, <2>1, MatrixRowsRefolds DEF Refolded
  <2>4. \A rows \in fold'[f].matrix : RightRows(rows, EventsOf(fold'[f]))
    BY <2>3 DEF RightFold
  <2>5. ASSUME NEW rows \in view'[x] PROVE RightRows(rows, EventsOf(fold[f]))'
    BY <2>2, <2>4, <2>5, SameLog DEF EventsOf
  <2>6. QED
    BY <2>2, <2>5 DEF RightReader
<1>9. CASE Rank(x)
  <2>1. held'[x] = {} /\ pc'[x] = "idle" /\ view'[x] = {}
    BY <1>9 DEF Rank, Goto, TypeOK
  <2>2. QED
    BY <2>1 DEF RightReader
<1>10. ASSUME NEW r \in Readers, ReadsOn(r) PROVE RightReader(x)'
  <2>1. CASE x # r
    BY <1>4, <1>10, <2>1
  <2>2. CASE x = r
    BY <1>5, <1>6, <1>7, <1>8, <1>9, <1>10, <2>2 DEF ReadsOn
  <2>3. QED
    BY <2>1, <2>2
<1>11. CASE UNCHANGED vars
  <2>1. Refolded /\ log' = log /\ UNCHANGED readVars
    BY <1>11, Collects DEF vars, foldVars, logVars
  <2>2. QED
    BY <1>0, <2>1, Rereads DEF readVars
<1>12. CASE \E r \in Readers : Read(r)
  BY <1>2, <1>10, <1>12 DEF Read, ReadsOn
<1>13. QED
  BY <1>1, <1>3, <1>11, <1>12 DEF Next

-----------------------------------------------------------------------------
(* The theorems *)

LEMMA InitRight == Init => TypeOK /\ FoldInv /\ ReadInv
<1> SUFFICES ASSUME Init PROVE TypeOK /\ FoldInv /\ ReadInv
  OBVIOUS
<1>1. log = <<>> /\ log \in Seq(Events) /\ memo = <<>> /\ memo \in Seq(SUBSET Refs)
  BY DEF Init
<1>2. NoFold \in FoldType /\ RightFold(NoFold)
  BY <1>1, NoFoldRight
<1>3. NoRequest \in [scope : Scopes \cup {NoScope}, vector : BOOLEAN]
  BY DEF NoRequest
<1>4. 0 \in 0 .. MaxWrites /\ 0 \in 0 .. MaxStrays
  BY SearchAssumption
<1>5. TypeOK
  BY <1>1, <1>2, <1>3, <1>4 DEF Init, TypeOK
<1>6. FoldInv
  BY <1>1, <1>2 DEF Init, FoldInv
<1>7. ReadInv
  BY DEF Init, ReadInv, RightReader
<1>8. QED
  BY <1>5, <1>6, <1>7

LEMMA AlwaysRight == Spec => [](TypeOK /\ FoldInv /\ ReadInv)
<1>1. TypeOK /\ FoldInv /\ ReadInv /\ [Next]_vars => (TypeOK /\ FoldInv /\ ReadInv)'
  BY TypeInductive, FoldInductive, ReadInductive
<1>2. QED
  BY <1>1, InitRight, PTL DEF Spec

\* The variables of Search keep their types.
THEOREM TypeCorrect == Spec => []TypeOK
BY AlwaysRight, PTL

\* However a fold came by its indexes, they are what a full build gives.
THEOREM IndexesAreRebuilt == Spec => []CachesAreRebuilt
<1>1. TypeOK /\ FoldInv => CachesAreRebuilt
  BY DEF TypeOK, FoldInv, RightFold, CachesAreRebuilt, Alive
<1>2. QED
  BY <1>1, AlwaysRight, PTL

\* The rows a reader ranks: whichever way it got them, they are right.
LEMMA UsedRows ==
  ASSUME TypeOK, FoldInv, ReadInv, NEW r \in Readers, NEW f \in Folds,
         f = One(held[r]), held[r] = {f}
  PROVE  /\ log \in Seq(Events) /\ fold[f].len \in 0 .. Len(log)
         /\ RightRows(RowsUsed(r), EventsOf(fold[f]))
<1>1. log \in Seq(Events) /\ fold[f].len \in 0 .. Len(log)
  BY DEF TypeOK, FoldInv, RightFold, FoldType
<1>2. CASE view[r] # {}
  <2>1. One(view[r]) \in view[r]
    BY <1>2 DEF One
  <2>2. RightRows(One(view[r]), EventsOf(fold[f]))
    BY <2>1 DEF ReadInv, RightReader
  <2>3. QED
    BY <1>1, <1>2, <2>2 DEF RowsUsed
<1>3. CASE view[r] = {}
  <2>1. RowsUsed(r) = LensRows(VectorView(fold[f]))
    BY <1>3 DEF RowsUsed
  <2>2. RowsUsed(r) = LensRows(1 .. fold[f].len)
    BY <1>1, <2>1, ViewRows
  <2>3. Timely(1 .. fold[f].len) \subseteq LensRows(1 .. fold[f].len)
    BY <1>1, TimelyRows
  <2>4. EventsOf(fold[f]) = 1 .. fold[f].len
    BY DEF EventsOf
  <2>5. QED
    BY <1>1, <2>2, <2>3, <2>4 DEF RightRows
<1>4. QED
  BY <1>2, <1>3

\* Without strays, what a reader ranks is what a full build would rank.
THEOREM AnswersAreFresh == Spec => []AnswerIsFresh
<1>1. ASSUME TypeOK, FoldInv, ReadInv PROVE AnswerIsFresh
  <2> SUFFICES ASSUME NEW r \in Readers, pc[r] = "rank", ~Raises(r),
                      EmbeddingEdges(EventsOf(fold[One(held[r])]))
                        = Timely(EventsOf(fold[One(held[r])]))
               PROVE  Found(r) = Answer(LensRows(EventsOf(fold[One(held[r])])),
                                        EventsOf(fold[One(held[r])]), request[r])
    BY DEF AnswerIsFresh
  <2>1. PICK f \in Folds : f = One(held[r]) /\ held[r] = {f}
    BY <1>1, HeldFold
  <2>2. RightRows(RowsUsed(r), EventsOf(fold[f]))
    BY <1>1, <2>1, UsedRows
  <2>3. RowsUsed(r) = LensRows(EventsOf(fold[f]))
    <3>1. LensRows(EventsOf(fold[f])) \subseteq EmbeddingEdges(EventsOf(fold[f]))
      BY DEF LensRows, Rows
    <3>2. QED
      BY <2>1, <2>2, <3>1 DEF RightRows
  <2>4. Found(r) = Answer(RowsUsed(r), EventsOf(fold[f]), request[r])
    BY <2>1 DEF Found
  <2>5. QED
    BY <2>1, <2>3, <2>4
<1>2. QED
  BY <1>1, AlwaysRight, PTL

-----------------------------------------------------------------------------
(* Ranking                                                                 *)

\* Better hits come first; nothing comes before itself.
IsHit(h) == h[1] \in Int /\ h[2] \in Int /\ h[3] \in Int

LEMMA BeforeOrders ==
  ASSUME NEW f, NEW g, NEW h, IsHit(f), IsHit(g), IsHit(h)
  PROVE  ~ Before(f, f) /\ (Before(f, g) /\ Before(g, h) => Before(f, h))
BY DEF IsHit, Before

\* The best n of some hits are fewer than n only if they are all.
LEMMA TopIsAll ==
  ASSUME NEW hits, IsFiniteSet(hits), \A h \in hits : IsHit(h), NEW n \in Nat,
         Cardinality(Top(hits, n)) < n
  PROVE  Top(hits, n) = hits
<1> DEFINE before(h) == {g \in hits : Before(g, h)}
           out == hits \ Top(hits, n)
           R == StrictSubsetOrdering(hits)
<1>1. SUFFICES ASSUME out # {} PROVE FALSE
  BY DEF Top
<1>2. IsWellFoundedOn(R, SUBSET hits)
  BY FS_StrictSubsetOrderingWellFounded, FS_FiniteSubsetsOfFinite
<1>3. PICK x \in out : \A y \in out : ~ (<<before(y), before(x)>> \in R)
  <2> DEFINE sets == {before(y) : y \in out}
  <2>1. sets \subseteq SUBSET hits /\ sets # {}
    BY <1>1
  <2> HIDE DEF R, sets
  <2>2. PICK least \in sets : \A y \in sets : ~ (<<y, least>> \in R)
    BY <1>2, <2>1, WFMin
  <2>3. QED
    BY <2>2 DEF sets
<1>4. before(x) \subseteq Top(hits, n)
  <2> SUFFICES ASSUME NEW g \in before(x), g \in out PROVE FALSE
    OBVIOUS
  <2>1. before(g) \subseteq before(x) /\ g \notin before(g)
    BY BeforeOrders
  <2>2. <<before(g), before(x)>> \in R
    BY <2>1 DEF StrictSubsetOrdering
  <2>3. QED
    BY <1>3, <2>2
<1>5. /\ IsFiniteSet(Top(hits, n))
  BY FS_Subset DEF Top
<1>6. Cardinality(before(x)) \in Nat /\ Cardinality(before(x)) <= Cardinality(Top(hits, n))
  BY <1>4, <1>5, FS_Subset, FS_CardinalityType
<1>7. Cardinality(before(x)) < n
  BY <1>5, <1>6, FS_CardinalityType
<1>8. QED
  BY <1>7 DEF Top

\* What the scope of some events is, and that a listing which may scan it all
\* does so.
LEMMA ScopeOf ==
  ASSUME log \in Seq(Events), NEW n \in 0 .. Len(log), NEW s
  PROVE  /\ InScope(1 .. n, s) \subseteq Drawers /\ IsFiniteSet(InScope(1 .. n, s))
         /\ InScope(1 .. n, s) \subseteq InScope(DOMAIN log, s)
         /\ Cardinality(InScope(1 .. n, s)) <= ScanLimit
              => Listing(1 .. n, s) = InScope(1 .. n, s)
<1> DEFINE edges(es) == {i \in Of("scoped_to", es) : s \in {NoScope, log[i].to}}
           In == InScope(1 .. n, s)
<1>1. edges(1 .. n) \subseteq edges(DOMAIN log) /\ edges(1 .. n) \subseteq 1 .. n
  BY DEF Of
<1>2. In = {log[i].from : i \in edges(1 .. n)}
  BY DEF InScope
<1>3. In \subseteq Drawers
  <2>1. \A i \in edges(1 .. n) : log[i] \in Events /\ log[i].kind = "scoped_to"
    BY <1>1 DEF Of
  <2>2. QED
    BY <1>2, <2>1 DEF Events
<1>4. In \subseteq InScope(DOMAIN log, s)
  BY <1>1 DEF InScope
<1>5. IsFiniteSet(In)
  <2> DEFINE g == [i \in edges(1 .. n) |-> log[i].from]
  <2>1. IsFiniteSet(edges(1 .. n))
    BY <1>1, FS_Interval, FS_Subset
  <2>2. g \in Surjection(edges(1 .. n), In)
    BY <1>2 DEF Surjection
  <2>3. QED
    BY <2>1, <2>2, FS_Surjection
<1>6. ASSUME Cardinality(In) <= ScanLimit, NEW d \in In PROVE d \in Listing(1 .. n, s)
  <2> DEFINE less == {e \in In : e < d}
  <2>1. d \notin less
    BY <1>3, SearchAssumption DEF Refs
  <2>2. less # In /\ less \subseteq In
    BY <2>1
  <2> HIDE DEF In
  <2>3. IsFiniteSet(less) /\ Cardinality(less) <= Cardinality(In)
        /\ Cardinality(less) # Cardinality(In)
    BY <1>5, <2>2, FS_Subset
  <2>4. Cardinality(less) \in Nat /\ Cardinality(In) \in Nat /\ ScanLimit \in Nat
    BY <1>5, <2>3, FS_CardinalityType, SearchAssumption
  <2>5. Cardinality(less) < ScanLimit
    BY <1>6, <2>3, <2>4
  <2>6. QED
    BY <1>6, <2>5 DEF Listing, In
<1>7. QED
  BY <1>3, <1>4, <1>5, <1>6 DEF Listing

\* What the hits of some rows are: one of each row, that is told by its row.
LEMMA RowHitsOf ==
  ASSUME log \in Seq(Events), NEW n \in 0 .. Len(log),
         NEW rows \in SUBSET EmbeddingEdges(1 .. n), NEW s
  PROVE  /\ IsFiniteSet(RowHits(rows, 1 .. n, s))
         /\ \A h \in RowHits(rows, 1 .. n, s) :
              /\ IsHit(h) /\ h[3] \in Scoped(rows, 1 .. n, s) /\ h[3] \in EmbeddingEdges(1 .. n)
              /\ h[1] = log[h[3]].to /\ h[1] \in Drawers
              /\ h = <<log[h[3]].to, Cosine[log[h[3]].from], h[3]>>
<1> DEFINE es == Scoped(rows, 1 .. n, s)
           hit(i) == <<log[i].to, Cosine[log[i].from], i>>
<1>1. es \subseteq 1 .. n /\ es \subseteq EmbeddingEdges(1 .. n)
  BY DEF Scoped, EmbeddingEdges, Of
<1>2. ASSUME NEW i \in es PROVE IsHit(hit(i)) /\ log[i].to \in Drawers
  <2>1. log[i] \in Events /\ log[i].kind = "embedding_of"
    BY <1>1 DEF EmbeddingEdges, Of
  <2>2. log[i].from \in Vectors /\ log[i].to \in Drawers
    BY <2>1 DEF Events
  <2>3. Cosine[log[i].from] \in Int /\ log[i].to \in Int /\ i \in Int
    BY <1>1, <2>2, SearchAssumption DEF Refs
  <2>4. QED
    BY <2>2, <2>3 DEF IsHit
<1>3. RowHits(rows, 1 .. n, s) = {hit(i) : i \in es}
  BY DEF RowHits
<1>4. IsFiniteSet(RowHits(rows, 1 .. n, s))
  <2> DEFINE g == [i \in es |-> hit(i)]
  <2>1. IsFiniteSet(es)
    BY <1>1, FS_Interval, FS_Subset
  <2>2. g \in Surjection(es, RowHits(rows, 1 .. n, s))
    BY <1>3 DEF Surjection
  <2> HIDE DEF g, es
  <2>3. QED
    BY <2>1, <2>2, FS_Surjection
<1> HIDE DEF es
<1>5. QED
  BY <1>1, <1>2, <1>3, <1>4 DEF es

\* The hybrid rank gives every candidate another score and drops none.
LEMMA RescoredIs ==
  ASSUME log \in Seq(Events), NEW n \in 0 .. Len(log),
         NEW rows \in SUBSET EmbeddingEdges(1 .. n), NEW s,
         NEW cands \in SUBSET RowHits(rows, 1 .. n, s)
  PROVE  /\ IsFiniteSet(Rescored(cands))
         /\ Cardinality(cands) <= Cardinality(Rescored(cands))
         /\ RefsIn(Rescored(cands)) = RefsIn(cands)
         /\ \A h \in Rescored(cands) :
              /\ IsHit(h) /\ h[3] \in Scoped(rows, 1 .. n, s) /\ h[3] \in EmbeddingEdges(1 .. n)
              /\ h[1] = log[h[3]].to /\ h[1] \in RefsIn(cands)
         /\ \A g, h \in Rescored(cands) : g[3] = h[3] => g = h
<1> DEFINE hit(c) == <<c[1], 85 * c[2] + 15 * Lexical[c[1]], c[3]>>
           g == [c \in cands |-> hit(c)]
<1>1. ASSUME NEW c \in cands
      PROVE  /\ IsHit(hit(c)) /\ c[3] \in Scoped(rows, 1 .. n, s)
             /\ c[3] \in EmbeddingEdges(1 .. n) /\ c[1] = log[c[3]].to
             /\ c = <<log[c[3]].to, Cosine[log[c[3]].from], c[3]>>
  <2>1. /\ IsHit(c) /\ c[3] \in Scoped(rows, 1 .. n, s) /\ c[1] \in Drawers
        /\ c[3] \in EmbeddingEdges(1 .. n) /\ c[1] = log[c[3]].to
        /\ c = <<log[c[3]].to, Cosine[log[c[3]].from], c[3]>>
    BY RowHitsOf
  <2>2. Lexical[c[1]] \in Int
    BY <2>1, SearchAssumption
  <2>3. IsHit(hit(c))
    BY <2>1, <2>2 DEF IsHit
  <2>4. QED
    BY <2>1, <2>3
<1>2. Rescored(cands) = {hit(c) : c \in cands}
  BY DEF Rescored
<1>3. \A b, c \in cands : b[3] = c[3] => b = c
  BY <1>1
<1>4. \A h \in Rescored(cands) : \E c \in cands : h = hit(c) /\ h[1] = c[1] /\ h[3] = c[3]
  BY <1>2
<1>5. \A c \in cands : g[c] = hit(c) /\ g[c][3] = c[3] /\ g[c] \in Rescored(cands)
  BY <1>2
<1>6. g \in Surjection(cands, Rescored(cands)) /\ g \in Injection(cands, Rescored(cands))
  <2>1. g \in [cands -> Rescored(cands)] /\ DOMAIN g = cands
    BY <1>5
  <2>2. \A h \in Rescored(cands) : \E c \in cands : g[c] = h
    BY <1>4, <1>5
  <2> HIDE DEF g, hit
  <2>3. \A b, c \in cands : g[b] = g[c] => b = c
    BY <1>3, <1>5
  <2>4. QED
    BY <2>1, <2>2, <2>3 DEF Surjection, Injection, IsInjective
<1>7. IsFiniteSet(cands)
  BY RowHitsOf, FS_Subset
<1> HIDE DEF g
<1>8. IsFiniteSet(Rescored(cands)) /\ Cardinality(cands) <= Cardinality(Rescored(cands))
  BY <1>6, <1>7, FS_Surjection, FS_Injection
<1>9. RefsIn(Rescored(cands)) = RefsIn(cands)
  BY <1>4, <1>5 DEF RefsIn
<1>10. \A e, h \in Rescored(cands) : e[3] = h[3] => e = h
  BY <1>3, <1>4
<1>11. \A h \in Rescored(cands) :
          /\ IsHit(h) /\ h[3] \in Scoped(rows, 1 .. n, s) /\ h[3] \in EmbeddingEdges(1 .. n)
          /\ h[1] = log[h[3]].to
  BY <1>1, <1>4
<1>12. \A h \in Rescored(cands) : h[1] \in RefsIn(Rescored(cands))
  BY DEF RefsIn
<1>13. QED
  BY <1>8, <1>9, <1>10, <1>11, <1>12

\* A lexical hit is told by its drawer.
LEMMA ScoredIs ==
  ASSUME NEW ds \in SUBSET Drawers, IsFiniteSet(ds)
  PROVE  /\ IsFiniteSet(Scored(ds)) /\ RefsIn(Scored(ds)) = ds
         /\ \A h \in Scored(ds) : IsHit(h) /\ h[1] \in ds /\ h[3] = 0
         /\ \A g, h \in Scored(ds) : g[1] = h[1] => g = h
<1> DEFINE hit(d) == <<d, 100 * Lexical[d], 0>>
           g == [d \in ds |-> hit(d)]
<1>1. \A d \in ds : d \in Int /\ Lexical[d] \in Int
  BY SearchAssumption DEF Refs
<1>2. \A h \in Scored(ds) : \E d \in ds : h = hit(d)
  BY DEF Scored
<1>3. \A d \in ds : hit(d) \in Scored(ds)
  BY DEF Scored
<1>4. g \in Surjection(ds, Scored(ds))
  BY <1>2, <1>3 DEF Surjection
<1> HIDE DEF g
<1>5. IsFiniteSet(Scored(ds))
  BY <1>4, FS_Surjection
<1>6. \A h \in Scored(ds) : IsHit(h) /\ h[1] \in ds /\ h[3] = 0
  BY <1>1, <1>2 DEF IsHit
<1>7. RefsIn(Scored(ds)) = ds
  <2>1. \A d \in ds : hit(d)[1] = d
    OBVIOUS
  <2>2. ds \subseteq RefsIn(Scored(ds))
    BY <1>3, <2>1 DEF RefsIn
  <2>3. QED
    BY <1>6, <2>2 DEF RefsIn
<1>8. QED
  BY <1>2, <1>5, <1>6, <1>7

\* An answer that is not full drops no candidate and no drawer of the union: a
\* drawer of the scope that has a timely edge is a candidate, one that has not is
\* pending, so that there is a union, of whatever the candidates leave.
LEMMA HybridFinds ==
  ASSUME log \in Seq(Events), NEW n \in 0 .. Len(log),
         NEW rows \in SUBSET EmbeddingEdges(1 .. n), Timely(1 .. n) \subseteq rows,
         NEW s, Cardinality(InScope(1 .. n, s)) <= ScanLimit,
         NEW d \in InScope(1 .. n, s), Reached(d, 1 .. n),
         Cardinality(Hybrid(Candidates(rows, 1 .. n, s), 1 .. n, s)) < K
  PROVE  d \in RefsIn(Hybrid(Candidates(rows, 1 .. n, s), 1 .. n, s))
<1> DEFINE all == RowHits(rows, 1 .. n, s)
           cands == Candidates(rows, 1 .. n, s)
           union == Union(cands, 1 .. n, s)
           best == Hybrid(cands, 1 .. n, s)
<1>0. K \in Nat \ {0} /\ 3 * K \in Nat
  BY SearchAssumption
<1>1. InScope(1 .. n, s) \subseteq Drawers /\ IsFiniteSet(InScope(1 .. n, s))
      /\ Listing(1 .. n, s) = InScope(1 .. n, s)
  BY ScopeOf
<1>2. cands \subseteq all /\ IsFiniteSet(all) /\ \A h \in all : IsHit(h)
  BY RowHitsOf DEF Candidates, Top
<1>3. /\ IsFiniteSet(Rescored(cands)) /\ \A h \in Rescored(cands) : IsHit(h)
      /\ Cardinality(cands) <= Cardinality(Rescored(cands))
      /\ RefsIn(Rescored(cands)) = RefsIn(cands)
  BY <1>2, RescoredIs
<1>4. union = {} \/ union = Scored(InScope(1 .. n, s) \ RefsIn(cands))
  BY <1>1 DEF Union, Unseen
<1>5. /\ IsFiniteSet(InScope(1 .. n, s) \ RefsIn(cands))
      /\ InScope(1 .. n, s) \ RefsIn(cands) \in SUBSET Drawers
  BY <1>1, FS_Subset
<1>6. IsFiniteSet(union) /\ \A h \in union : IsHit(h)
  <2> DEFINE rest == InScope(1 .. n, s) \ RefsIn(cands)
  <2>1. IsFiniteSet(rest) /\ rest \in SUBSET Drawers
    BY <1>5
  <2> HIDE DEF rest
  <2>2. IsFiniteSet(Scored(rest)) /\ \A h \in Scored(rest) : IsHit(h)
    BY <2>1, ScoredIs
  <2>3. QED
    BY <1>4, <2>2, FS_EmptySet DEF rest
<1>7. best = Rescored(cands) \cup union
  <2>1. IsFiniteSet(Rescored(cands) \cup union)
    BY <1>3, <1>6, FS_Union
  <2>2. best = Top(Rescored(cands) \cup union, K)
    BY DEF Hybrid
  <2> HIDE DEF cands, union, best
  <2>3. QED
    BY <1>0, <1>3, <1>6, <2>1, <2>2, TopIsAll DEF best, cands
<1>8. cands = all
  <2>1. IsFiniteSet(best)
    BY <1>3, <1>6, <1>7, FS_Union
  <2>2. Cardinality(Rescored(cands)) <= Cardinality(best)
    BY <1>7, <2>1, FS_Subset
  <2>3. IsFiniteSet(cands)
    BY <1>2, FS_Subset
  <2>4. Cardinality(cands) \in Nat /\ Cardinality(best) \in Nat
        /\ Cardinality(Rescored(cands)) \in Nat
    BY <1>3, <2>1, <2>3, FS_CardinalityType
  <2>5. Cardinality(best) < K
    OBVIOUS
  <2>6. cands = Top(all, 3 * K)
    BY DEF Candidates
  <2> HIDE DEF all, cands, best
  <2>7. Cardinality(cands) < 3 * K
    BY <1>0, <1>3, <2>2, <2>4, <2>5
  <2>8. QED
    BY <1>0, <1>2, <2>6, <2>7, TopIsAll
<1>9. RefsIn(cands) \subseteq RefsIn(best)
  BY <1>3, <1>7 DEF RefsIn
<1>10. CASE \E i \in Timely(1 .. n) : log[i].to = d
  <2>1. PICK i \in Timely(1 .. n) : log[i].to = d
    BY <1>10
  <2>2. i \in Scoped(rows, 1 .. n, s)
    BY <2>1 DEF Scoped
  <2>3. <<d, Cosine[log[i].from], i>> \in all
    BY <2>1, <2>2 DEF RowHits
  <2>4. d \in RefsIn(all)
    BY <2>3 DEF RefsIn
  <2>5. QED
    BY <1>8, <1>9, <2>4
<1>11. CASE d \in Pending(1 .. n) /\ d \notin RefsIn(cands)
  <2>1. union = Scored(InScope(1 .. n, s) \ RefsIn(cands))
    BY <1>1, <1>11 DEF Union, Unseen, NeedsUnion
  <2>2. d \in RefsIn(union)
    BY <1>5, <1>11, <2>1, ScoredIs
  <2>3. QED
    BY <1>7, <2>2 DEF RefsIn
<1>12. QED
  BY <1>9, <1>10, <1>11 DEF Reached

\* Without a vector an answer that is not full lists the whole scope.
LEMMA LexicalFinds ==
  ASSUME log \in Seq(Events), NEW n \in 0 .. Len(log),
         NEW s, Cardinality(InScope(1 .. n, s)) <= ScanLimit,
         Cardinality(Top(Scored(Listing(1 .. n, s)), K)) < K
  PROVE  InScope(1 .. n, s) \subseteq RefsIn(Top(Scored(Listing(1 .. n, s)), K))
<1>1. InScope(1 .. n, s) \in SUBSET Drawers /\ IsFiniteSet(InScope(1 .. n, s))
      /\ Listing(1 .. n, s) = InScope(1 .. n, s)
  BY ScopeOf
<1>2. /\ IsFiniteSet(Scored(InScope(1 .. n, s)))
      /\ \A h \in Scored(InScope(1 .. n, s)) : IsHit(h)
      /\ RefsIn(Scored(InScope(1 .. n, s))) = InScope(1 .. n, s)
  BY <1>1, ScoredIs
<1>3. Top(Scored(InScope(1 .. n, s)), K) = Scored(InScope(1 .. n, s))
  BY <1>1, <1>2, TopIsAll, SearchAssumption
<1>4. QED
  BY <1>1, <1>2, <1>3

\* What the hits of an answer are: a row of the scope, told by its place in the
\* log, or a drawer of the scope that the answer has no row of.
LEMMA AnswerIs ==
  ASSUME log \in Seq(Events), NEW n \in 0 .. Len(log),
         NEW rows \in SUBSET EmbeddingEdges(1 .. n), NEW q
  PROVE  \A g, h \in Answer(rows, 1 .. n, q) :
           /\ g[1] = h[1] /\ h[3] = 0 => g = h
           /\ g[3] = h[3] /\ h[3] # 0 => g = h
           /\ h[3] # 0 => h[3] \in EmbeddingEdges(1 .. n) /\ log[h[3]].to = h[1]
           /\ q.scope # NoScope => h[1] \in InScope(1 .. n, q.scope)
<1> DEFINE s == q.scope
           listed(ds) == \A g, h \in Scored(ds) :
                            /\ g[1] = h[1] => g = h
                            /\ h[3] = 0 /\ h[1] \in ds
<1>1. ASSUME NEW ds \in SUBSET InScope(1 .. n, s) PROVE listed(ds)
  <2>1. ds \in SUBSET Drawers /\ IsFiniteSet(ds)
    BY ScopeOf, FS_Subset
  <2>2. QED
    BY <2>1, ScoredIs
<1>2. Listing(1 .. n, s) \subseteq InScope(1 .. n, s)
  BY DEF Listing
<1>3. CASE ~ q.vector
  <2>1. Answer(rows, 1 .. n, q) \subseteq Scored(Listing(1 .. n, s))
    BY <1>3 DEF Answer, Top
  <2>2. listed(Listing(1 .. n, s))
    BY <1>1, <1>2
  <2> HIDE DEF s
  <2>3. QED
    BY <1>2, <2>1, <2>2 DEF s
<1>4. CASE q.vector
  <2> DEFINE cands == Candidates(rows, 1 .. n, s)
             scored == Rescored(cands)
             union == Union(cands, 1 .. n, s)
             rest == Listing(1 .. n, s) \ RefsIn(cands)
  <2>1. Answer(rows, 1 .. n, q) \subseteq scored \cup union
    BY <1>4 DEF Answer, Hybrid, Top
  <2>2. cands \in SUBSET RowHits(rows, 1 .. n, s)
    BY DEF Candidates, Top
  <2> HIDE DEF s, cands
  <2>3. /\ \A h \in scored : /\ h[3] \in Scoped(rows, 1 .. n, s)
                             /\ h[3] \in EmbeddingEdges(1 .. n)
                             /\ h[1] = log[h[3]].to /\ h[1] \in RefsIn(cands)
        /\ \A g, h \in scored : g[3] = h[3] => g = h
    BY <2>2, RescoredIs
  <2>4. union \subseteq Scored(rest) /\ listed(rest)
    <3>1. union = {} \/ union = Scored(rest)
      BY DEF Union, Unseen
    <3>2. rest \in SUBSET InScope(1 .. n, s)
      BY <1>2
    <3> HIDE DEF union, rest, listed
    <3>3. listed(rest)
      BY <1>1, <3>2
    <3>4. QED
      BY <3>1, <3>3
  <2>5. \A h \in scored : h[3] # 0 /\ (s # NoScope => h[1] \in InScope(1 .. n, s))
    BY <2>3 DEF Scoped, EmbeddingEdges, Of
  <2> HIDE DEF scored, union
  <2>6. \A g \in scored, h \in union : g[1] # h[1] /\ g[3] # h[3]
    BY <2>3, <2>4, <2>5
  <2>7. \A h \in union : h[3] = 0 /\ h[1] \in InScope(1 .. n, s)
    BY <1>2, <2>4
  <2>8. \A g, h \in union : g[1] = h[1] => g = h
    BY <2>4
  <2>9. QED
    BY <2>1, <2>3, <2>5, <2>6, <2>7, <2>8 DEF s
<1>5. QED
  BY <1>3, <1>4

\* Of the hits of one drawer, each has an edge of its own, or there is one.
LEMMA HitsOfDrawer ==
  ASSUME log \in Seq(Events), NEW n \in 0 .. Len(log),
         NEW rows \in SUBSET EmbeddingEdges(1 .. n), NEW q,
         NEW d \in RefsIn(Answer(rows, 1 .. n, q))
  PROVE  LET hits == {h \in Answer(rows, 1 .. n, q) : h[1] = d}
             edges == {i \in EmbeddingEdges(DOMAIN log) : log[i].to = d}
         IN  /\ Cardinality(hits) <= IF edges = {} THEN 1 ELSE Cardinality(edges)
             /\ q.scope # NoScope => d \in InScope(DOMAIN log, q.scope)
<1> DEFINE hits == {h \in Answer(rows, 1 .. n, q) : h[1] = d}
           edges == {i \in EmbeddingEdges(DOMAIN log) : log[i].to = d}
<1>1. PICK h \in hits : h[1] = d
  BY DEF RefsIn
<1>2. \A g, e \in hits : /\ e[3] = 0 => g = e
                         /\ g[3] = e[3] /\ e[3] # 0 => g = e
                         /\ e[3] # 0 => e[3] \in EmbeddingEdges(1 .. n) /\ log[e[3]].to = d
  BY AnswerIs
<1>3. /\ DOMAIN log = 1 .. Len(log) /\ Len(log) \in Nat
      /\ EmbeddingEdges(1 .. n) \subseteq EmbeddingEdges(DOMAIN log)
  BY DEF EmbeddingEdges, Of
<1>4. IsFiniteSet(edges) /\ Cardinality(edges) \in Nat
  <2>1. edges \subseteq 1 .. Len(log)
    BY <1>3 DEF EmbeddingEdges, Of
  <2> HIDE DEF edges
  <2>2. IsFiniteSet(1 .. Len(log))
    BY <1>3, FS_Interval
  <2>3. IsFiniteSet(edges)
    BY <2>1, <2>2, FS_Subset
  <2>4. QED
    BY <2>3, FS_CardinalityType
<1>5. q.scope # NoScope => d \in InScope(DOMAIN log, q.scope)
  BY <1>1, AnswerIs, ScopeOf
<1>6. Cardinality(edges) = 0 <=> edges = {}
  BY <1>4, FS_EmptySet
<1>7. CASE \E e \in hits : e[3] = 0
  <2>1. hits = {h}
    BY <1>1, <1>2, <1>7
  <2>2. Cardinality(hits) = 1
    BY <2>1, FS_Singleton
  <2> HIDE DEF hits, edges
  <2>3. Cardinality(hits) <= IF edges = {} THEN 1 ELSE Cardinality(edges)
    BY <1>4, <1>6, <2>2
  <2>4. QED
    BY <1>5, <2>3 DEF hits, edges
<1>8. CASE \A e \in hits : e[3] # 0
  <2> DEFINE g == [e \in hits |-> e[3]]
  <2>1. \A e \in hits : e[3] \in edges
    BY <1>2, <1>3, <1>8
  <2> HIDE DEF edges
  <2>2. g \in Injection(hits, edges)
    <3>1. g \in [hits -> edges]
      BY <2>1
    <3>2. \A a, b \in hits : g[a] = g[b] => a = b
      BY <1>2, <1>8
    <3>3. QED
      BY <3>1, <3>2 DEF Injection, IsInjective
  <2> HIDE DEF g, hits
  <2>3. Cardinality(hits) <= Cardinality(edges)
    BY <1>4, <2>2, FS_Injection
  <2>4. edges # {}
    BY <1>1, <2>1
  <2>5. QED
    BY <1>5, <2>3, <2>4 DEF hits, edges
<1>9. QED
  BY <1>7, <1>8

-----------------------------------------------------------------------------
(* What is acknowledged                                                    *)

\* Scopes and timely edges only grow.
LEMMA ScopeGrows ==
  ASSUME log \in Seq(Events), Grows, NEW s
  PROVE  InScope(DOMAIN log, s) \subseteq InScope(DOMAIN log, s)'
BY DEF Grows, InScope, Of

LEMMA TimelyGrows ==
  ASSUME log \in Seq(Events), Grows
  PROVE  Timely(DOMAIN log) \subseteq Timely(DOMAIN log)'
         /\ \A i \in Timely(DOMAIN log) : i \in DOMAIN log /\ log'[i] = log[i]
<1>1. /\ DOMAIN log = 1 .. Len(log) /\ DOMAIN log' = 1 .. Len(log')
      /\ \A i \in DOMAIN log : i \in DOMAIN log' /\ log'[i] = log[i]
  BY DEF Grows
<1>2. QED
  BY <1>1 DEF Timely, EmbeddingEdges, Of, Cell, Event

\* An append that invalidates nothing leaves a reached drawer reached.
LEMMA ReachedGrows ==
  ASSUME log \in Seq(Events), Grows, NEW d \in Drawers, Reached(d, DOMAIN log),
         \/ d \in {log[i].to : i \in Timely(DOMAIN log)}
         \/ \A j \in Len(log) + 1 .. Len(log') : log'[j] # Event("invalidate", d, d)
  PROVE  Reached(d, DOMAIN log)'
<1>1. /\ DOMAIN log = 1 .. Len(log) /\ DOMAIN log' = 1 .. Len(log')
      /\ \A i \in DOMAIN log : i \in DOMAIN log' /\ log'[i] = log[i]
      /\ \A j \in DOMAIN log' : j \in DOMAIN log \/ j \in Len(log) + 1 .. Len(log')
  BY DEF Grows
<1>2. CASE d \in {log[i].to : i \in Timely(DOMAIN log)}
  BY <1>2, TimelyGrows DEF Reached
<1>3. CASE /\ d \in Pending(DOMAIN log)
           /\ \A j \in Len(log) + 1 .. Len(log') : log'[j] # Event("invalidate", d, d)
  <2>1. PICK i \in DOMAIN log : /\ log[i] = Event("needs_embedding", d, d)
                                /\ \A j \in DOMAIN log : j > i => log[j] # Event("invalidate", d, d)
    BY <1>3 DEF Pending
  <2>2. log'[i] = Event("needs_embedding", d, d)
        /\ \A j \in DOMAIN log' : j > i => log'[j] # Event("invalidate", d, d)
    BY <1>1, <1>3, <2>1 DEF Event
  <2>3. d \in Pending(DOMAIN log)'
    BY <1>1, <2>2 DEF Pending, Event
  <2>4. QED
    BY <2>3 DEF Reached
<1>4. QED
  BY <1>2, <1>3 DEF Reached

\* What is acknowledged and what the lock holder relies on outlast an append,
\* unless it invalidates a marker that nobody has answered yet.
Acked(a) == a[1] \in InScope(DOMAIN log, a[2]) /\ Reached(a[1], DOMAIN log)
Owing(l) ==
  IF l[1] = "mark" THEN l[2] \in InScope(DOMAIN log, l[3])
  ELSE l[2] \in {log[i].to : i \in Timely(DOMAIN log)}

LEMMA AckStays ==
  ASSUME log \in Seq(Events), Grows
  PROVE  /\ \A l : Owing(l) => Owing(l)'
         /\ \A a \in Drawers \X Scopes :
              /\ Acked(a)
              /\ \/ a[1] \in {log[i].to : i \in Timely(DOMAIN log)}
                 \/ \A j \in Len(log) + 1 .. Len(log') :
                       log'[j] # Event("invalidate", a[1], a[1])
              => Acked(a)'
<1>1. ASSUME NEW l, Owing(l) PROVE Owing(l)'
  BY <1>1, ScopeGrows, TimelyGrows DEF Owing
<1>2. ASSUME NEW a \in Drawers \X Scopes, Acked(a),
             \/ a[1] \in {log[i].to : i \in Timely(DOMAIN log)}
             \/ \A j \in Len(log) + 1 .. Len(log') : log'[j] # Event("invalidate", a[1], a[1])
      PROVE  Acked(a)'
  <2>1. a[1] \in InScope(DOMAIN log, a[2])'
    BY <1>2, ScopeGrows DEF Acked
  <2>2. Reached(a[1], DOMAIN log)'
    BY <1>2, ReachedGrows DEF Acked
  <2>3. QED
    BY <2>1, <2>2 DEF Acked
<1>3. QED
  BY <1>1, <1>2

LEMMA AckInductive == TypeOK /\ AckInv /\ [Next]_vars => AckInv'
<1> SUFFICES ASSUME TypeOK, AckInv, [Next]_vars PROVE AckInv'
  OBVIOUS
<1> DEFINE Owed3 == {"mark", "clear"} \X Drawers \X (Scopes \cup {NoScope})
           last == Len(log)
<1>0. /\ log \in Seq(Events) /\ acked \subseteq Drawers \X Scopes /\ last \in Nat
      /\ lock \subseteq Owed3 /\ (\A a \in acked : Acked(a)) /\ (\A l \in lock : Owing(l))
  BY DEF TypeOK, AckInv, Acked, Owing
<1>1. /\ \A d \in Drawers : d \in Refs /\ \A s \in ScopesOf[d] : s \in Scopes
      /\ \A e \in Embeds : e[1] \in Refs /\ e[1] \in Vectors /\ e[2] \in Drawers
      /\ \A a \in Refs : Cell(a) \in Events
      /\ \A v \in Vectors, d \in Drawers : Edge(v, d) \in Events
      /\ \A d \in Drawers : \A s \in Scopes : Event("scoped_to", d, s) \in Events
      /\ \A d \in Drawers : \A k \in {"needs_embedding", "invalidate"} :
            Event(k, d, d) \in Events
  BY SearchAssumption DEF Refs, Event, Cell, Edge, Events, Kinds
<1>2. \A es \in Seq(Events) : Append_(es) => /\ Grows /\ Len(log') = last + Len(es)
                                            /\ \A i \in 1 .. Len(es) : log'[last + i] = es[i]
  BY <1>0, Appends DEF Append_
<1>3. ASSUME Grows, \A a \in acked' : a \in acked \/ Acked(a)',
             \A l \in lock' : l \in Owed3 /\ Owing(l)',
             \A a \in acked :
               \/ a[1] \in {log[i].to : i \in Timely(DOMAIN log)}
               \/ \A j \in last + 1 .. Len(log') : log'[j] # Event("invalidate", a[1], a[1])
      PROVE  AckInv'
  <2>1. \A a \in acked' : Acked(a)'
    BY <1>0, <1>3, AckStays
  <2>2. QED
    BY <1>3, <2>1 DEF AckInv, Acked, Owing
<1>4. ASSUME NEW d \in Drawers, NEW s \in ScopesOf[d], NEW v \in Vectors, FileVector(d, s, v)
      PROVE  AckInv'
  <2> DEFINE es == <<Cell(d), Event("scoped_to", d, s), Cell(v), Edge(v, d)>>
  <2>0. es[1] = Cell(d) /\ es[2] = Event("scoped_to", d, s) /\ es[3] = Cell(v) /\ es[4] = Edge(v, d)
    OBVIOUS
  <2>1. es \in Seq(Events) /\ Len(es) = 4 /\ Append_(es)
    BY <1>1, <1>4 DEF FileVector, Refs
  <2> HIDE DEF es
  <2>2. Grows /\ Len(log') = last + Len(es) /\ \A i \in 1 .. Len(es) : log'[last + i] = es[i]
    BY <1>2, <2>1
  <2>3. /\ Grows /\ Len(log') = last + 4 /\ log'[last + 1] = Cell(d)
        /\ log'[last + 2] = Event("scoped_to", d, s)
        /\ log'[last + 3] = Cell(v) /\ log'[last + 4] = Edge(v, d)
    <3>1. Len(log') = last + 4 /\ \A i \in 1 .. 4 : log'[last + i] = es[i]
      BY <2>1, <2>2
    <3>2. QED
      BY <2>0, <2>2, <3>1
  <2>4. DOMAIN log' = 1 .. last + 4
    BY <2>3 DEF Grows
  <2>5. \A j \in last + 1 .. Len(log'), x \in Drawers : log'[j] # Event("invalidate", x, x)
    <3>1. \A j \in last + 1 .. Len(log') : j \in {last + 1, last + 2, last + 3, last + 4}
      BY <1>0, <2>3
    <3>2. \A j \in last + 1 .. Len(log') : log'[j].kind # "invalidate"
      BY <2>3, <3>1 DEF Event, Cell, Edge
    <3>3. QED
      BY <3>2 DEF Event
  <2>6. d \in InScope(DOMAIN log, s)'
    <3>1. last + 2 \in Of("scoped_to", DOMAIN log)'
      BY <1>0, <2>3, <2>4 DEF Of, Event
    <3>2. QED
      BY <2>3, <3>1 DEF InScope, Event
  <2>7. last + 4 \in Timely(DOMAIN log)'
    <3>1. last + 4 \in EmbeddingEdges(DOMAIN log)' /\ log'[last + 4].from = v
      BY <1>0, <2>3, <2>4 DEF EmbeddingEdges, Of, Edge, Event
    <3>2. last + 3 \in DOMAIN log' /\ last + 3 < last + 4
      BY <1>0, <2>4
    <3>3. QED
      BY <2>3, <3>1, <3>2 DEF Timely, Cell, Event
  <2>8. Reached(d, DOMAIN log)'
    BY <2>3, <2>7 DEF Reached, Edge, Event
  <2>9. acked' = acked \cup {<<d, s>>} /\ lock' = {}
    BY <1>4 DEF FileVector, Writing
  <2>10. \A a \in acked' : a \in acked \/ Acked(a)'
    BY <2>6, <2>8, <2>9 DEF Acked
  <2>11. QED
    BY <1>0, <1>3, <2>3, <2>5, <2>9, <2>10
<1>5. ASSUME NEW d \in Drawers, NEW s \in ScopesOf[d], FilePending(d, s) PROVE AckInv'
  <2> DEFINE es == <<Cell(d), Event("scoped_to", d, s)>>
  <2>0. es[1] = Cell(d) /\ es[2] = Event("scoped_to", d, s)
    OBVIOUS
  <2>1. es \in Seq(Events) /\ Len(es) = 2 /\ Append_(es)
    BY <1>1, <1>5 DEF FilePending, Refs
  <2> HIDE DEF es
  <2>2. Grows /\ Len(log') = last + Len(es) /\ \A i \in 1 .. Len(es) : log'[last + i] = es[i]
    BY <1>2, <2>1
  <2>3. /\ Grows /\ Len(log') = last + 2 /\ log'[last + 1] = Cell(d)
        /\ log'[last + 2] = Event("scoped_to", d, s)
    BY <2>0, <2>1, <2>2
  <2>4. DOMAIN log' = 1 .. last + 2
    BY <2>3 DEF Grows
  <2>5. \A j \in last + 1 .. Len(log'), x \in Drawers : log'[j] # Event("invalidate", x, x)
    BY <1>0, <2>3 DEF Event, Cell
  <2>6. d \in InScope(DOMAIN log, s)'
    <3>1. last + 2 \in Of("scoped_to", DOMAIN log)'
      BY <1>0, <2>3, <2>4 DEF Of, Event
    <3>2. QED
      BY <2>3, <3>1 DEF InScope, Event
  <2>7. acked' = acked /\ lock' = {<<"mark", d, s>>}
    BY <1>5 DEF FilePending
  <2>8. \A l \in lock' : l \in Owed3 /\ Owing(l)'
    BY <1>1, <2>6, <2>7 DEF Owing
  <2>9. QED
    BY <1>0, <1>3, <2>3, <2>5, <2>7, <2>8
<1>6. ASSUME NEW d \in Drawers, NEW s \in ScopesOf[d], Mark(d, s) PROVE AckInv'
  <2> DEFINE es == <<Event("needs_embedding", d, d)>>
  <2>0. es[1] = Event("needs_embedding", d, d)
    OBVIOUS
  <2>1. es \in Seq(Events) /\ Len(es) = 1 /\ Append_(es)
    BY <1>1, <1>6 DEF Mark
  <2> HIDE DEF es
  <2>2. Grows /\ Len(log') = last + Len(es) /\ \A i \in 1 .. Len(es) : log'[last + i] = es[i]
    BY <1>2, <2>1
  <2>3. Grows /\ Len(log') = last + 1 /\ log'[last + 1] = Event("needs_embedding", d, d)
    BY <2>0, <2>1, <2>2
  <2>4. DOMAIN log' = 1 .. last + 1
    BY <2>3 DEF Grows
  <2>5. \A j \in last + 1 .. Len(log'), x \in Drawers : log'[j] # Event("invalidate", x, x)
    BY <1>0, <2>3 DEF Event
  <2>6. d \in InScope(DOMAIN log, s)'
    BY <1>0, <1>6, <2>3, ScopeGrows DEF Mark, Owed, Owing
  <2>7. d \in Pending(DOMAIN log)'
    BY <1>0, <2>3, <2>4 DEF Pending, Event
  <2>8. acked' = acked \cup {<<d, s>>} /\ lock' = {}
    BY <1>6 DEF Mark, Owed
  <2>9. \A a \in acked' : a \in acked \/ Acked(a)'
    BY <2>6, <2>7, <2>8 DEF Acked, Reached
  <2>10. QED
    BY <1>0, <1>3, <2>3, <2>5, <2>8, <2>9
<1>7. ASSUME NEW d \in Drawers, Clear(d) PROVE AckInv'
  <2> DEFINE es == <<Event("invalidate", d, d)>>
  <2>0. es[1] = Event("invalidate", d, d)
    OBVIOUS
  <2>1. es \in Seq(Events) /\ Len(es) = 1 /\ Append_(es)
    BY <1>1, <1>7 DEF Clear
  <2> HIDE DEF es
  <2>2. Grows /\ Len(log') = last + Len(es) /\ \A i \in 1 .. Len(es) : log'[last + i] = es[i]
    BY <1>2, <2>1
  <2>3. Grows /\ Len(log') = last + 1 /\ log'[last + 1] = Event("invalidate", d, d)
    BY <2>0, <2>1, <2>2
  <2>4. d \in {log[i].to : i \in Timely(DOMAIN log)}
    BY <1>0, <1>7 DEF Clear, Owed, Owing
  <2>5. \A x \in Drawers, j \in last + 1 .. Len(log') :
           x # d => log'[j] # Event("invalidate", x, x)
    BY <1>0, <2>3 DEF Event
  <2>6. acked' = acked /\ lock' = {}
    BY <1>7 DEF Clear, Owed
  <2>7. QED
    BY <1>0, <1>3, <2>3, <2>4, <2>5, <2>6
<1>8. ASSUME NEW e \in Embeds, Attach(e[2], e[1]) PROVE AckInv'
  <2> DEFINE v == e[1]  d == e[2]
             es == <<Cell(v), Edge(v, d)>>
  <2>0. es[1] = Cell(v) /\ es[2] = Edge(v, d) /\ d \in Drawers /\ v \in Vectors /\ v \in Refs
    BY <1>1
  <2>1. es \in Seq(Events) /\ Len(es) = 2 /\ Append_(es)
    BY <1>1, <1>8 DEF Attach
  <2> HIDE DEF es
  <2>2. Grows /\ Len(log') = last + Len(es) /\ \A i \in 1 .. Len(es) : log'[last + i] = es[i]
    BY <1>2, <2>1
  <2>3. Grows /\ Len(log') = last + 2 /\ log'[last + 1] = Cell(v) /\ log'[last + 2] = Edge(v, d)
    BY <2>0, <2>1, <2>2
  <2>4. acked' = acked /\ lock' = {<<"clear", d, NoScope>>}
    BY <1>8 DEF Attach
  <2> HIDE DEF v, d
  <2>5. DOMAIN log' = 1 .. last + 2
    BY <2>3 DEF Grows
  <2>6. \A j \in last + 1 .. Len(log'), x \in Drawers : log'[j] # Event("invalidate", x, x)
    BY <1>0, <2>3 DEF Event, Cell, Edge
  <2>7. last + 2 \in Timely(DOMAIN log)'
    <3>1. last + 2 \in EmbeddingEdges(DOMAIN log)' /\ log'[last + 2].from = v
      BY <1>0, <2>3, <2>5 DEF EmbeddingEdges, Of, Edge, Event
    <3>2. last + 1 \in DOMAIN log' /\ last + 1 < last + 2
      BY <1>0, <2>5
    <3>3. QED
      BY <2>3, <3>1, <3>2 DEF Timely, Cell, Event
  <2>8. \A l \in lock' : Owing(l)'
    BY <2>3, <2>4, <2>7 DEF Owing, Edge, Event
  <2>9. \A l \in lock' : l \in Owed3
    BY <2>0, <2>4
  <2>10. QED
    BY <1>0, <1>3, <2>3, <2>4, <2>6, <2>8, <2>9
<1>9. ASSUME NEW e \in Embeds, Relate(e[1], e[2]) PROVE AckInv'
  <2> DEFINE es == <<Edge(e[1], e[2])>>
  <2>0. es[1] = Edge(e[1], e[2])
    OBVIOUS
  <2>1. es \in Seq(Events) /\ Len(es) = 1 /\ Append_(es)
    BY <1>1, <1>9 DEF Relate
  <2> HIDE DEF es
  <2>2. Grows /\ Len(log') = last + Len(es) /\ \A i \in 1 .. Len(es) : log'[last + i] = es[i]
    BY <1>2, <2>1
  <2>3. Grows /\ Len(log') = last + 1 /\ log'[last + 1] = Edge(e[1], e[2])
    BY <2>0, <2>1, <2>2
  <2>4. \A j \in last + 1 .. Len(log'), x \in Drawers : log'[j] # Event("invalidate", x, x)
    BY <1>0, <2>3 DEF Event, Edge
  <2>5. acked' = acked /\ lock' = {}
    BY <1>9 DEF Relate, Writing
  <2>6. QED
    BY <1>0, <1>3, <2>3, <2>4, <2>5
<1>10. CASE Write
  BY <1>4, <1>5, <1>6, <1>7, <1>8, <1>9, <1>10 DEF Write
<1>11. CASE UNCHANGED logVars
  BY <1>11 DEF logVars, AckInv, InScope, Of, Reached, Pending, Timely, EmbeddingEdges,
               Event, Cell
<1>12. CASE Expire \/ \E r \in Readers : Read(r)
  BY <1>11, <1>12 DEF Expire, Read, Reuse, Build, Begin, Built, Matrix, MatrixRows, Rank
<1>13. QED
  BY <1>10, <1>11, <1>12 DEF Next, vars

\* What a reader needs stays in the fold it holds.
Needs(x) ==
  \A f \in held[x], d \in need[x] :
    /\ d \in InScope(EventsOf(fold[f]), request[x].scope)
    /\ Reached(d, EventsOf(fold[f]))

LEMMA NeedKept ==
  ASSUME log \in Seq(Events), Grows, NEW n \in 0 .. Len(log)
  PROVE  /\ \A s : InScope(1 .. n, s)' = InScope(1 .. n, s)
         /\ \A d : Reached(d, 1 .. n)' <=> Reached(d, 1 .. n)
<1>1. \A i \in 1 .. n : log'[i] = log[i]
  BY DEF Grows
<1>2. \A s : InScope(1 .. n, s)' = InScope(1 .. n, s)
  BY <1>1 DEF InScope, Of
<1>3. Pending(1 .. n)' = Pending(1 .. n)
  BY <1>1 DEF Pending, Event
<1>4. Timely(1 .. n)' = Timely(1 .. n) /\ Timely(1 .. n) \subseteq 1 .. n
  BY ListsStay DEF Timely, EmbeddingEdges, Of
<1>5. QED
  BY <1>1, <1>2, <1>3, <1>4 DEF Reached

LEMMA NeedSame ==
  ASSUME TypeOK, Refolded, log' = log, NEW x \in Readers, Needs(x),
         held'[x] = held[x], need'[x] = need[x], request'[x] = request[x]
  PROVE  Needs(x)'
<1>1. ASSUME NEW f \in held[x] PROVE EventsOf(fold'[f]) = EventsOf(fold[f])
  <2>1. f \in Alive' /\ f \in Folds
    BY DEF Alive, TypeOK
  <2>2. QED
    BY <2>1 DEF Refolded, EventsOf
<1>2. \A es, s : InScope(es, s)' = InScope(es, s)
  BY DEF InScope, Of
<1>3. \A d, es : Reached(d, es)' <=> Reached(d, es)
  BY DEF Reached, Pending, Timely, EmbeddingEdges, Of, Event, Cell
<1>4. QED
  BY <1>1, <1>2, <1>3 DEF Needs, EventsOf

\* A search begins with a fold of the whole log, and needs what is acknowledged.
LEMMA NeedBegins ==
  ASSUME TypeOK, AckInv, NEW x \in Readers, NEW q, NEW f \in Folds, Begin(x, q, f),
         fold'[f].len = Len(log)
  PROVE  Needs(x)'
<1>1. /\ held'[x] = {f} /\ request'[x] = q /\ log' = log
      /\ need'[x] = {a[1] : a \in {b \in acked : q.scope \in {NoScope, b[2]}}}
  BY DEF Begin, TypeOK, logVars
<1>2. EventsOf(fold'[f]) = DOMAIN log
  BY DEF EventsOf, TypeOK
<1>3. ASSUME NEW d \in need'[x] PROVE d \in InScope(DOMAIN log, q.scope) /\ Reached(d, DOMAIN log)
  <2>1. PICK a \in acked : q.scope \in {NoScope, a[2]} /\ d = a[1]
    BY <1>1
  <2>2. a[1] \in InScope(DOMAIN log, a[2]) /\ Reached(a[1], DOMAIN log)
    BY DEF AckInv
  <2>3. QED
    BY <2>1, <2>2 DEF InScope
<1>4. \A es, s : InScope(es, s)' = InScope(es, s)
  BY <1>1 DEF InScope, Of
<1>5. \A d, es : Reached(d, es)' <=> Reached(d, es)
  BY <1>1 DEF Reached, Pending, Timely, EmbeddingEdges, Of, Event, Cell
<1>6. QED
  BY <1>1, <1>2, <1>3, <1>4, <1>5 DEF Needs, EventsOf

LEMMA NeedInductive ==
  TypeOK /\ FoldInv /\ ReadInv /\ AckInv /\ NeedInv /\ [Next]_vars => NeedInv'
<1> SUFFICES ASSUME TypeOK, FoldInv, ReadInv, AckInv, NeedInv, [Next]_vars, NEW x \in Readers
             PROVE  Needs(x)'
  BY DEF NeedInv, Needs
<1>0. Needs(x) /\ log \in Seq(Events) /\ fold \in [Folds -> FoldType]
      /\ (\A f \in Folds : RightFold(fold[f])) /\ Len(log) \in Nat
  BY DEF NeedInv, Needs, TypeOK, FoldInv
<1>1. CASE Write
  <2>1. Grows /\ UNCHANGED <<fold, held, need, request>>
    BY <1>1, WriteDoes DEF Wrote, foldVars, readVars
  <2>2. ASSUME NEW f \in held[x], NEW d \in need[x]
        PROVE  /\ d \in InScope(EventsOf(fold[f]), request[x].scope)'
               /\ Reached(d, EventsOf(fold[f]))'
    <3>1. /\ fold[f].len \in 0 .. Len(log)
          /\ d \in InScope(1 .. fold[f].len, request[x].scope) /\ Reached(d, 1 .. fold[f].len)
      BY <1>0 DEF Needs, EventsOf, TypeOK, FoldType, RightFold
    <3>2. PICK n, s : n \in 0 .. Len(log) /\ n = fold[f].len /\ s = request[x].scope
      BY <3>1
    <3>3. d \in InScope(1 .. n, s)' /\ Reached(d, 1 .. n)'
      BY <1>0, <2>1, <3>1, <3>2, NeedKept
    <3>4. QED
      BY <2>1, <3>2, <3>3 DEF EventsOf
  <2>3. QED
    BY <2>1, <2>2 DEF Needs
<1>2. CASE Expire \/ UNCHANGED vars
  <2>1. Refolded /\ UNCHANGED <<log, held, need, request>>
    BY <1>2, Collects DEF Expire, vars, logVars, readVars, foldVars
  <2>2. QED
    BY <1>0, <2>1, NeedSame
<1>3. ASSUME NEW r \in Readers, r # x, ReadsOn(r) PROVE Needs(x)'
  <2>1. Refolded /\ log' = log
    BY <1>3, ReadsRefold
  <2>2. held'[x] = held[x] /\ need'[x] = need[x] /\ request'[x] = request[x]
    BY <1>3 DEF ReadsOn, Reuse, Begin, Built, Matrix, MatrixRows, Rank, TypeOK
  <2>3. QED
    BY <1>0, <2>1, <2>2, NeedSame
<1>4. ASSUME NEW r \in Readers, r # x, NEW q \in Requests, NEW f \in Folds, Build(r, q, f)
      PROVE  Needs(x)'
  <2>1. log' = log /\ fold' = [fold EXCEPT ![f] = NewFold(prior, memo')] /\ f \in unbuilt
    BY <1>4, BuildDoes
  <2>2. held'[x] = held[x] /\ need'[x] = need[x] /\ request'[x] = request[x]
    BY <1>4 DEF Build, Begin, TypeOK
  <2>3. \A g \in held[x] : fold'[g] = fold[g]
    BY <1>0, <2>1 DEF TypeOK
  <2>4. \A es, s : InScope(es, s)' = InScope(es, s)
    BY <2>1 DEF InScope, Of
  <2>5. \A d, es : Reached(d, es)' <=> Reached(d, es)
    BY <2>1 DEF Reached, Pending, Timely, EmbeddingEdges, Of, Event, Cell
  <2>6. QED
    BY <1>0, <2>2, <2>3, <2>4, <2>5 DEF Needs, EventsOf
<1>5. ASSUME NEW q \in Requests, NEW f \in Folds, Build(x, q, f) PROVE Needs(x)'
  <2>1. fold'[f].len = Len(log)
    BY <1>0, <1>5, BuildDoes
  <2>2. QED
    BY <1>5, <2>1, NeedBegins DEF Build
<1>6. ASSUME NEW q \in Requests, Reuse(x, q) PROVE Needs(x)'
  <2>1. PICK f \in prior : fold[f].len = Len(log) /\ Begin(x, q, f)
    BY <1>6 DEF Reuse
  <2>2. f \in Folds /\ fold' = fold
    BY <1>6 DEF Reuse, TypeOK
  <2>3. QED
    BY <2>1, <2>2, NeedBegins
<1>7. CASE Built(x) \/ Matrix(x) \/ MatrixRows(x)
  <2>1. Refolded /\ log' = log
    BY <1>7, ReadsRefold DEF ReadsOn
  <2>2. held'[x] = held[x] /\ need'[x] = need[x] /\ request'[x] = request[x]
    BY <1>7 DEF Built, Matrix, MatrixRows
  <2>3. QED
    BY <1>0, <2>1, <2>2, NeedSame
<1>8. CASE Rank(x)
  <2>1. need'[x] = {}
    BY <1>8 DEF Rank, TypeOK
  <2>2. QED
    BY <2>1 DEF Needs
<1>9. ASSUME NEW r \in Readers, Read(r) PROVE Needs(x)'
  <2>1. CASE r # x
    BY <1>3, <1>4, <1>9, <2>1 DEF Read, ReadsOn
  <2>2. CASE r = x
    BY <1>5, <1>6, <1>7, <1>8, <1>9, <2>2 DEF Read
  <2>3. QED
    BY <2>1, <2>2
<1>10. QED
  BY <1>1, <1>2, <1>9 DEF Next

LEMMA AlwaysReached == Spec => []NeedInv
<1>1. Init => AckInv /\ NeedInv
  BY DEF Init, AckInv, NeedInv
<1>2. /\ TypeOK /\ AckInv /\ [Next]_vars => AckInv'
      /\ TypeOK /\ FoldInv /\ ReadInv /\ AckInv /\ NeedInv /\ [Next]_vars => NeedInv'
  BY AckInductive, NeedInductive
<1>3. QED
  BY <1>1, <1>2, AlwaysRight, PTL DEF Spec

\* A drawer acknowledged before the search began is found, but for a full answer
\* or a scope too large to list.
THEOREM AckedAreFound == Spec => []FiledIsFound
<1>1. ASSUME TypeOK, FoldInv, ReadInv, NeedInv PROVE FiledIsFound
  <2> SUFFICES ASSUME NEW r \in Readers, pc[r] = "rank", ~Raises(r), Cardinality(Found(r)) < K,
                      ~ Cardinality(InScope(DOMAIN log, request[r].scope)) > ScanLimit,
                      NEW d \in need[r]
               PROVE  d \in RefsIn(Found(r))
    BY DEF FiledIsFound
  <2>1. PICK f \in Folds : f = One(held[r]) /\ held[r] = {f}
    BY <1>1, HeldFold
  <2>2. PICK n, rows, s : /\ n \in 0 .. Len(log) /\ n = fold[f].len
                           /\ rows = RowsUsed(r) /\ s = request[r].scope
    BY <1>1, <2>1, UsedRows
  <2>3. /\ log \in Seq(Events) /\ RightRows(rows, 1 .. n) /\ EventsOf(fold[f]) = 1 .. n
        /\ DOMAIN log = 1 .. Len(log) /\ Len(log) \in 0 .. Len(log)
    <3>1. log \in Seq(Events) /\ RightRows(RowsUsed(r), EventsOf(fold[f]))
      BY <1>1, <2>1, UsedRows
    <3>2. EventsOf(fold[f]) = 1 .. n
      BY <2>2 DEF EventsOf
    <3>3. QED
      BY <2>2, <3>1, <3>2
  <2>4. rows \in SUBSET EmbeddingEdges(1 .. n) /\ Timely(1 .. n) \subseteq rows
    BY <2>3 DEF RightRows, LensRows, Rows
  <2>5. Found(r) = Answer(rows, 1 .. n, request[r])
    BY <2>1, <2>2, <2>3 DEF Found
  <2>6. d \in InScope(1 .. n, s) /\ Reached(d, 1 .. n)
    BY <1>1, <2>1, <2>2, <2>3 DEF NeedInv
  <2>7. Cardinality(InScope(1 .. n, s)) <= ScanLimit
    <3>1. IsFiniteSet(InScope(1 .. Len(log), s)) /\ IsFiniteSet(InScope(1 .. n, s))
          /\ InScope(1 .. n, s) \subseteq InScope(1 .. Len(log), s)
      BY <2>2, <2>3, ScopeOf
    <3>2. /\ Cardinality(InScope(1 .. n, s)) <= Cardinality(InScope(1 .. Len(log), s))
          /\ Cardinality(InScope(1 .. n, s)) \in Nat
          /\ Cardinality(InScope(1 .. Len(log), s)) \in Nat
      BY <3>1, FS_Subset, FS_CardinalityType
    <3>3. ~ Cardinality(InScope(1 .. Len(log), s)) > ScanLimit /\ ScanLimit \in Nat
      BY <2>2, <2>3, SearchAssumption
    <3>4. QED
      BY <3>2, <3>3
  <2>8. CASE request[r].vector
    BY <2>2, <2>3, <2>4, <2>5, <2>6, <2>7, <2>8, HybridFinds DEF Answer
  <2>9. CASE ~ request[r].vector
    BY <2>2, <2>3, <2>5, <2>6, <2>7, <2>9, LexicalFinds DEF Answer
  <2>10. QED
    BY <2>8, <2>9
<1>2. QED
  BY <1>1, AlwaysRight, AlwaysReached, PTL

\* An answer has a hit of a drawer for each of its edges at most, and none from
\* out of the scope.
THEOREM DrawersKeepTheirRows == Spec => []RowsPerDrawer
<1>1. ASSUME TypeOK, FoldInv, ReadInv PROVE RowsPerDrawer
  <2> SUFFICES ASSUME NEW r \in Readers, pc[r] = "rank", NEW d \in RefsIn(Found(r))
               PROVE  LET hits == {h \in Found(r) : h[1] = d}
                          edges == {i \in EmbeddingEdges(DOMAIN log) : log[i].to = d}
                      IN  /\ Cardinality(hits) <= IF edges = {} THEN 1 ELSE Cardinality(edges)
                          /\ request[r].scope # NoScope
                             => d \in InScope(DOMAIN log, request[r].scope)
    BY DEF RowsPerDrawer
  <2>1. PICK f \in Folds : f = One(held[r]) /\ held[r] = {f}
    BY <1>1, HeldFold
  <2>2. PICK n, rows, q : /\ n \in 0 .. Len(log) /\ n = fold[f].len
                           /\ rows = RowsUsed(r) /\ q = request[r]
    BY <1>1, <2>1, UsedRows
  <2>3. log \in Seq(Events) /\ RightRows(rows, 1 .. n) /\ EventsOf(fold[f]) = 1 .. n
    BY <1>1, <2>1, <2>2, UsedRows DEF EventsOf
  <2>4. rows \in SUBSET EmbeddingEdges(1 .. n)
    BY <2>3 DEF RightRows, LensRows, Rows
  <2>5. Found(r) = Answer(rows, 1 .. n, q)
    <3>1. Found(r) # {}
      BY DEF RefsIn
    <3>2. QED
      BY <2>1, <2>2, <2>3, <3>1 DEF Found
  <2>6. /\ log \in Seq(Events) /\ n \in 0 .. Len(log)
        /\ rows \in SUBSET EmbeddingEdges(1 .. n) /\ d \in RefsIn(Answer(rows, 1 .. n, q))
    BY <2>2, <2>3, <2>4, <2>5
  <2>7. LET hits == {h \in Answer(rows, 1 .. n, q) : h[1] = d}
            edges == {i \in EmbeddingEdges(DOMAIN log) : log[i].to = d}
        IN  /\ Cardinality(hits) <= IF edges = {} THEN 1 ELSE Cardinality(edges)
            /\ q.scope # NoScope => d \in InScope(DOMAIN log, q.scope)
    BY <2>6, HitsOfDrawer
  <2>8. QED
    BY <2>2, <2>5, <2>7
<1>2. QED
  BY <1>1, AlwaysRight, PTL

-----------------------------------------------------------------------------
(* The writers keep the promise of Filing                                  *)

\* The positions that an append adds to the log.
Added == Len(log) + 1 .. Len(log')

LEMMA AddedEvents ==
  ASSUME log \in Seq(Events), NEW es \in Seq(Events), Append_(es)
  PROVE  Grows /\ \A j \in Added : \E i \in 1 .. Len(es) : log'[j] = es[i]
<1>1. Len(log) \in Nat /\ Len(es) \in Nat /\ Len(log') = Len(log) + Len(es)
  BY DEF Append_
<1>2. \A j \in Added : j - Len(log) \in 1 .. Len(es) /\ log'[j] = es[j - Len(log)]
  BY <1>1 DEF Append_, Added
<1>3. QED
  BY <1>2, Appends

\* What each writer adds.
LEMMA WritesAdd ==
  ASSUME TypeOK, NEW d \in Drawers
  PROVE  /\ \A s \in ScopesOf[d], v \in Vectors :
              FileVector(d, s, v) => Grows /\ \A j \in Added :
                log'[j] \in {Cell(d), Event("scoped_to", d, s), Cell(v), Edge(v, d)}
         /\ \A s \in ScopesOf[d] :
              FilePending(d, s) => Grows /\ \A j \in Added :
                log'[j] \in {Cell(d), Event("scoped_to", d, s)}
         /\ \A s : Mark(d, s) => Grows /\ \A j \in Added :
                log'[j] = Event("needs_embedding", d, d)
         /\ Clear(d) => Grows /\ \A j \in Added : log'[j] = Event("invalidate", d, d)
         /\ \A v \in Vectors :
              Attach(d, v) => Grows /\ \A j \in Added : log'[j] \in {Cell(v), Edge(v, d)}
         /\ \A v \in Vectors :
              Relate(v, d) => Grows /\ \A j \in Added : log'[j] = Edge(v, d)
<1>1. /\ d \in Refs /\ log \in Seq(Events) /\ Cell(d) \in Events
      /\ \A s \in ScopesOf[d] : Event("scoped_to", d, s) \in Events
      /\ \A v \in Vectors : v \in Refs /\ Cell(v) \in Events /\ Edge(v, d) \in Events
      /\ \A k \in {"needs_embedding", "invalidate"} : Event(k, d, d) \in Events
  BY SearchAssumption DEF Refs, Event, Cell, Edge, Events, Kinds, TypeOK
<1>2. ASSUME NEW es \in Seq(Events), Append_(es)
      PROVE  Grows /\ \A j \in Added : \E i \in 1 .. Len(es) : log'[j] = es[i]
  BY <1>1, <1>2, AddedEvents
<1>3. ASSUME NEW a \in Events, Append_(<<a>>)
      PROVE  Grows /\ \A j \in Added : log'[j] = a
  <2>1. /\ <<a>> \in Seq(Events) /\ Len(<<a>>) = 1
        /\ \A i \in 1 .. 1 : <<a>>[i] = a
    OBVIOUS
  <2>2. Grows /\ \A j \in Added : \E i \in 1 .. 1 : log'[j] = <<a>>[i]
    BY <1>2, <1>3, <2>1
  <2>3. QED
    BY <2>1, <2>2
<1>4. ASSUME NEW a \in Events, NEW b \in Events, Append_(<<a, b>>)
      PROVE  Grows /\ \A j \in Added : log'[j] \in {a, b}
  <2>1. /\ <<a, b>> \in Seq(Events) /\ Len(<<a, b>>) = 2
        /\ \A i \in 1 .. 2 : <<a, b>>[i] \in {a, b}
    OBVIOUS
  <2>2. Grows /\ \A j \in Added : \E i \in 1 .. 2 : log'[j] = <<a, b>>[i]
    BY <1>2, <1>4, <2>1
  <2>3. QED
    BY <2>1, <2>2
<1>5. ASSUME NEW a \in Events, NEW b \in Events, NEW c \in Events, NEW e \in Events,
             Append_(<<a, b, c, e>>)
      PROVE  Grows /\ \A j \in Added : log'[j] \in {a, b, c, e}
  <2>1. /\ <<a, b, c, e>> \in Seq(Events) /\ Len(<<a, b, c, e>>) = 4
        /\ \A i \in 1 .. 4 : <<a, b, c, e>>[i] \in {a, b, c, e}
    OBVIOUS
  <2>2. Grows /\ \A j \in Added : \E i \in 1 .. 4 : log'[j] = <<a, b, c, e>>[i]
    BY <1>2, <1>5, <2>1
  <2>3. QED
    BY <2>1, <2>2
<1>6. \A s \in ScopesOf[d], v \in Vectors :
        FileVector(d, s, v) => Grows /\ \A j \in Added :
          log'[j] \in {Cell(d), Event("scoped_to", d, s), Cell(v), Edge(v, d)}
  BY <1>1, <1>5 DEF FileVector
<1>7. \A s \in ScopesOf[d] : FilePending(d, s) => Grows /\ \A j \in Added :
        log'[j] \in {Cell(d), Event("scoped_to", d, s)}
  BY <1>1, <1>4 DEF FilePending
<1>8. \A v \in Vectors :
        Attach(d, v) => Grows /\ \A j \in Added : log'[j] \in {Cell(v), Edge(v, d)}
  BY <1>1, <1>4 DEF Attach
<1>9. \A s : Mark(d, s) => Grows /\ \A j \in Added :
        log'[j] = Event("needs_embedding", d, d)
  BY <1>1, <1>3 DEF Mark
<1>10. /\ Clear(d) => Grows /\ \A j \in Added : log'[j] = Event("invalidate", d, d)
       /\ \A v \in Vectors :
             Relate(v, d) => Grows /\ \A j \in Added : log'[j] = Edge(v, d)
  BY <1>1, <1>3 DEF Clear, Relate
<1>11. QED
  BY <1>6, <1>7, <1>8, <1>9, <1>10

\* A drawer that no added event is about is reached afterwards if it was before.
LEMMA ReachedStays ==
  ASSUME log \in Seq(Events), Grows, NEW e \in Drawers,
         \A j \in Added :
           /\ log'[j].kind \in {"needs_embedding", "invalidate"} => log'[j].from # e
           /\ log'[j].to = e => j \notin Timely(DOMAIN log)'
  PROVE  Reached(e, DOMAIN log)' <=> Reached(e, DOMAIN log)
<1>1. /\ DOMAIN log = 1 .. Len(log) /\ DOMAIN log' = 1 .. Len(log') /\ Len(log) \in Nat
      /\ \A i \in DOMAIN log : i \in DOMAIN log' /\ log'[i] = log[i]
      /\ \A j \in DOMAIN log' : j \in DOMAIN log \/ j \in Added
  BY DEF Grows, Added
<1>2. \A j \in Added : log'[j] # Event("invalidate", e, e)
                       /\ log'[j] # Event("needs_embedding", e, e)
  BY DEF Event
<1>3. Reached(e, DOMAIN log) => Reached(e, DOMAIN log)'
  BY <1>2, ReachedGrows DEF Added
<1>4. ASSUME e \in Pending(DOMAIN log)' PROVE Reached(e, DOMAIN log)
  <2>1. PICK i \in DOMAIN log' :
          /\ log'[i] = Event("needs_embedding", e, e)
          /\ \A j \in DOMAIN log' : j > i => log'[j] # Event("invalidate", e, e)
    BY <1>4 DEF Pending, Event
  <2>2. i \in DOMAIN log /\ log[i] = Event("needs_embedding", e, e)
    BY <1>1, <1>2, <2>1
  <2>3. \A j \in DOMAIN log : j > i => log[j] # Event("invalidate", e, e)
    BY <1>1, <2>1
  <2>4. QED
    BY <2>2, <2>3 DEF Reached, Pending
<1>5. ASSUME NEW i \in Timely(DOMAIN log)', log'[i].to = e
      PROVE  Reached(e, DOMAIN log)
  <2>1. PICK j \in DOMAIN log' : /\ i \in DOMAIN log' /\ log'[i].kind = "embedding_of"
                                 /\ j < i /\ log'[j] = Cell(log'[i].from)
    BY DEF Timely, EmbeddingEdges, Of, Cell, Event
  <2>2. i \in DOMAIN log /\ log[i] = log'[i]
    BY <1>1, <1>5, <2>1
  <2>3. j \in DOMAIN log /\ log[j] = log'[j]
    BY <1>1, <2>1, <2>2
  <2>4. i \in Timely(DOMAIN log)
    BY <2>1, <2>2, <2>3 DEF Timely, EmbeddingEdges, Of
  <2>5. QED
    BY <1>5, <2>2, <2>4 DEF Reached
<1>6. QED
  BY <1>3, <1>4, <1>5 DEF Reached

\* A drawer is filed by its scope events, and remains so.
LEMMA FiledStays ==
  ASSUME log \in Seq(Events), Grows
  PROVE  /\ Filed \subseteq Filed'
         /\ \A e \in Filed' \ Filed : \E j \in Added :
              log'[j].kind = "scoped_to" /\ log'[j].from = e
<1>1. Filed \subseteq Filed'
  BY ScopeGrows DEF Filed
<1>2. /\ \A i \in DOMAIN log : log'[i] = log[i]
      /\ \A j \in DOMAIN log' : j \in DOMAIN log \/ j \in Added
  BY DEF Grows, Added
<1>3. ASSUME NEW e \in Filed', e \notin Filed
      PROVE  \E j \in Added : log'[j].kind = "scoped_to" /\ log'[j].from = e
  <2>1. PICK j \in DOMAIN log' : log'[j].kind = "scoped_to" /\ log'[j].from = e
    BY DEF Filed, InScope, Of
  <2>2. j \notin DOMAIN log
    BY <1>2, <1>3, <2>1 DEF Filed, InScope, Of
  <2>3. QED
    BY <1>2, <2>1, <2>2
<1>4. QED
  BY <1>1, <1>3

\* Only what was filed is ever marked: a marker is written behind the drawer.
LEMMA MarkedInductive ==
  TypeOK /\ AckInv' /\ MarkedAreFiled /\ [Next]_vars => MarkedAreFiled'
<1> SUFFICES ASSUME TypeOK, AckInv', MarkedAreFiled, [Next]_vars
             PROVE  MarkedAreFiled'
  OBVIOUS
<1>0. log \in Seq(Events) /\ \A e \in Embeds : e[1] \in Vectors /\ e[2] \in Drawers
  BY SearchAssumption DEF TypeOK
<1>1. ASSUME Grows,
             \A j \in Added : log'[j].kind = "needs_embedding" => log'[j].from \in Filed'
      PROVE  MarkedAreFiled'
  <2>1. /\ \A i \in DOMAIN log : log'[i] = log[i]
        /\ \A j \in DOMAIN log' : j \in DOMAIN log \/ j \in Added
    BY <1>0, <1>1 DEF Grows, Added
  <2>2. Filed \subseteq Filed'
    BY <1>0, <1>1, FiledStays
  <2>3. QED
    BY <1>1, <2>1, <2>2 DEF MarkedAreFiled
<1>2. ASSUME NEW d \in Drawers, NEW s \in ScopesOf[d], Mark(d, s) PROVE MarkedAreFiled'
  <2>1. Grows /\ \A j \in Added : log'[j] = Event("needs_embedding", d, d)
    BY <1>2, WritesAdd
  <2>2. <<d, s>> \in acked'
    BY <1>2 DEF Mark
  <2>3. d \in Filed'
    BY <2>2 DEF AckInv, Filed, InScope
  <2>4. QED
    BY <1>1, <2>1, <2>3 DEF Event
<1>3. ASSUME NEW d \in Drawers, NEW s \in ScopesOf[d],
             \/ FilePending(d, s)
             \/ \E v \in Vectors : FileVector(d, s, v)
      PROVE  MarkedAreFiled'
  <2>1. CASE FilePending(d, s)
    <3>1. Grows /\ \A j \in Added : log'[j] \in {Cell(d), Event("scoped_to", d, s)}
      BY <2>1, WritesAdd
    <3>2. QED
      BY <1>1, <3>1 DEF Event, Cell
  <2>2. ASSUME NEW v \in Vectors, FileVector(d, s, v) PROVE MarkedAreFiled'
    <3>1. Grows /\ \A j \in Added :
            log'[j] \in {Cell(d), Event("scoped_to", d, s), Cell(v), Edge(v, d)}
      BY <2>2, WritesAdd
    <3>2. QED
      BY <1>1, <3>1 DEF Event, Cell, Edge
  <2>3. QED
    BY <1>3, <2>1, <2>2
<1>4. ASSUME NEW d \in Drawers,
             Clear(d) \/ \E v \in Vectors : Attach(d, v) \/ Relate(v, d)
      PROVE  MarkedAreFiled'
  <2>1. CASE Clear(d)
    <3>1. Grows /\ \A j \in Added : log'[j] = Event("invalidate", d, d)
      BY <2>1, WritesAdd
    <3>2. QED
      BY <1>1, <3>1 DEF Event
  <2>2. ASSUME NEW v \in Vectors, Attach(d, v) \/ Relate(v, d) PROVE MarkedAreFiled'
    <3>1. Grows /\ \A j \in Added : log'[j] \in {Cell(v), Edge(v, d)}
      BY <2>2, WritesAdd
    <3>2. QED
      BY <1>1, <3>1 DEF Event, Cell, Edge
  <2>3. QED
    BY <1>4, <2>1, <2>2
<1>5. CASE Write
  BY <1>0, <1>2, <1>3, <1>4, <1>5 DEF Write
<1>6. CASE UNCHANGED log
  BY <1>6 DEF MarkedAreFiled, Filed, InScope, Of
<1>7. CASE Expire \/ \E r \in Readers : Read(r)
  BY <1>6, <1>7
     DEF Expire, Read, Reuse, Build, Begin, Built, Matrix, MatrixRows, Rank, logVars
<1>8. QED
  BY <1>5, <1>6, <1>7 DEF Next, vars, logVars

\* A step that is about one drawer is a Put, if it takes nothing back ...
LEMMA PutsOne ==
  ASSUME TypeOK, AckInv', NEW d \in Drawers, d \in Filed', Grows,
         \A j \in Added : /\ log'[j].kind = "scoped_to" => log'[j].from = d
                          /\ log'[j].kind = "needs_embedding" => log'[j].from = d
                          /\ log'[j].kind = "embedding_of" => log'[j].to = d
                          /\ log'[j].kind # "invalidate",
         acked' = acked \/ \E s : acked' = acked \cup {<<d, s>>}
  PROVE  Promise!Put(d)
<1> DEFINE now  == {e \in Filed : Reached(e, DOMAIN log)}
           next == {e \in Filed' : Reached(e, DOMAIN log)'}
<1>0. log \in Seq(Events) /\ Len(log) \in Nat
  BY DEF TypeOK
<1>1. Filed' = Filed \cup {d} /\ Filed \subseteq Drawers
  <2>1. Filed \subseteq Drawers
    BY <1>0, ScopeOf DEF Filed
  <2>2. QED
    BY <1>0, <2>1, FiledStays
<1>2. \A e \in Drawers \ {d} : Reached(e, DOMAIN log)' <=> Reached(e, DOMAIN log)
  <2>1. \A j \in Timely(DOMAIN log)' : log'[j].kind = "embedding_of"
    BY DEF Timely, EmbeddingEdges, Of
  <2>2. QED
    BY <1>0, <2>1, ReachedStays
<1>3. Reached(d, DOMAIN log) => Reached(d, DOMAIN log)'
  <2>1. \A j \in Added : log'[j] # Event("invalidate", d, d)
    BY DEF Event
  <2>2. QED
    BY <1>0, <2>1, ReachedGrows DEF Added
<1>4. next = now \/ next = now \cup {d}
  BY <1>1, <1>2, <1>3
<1>5. {a[1] : a \in acked'} \subseteq next
  BY DEF AckInv, Filed, InScope
<1>6. \/ {a[1] : a \in acked'} = {a[1] : a \in acked}
      \/ {a[1] : a \in acked'} = {a[1] : a \in acked} \cup {d}
  OBVIOUS
<1>7. QED
  BY <1>1, <1>4, <1>5, <1>6 DEF Promise!Put, Promise!Grows

\* ... and one that changes no drawer's state shows nothing.
LEMMA ShowsNothing ==
  ASSUME Filed' = Filed, acked' = acked,
         \A e \in Filed : Reached(e, DOMAIN log)' <=> Reached(e, DOMAIN log)
  PROVE  UNCHANGED Promise!vars
<1>1. {e \in Filed : Reached(e, DOMAIN log)}' = {e \in Filed : Reached(e, DOMAIN log)}
  OBVIOUS
<1>2. {a[1] : a \in acked}' = {a[1] : a \in acked}
  OBVIOUS
<1>3. QED
  BY <1>1, <1>2 DEF Promise!vars

LEMMA WriterSimulation ==
  TypeOK /\ AckInv /\ AckInv' /\ MarkedAreFiled /\ [Next]_vars
  => [Promise!Next]_Promise!vars
<1> SUFFICES ASSUME TypeOK, AckInv, AckInv', MarkedAreFiled, [Next]_vars
             PROVE  Promise!Next \/ UNCHANGED Promise!vars
  OBVIOUS
<1>0. /\ log \in Seq(Events) /\ Filed \subseteq Drawers
      /\ \A d \in Drawers : \A s \in ScopesOf[d] : s \in Scopes /\ s # NoScope
      /\ \A e \in Embeds : e[1] \in Vectors /\ e[2] \in Drawers
  <2>1. log \in Seq(Events) /\ Len(log) \in Nat /\ DOMAIN log = 1 .. Len(log)
    BY DEF TypeOK
  <2>2. Filed \subseteq Drawers
    BY <2>1, ScopeOf DEF Filed
  <2>3. QED
    BY <2>1, <2>2, SearchAssumption
<1>1. ASSUME NEW d \in Drawers, NEW s \in ScopesOf[d], NEW v \in Vectors,
             FileVector(d, s, v)
      PROVE  Promise!Put(d)
  <2>1. Grows /\ \A j \in Added :
          log'[j] \in {Cell(d), Event("scoped_to", d, s), Cell(v), Edge(v, d)}
    BY <1>1, WritesAdd
  <2>2. acked' = acked \cup {<<d, s>>}
    BY <1>1 DEF FileVector
  <2>3. <<d, s>> \in acked'
    BY <2>2
  <2>4. d \in Filed'
    BY <2>3 DEF AckInv, Filed, InScope
  <2>5. /\ Cell(d).kind = "cell" /\ Cell(v).kind = "cell"
        /\ Edge(v, d).kind = "embedding_of" /\ Edge(v, d).to = d
        /\ Event("scoped_to", d, s).kind = "scoped_to"
        /\ Event("scoped_to", d, s).from = d
    BY DEF Cell, Edge, Event
  <2>6. QED
    BY <2>1, <2>2, <2>4, <2>5, PutsOne
<1>2. ASSUME NEW d \in Drawers, NEW s \in ScopesOf[d], FilePending(d, s)
      PROVE  Promise!Put(d)
  <2>1. Grows /\ \A j \in Added : log'[j] \in {Cell(d), Event("scoped_to", d, s)}
    BY <1>2, WritesAdd
  <2>2. acked' = acked /\ <<"mark", d, s>> \in lock'
    BY <1>2 DEF FilePending
  <2>3. d \in Filed'
    BY <2>2 DEF AckInv, Filed, InScope
  <2>4. QED
    BY <2>1, <2>2, <2>3, PutsOne DEF Cell, Event
<1>3. ASSUME NEW d \in Drawers, NEW s \in ScopesOf[d], Mark(d, s)
      PROVE  Promise!Put(d)
  <2>1. Grows /\ \A j \in Added : log'[j] = Event("needs_embedding", d, d)
    BY <1>3, WritesAdd
  <2>2. acked' = acked \cup {<<d, s>>}
    BY <1>3 DEF Mark
  <2>3. <<d, s>> \in acked'
    BY <2>2
  <2>4. d \in Filed'
    BY <2>3 DEF AckInv, Filed, InScope
  <2>5. QED
    BY <2>1, <2>2, <2>4, PutsOne DEF Event
<1>4. ASSUME NEW d \in Drawers, NEW v \in Vectors, Attach(d, v)
      PROVE  Promise!Put(d)
  <2>1. Grows /\ \A j \in Added : log'[j] \in {Cell(v), Edge(v, d)}
    BY <1>4, WritesAdd
  <2>2. acked' = acked
    BY <1>4 DEF Attach
  <2>3. d \in Filed
    BY <1>0, <1>4 DEF Attach, Range, MarkedAreFiled, Event
  <2>4. d \in Filed'
    BY <1>0, <2>1, <2>3, FiledStays
  <2>5. QED
    BY <2>1, <2>2, <2>4, PutsOne DEF Cell, Edge, Event
<1>5. ASSUME NEW d \in Drawers, Clear(d) PROVE UNCHANGED Promise!vars
  <2>1. Grows /\ \A j \in Added : log'[j] = Event("invalidate", d, d)
    BY <1>5, WritesAdd
  <2>2. acked' = acked /\ d \in {log[i].to : i \in Timely(DOMAIN log)}
    BY <1>5 DEF Clear, Owed, AckInv
  <2>3. Filed' = Filed
    <3>1. \A j \in Added : log'[j].kind # "scoped_to"
      BY <2>1 DEF Event
    <3>2. QED
      BY <1>0, <2>1, <3>1, FiledStays
  <2>4. \A i \in Timely(DOMAIN log)' : log'[i].kind = "embedding_of"
    BY DEF Timely, EmbeddingEdges, Of
  <2>5. \A e \in Drawers \ {d} : Reached(e, DOMAIN log)' <=> Reached(e, DOMAIN log)
    BY <1>0, <2>1, <2>4, ReachedStays DEF Event
  <2>6. Reached(d, DOMAIN log) /\ Reached(d, DOMAIN log)'
    BY <1>0, <2>1, <2>2, ReachedGrows DEF Reached
  <2>7. QED
    BY <1>0, <2>2, <2>3, <2>5, <2>6, ShowsNothing
<1>6. ASSUME NEW d \in Drawers, NEW v \in Vectors, Relate(v, d)
      PROVE  UNCHANGED Promise!vars
  <2>1. Grows /\ \A j \in Added : log'[j] = Edge(v, d)
    BY <1>6, WritesAdd
  <2>2. acked' = acked /\ \A i \in DOMAIN log : log[i] # Cell(v)
    BY <1>0, <1>6 DEF Relate, Range
  <2>3. Filed' = Filed
    <3>1. \A j \in Added : log'[j].kind # "scoped_to"
      BY <2>1 DEF Edge, Event
    <3>2. QED
      BY <1>0, <2>1, <3>1, FiledStays
  <2>4. \A j \in Added : j \notin Timely(DOMAIN log)'
    <3>1. \A i \in DOMAIN log' : log'[i] # Cell(v)
      BY <1>0, <2>1, <2>2 DEF Grows, Added, Edge, Cell, Event
    <3>2. \A j \in Added : log'[j].from = v
      BY <2>1 DEF Edge, Event
    <3>3. QED
      BY <3>1, <3>2 DEF Timely, Cell, Event
  <2>5. \A e \in Drawers : Reached(e, DOMAIN log)' <=> Reached(e, DOMAIN log)
    BY <1>0, <2>1, <2>4, ReachedStays DEF Edge, Event
  <2>6. QED
    BY <1>0, <2>2, <2>3, <2>5, ShowsNothing
<1>7. CASE Write
  BY <1>0, <1>1, <1>2, <1>3, <1>4, <1>5, <1>6, <1>7 DEF Write, Promise!Next
<1>8. CASE UNCHANGED <<log, acked>>
  BY <1>8, ShowsNothing
     DEF Filed, InScope, Of, Reached, Pending, Timely, EmbeddingEdges, Event, Cell
<1>9. CASE Expire \/ \E r \in Readers : Read(r)
  <2>1. Expire => UNCHANGED <<log, acked>>
    BY DEF Expire, logVars
  <2>2. ASSUME NEW r \in Readers, Read(r) PROVE UNCHANGED <<log, acked>>
    <3>1. ASSUME NEW q, NEW f, Begin(r, q, f) PROVE UNCHANGED <<log, acked>>
      BY <3>1 DEF Begin, logVars
    <3>2. (\E q \in Requests : Reuse(r, q)) => UNCHANGED <<log, acked>>
      BY <3>1 DEF Reuse
    <3>3. (\E q \in Requests, f \in Folds : Build(r, q, f))
            => UNCHANGED <<log, acked>>
      BY <3>1 DEF Build
    <3>4. Built(r) => UNCHANGED <<log, acked>>
      BY DEF Built, logVars
    <3>5. Matrix(r) => UNCHANGED <<log, acked>>
      BY DEF Matrix, logVars
    <3>6. MatrixRows(r) => UNCHANGED <<log, acked>>
      BY DEF MatrixRows, logVars
    <3>7. Rank(r) => UNCHANGED <<log, acked>>
      BY DEF Rank, logVars
    <3>8. QED
      BY <2>2, <3>2, <3>3, <3>4, <3>5, <3>6, <3>7 DEF Read
  <2>3. QED
    BY <1>8, <1>9, <2>1, <2>2
<1>10. QED
  BY <1>7, <1>8, <1>9 DEF Next, vars, logVars

\* The writers, of which Search keeps the events only, make the promise that
\* the whole sweep keeps (DaemonFiles): what is findable in its sense, search is
\* held to find (AckedAreFound).
THEOREM WritersFile == Spec => ImplementsFiling
<1>1. Init => AckInv /\ MarkedAreFiled /\ Promise!Init
  BY DEF Init, AckInv, MarkedAreFiled, Promise!Init, Filed, InScope, Of
<1>2. TypeOK /\ AckInv /\ [Next]_vars => AckInv'
  BY AckInductive
<1>3. TypeOK /\ AckInv' /\ MarkedAreFiled /\ [Next]_vars => MarkedAreFiled'
  BY MarkedInductive
<1>4. QED
  BY <1>1, <1>2, <1>3, WriterSimulation, TypeCorrect, PTL
     DEF Spec, Promise!Spec, ImplementsFiling
=============================================================================
