------------------------------- MODULE Search -------------------------------
(***************************************************************************)
(* NativeMemoryStore.search over one append-only log: readers share        *)
(* _SearchFold objects, whose indexes are built lazily, by whichever       *)
(* thread asks first, and are extended from the store's previous fold      *)
(* instead of rebuilt.  Writers are the operations EmbedSweep describes,   *)
(* reduced to the events they append.  Which snapshot a reader may take is *)
(* FoldSnapshot's subject; here it is the current one or a new one.        *)
(*                                                                         *)
(* A ref is a number: refs are content addresses, compared for equality    *)
(* and, to break ties, for order.  Scope and object cells are left out.    *)
(* Every list of events is in log order: it is the set of its positions.   *)
(***************************************************************************)
EXTENDS Integers, Sequences, FiniteSets, Functions

CONSTANTS
  Drawers, Vectors,  \* refs of drawer cells and of embedding cells
  Scopes,            \* refs of wings and rooms
  ScopesOf,          \* of a drawer: the scopes it may be filed under
  Embeds,            \* {<<v, d>>}: vectors that drawer d may get
  Requests,          \* what readers ask: a scope, with or without a vector
  Readers,           \* threads that search
  Folds,             \* _SearchFold objects; bound: one build each
  Dim, Cosine,       \* of a vector: its length, its score for the query
  QueryDim,          \* the length of the query vector
  Lexical,           \* of a drawer: its lexical score for the query
  K,                 \* hits asked for
  ScanLimit,         \* _DEGRADED_SEARCH_SCAN_LIMIT
  Numpy,             \* numpy can be imported
  MaxWrites,         \* bound: write operations
  MaxStrays          \* bound: embedding edges written ahead of their cell

Refs == Drawers \cup Vectors
NoScope == 0

ASSUME SearchAssumption ==
  /\ Refs \subseteq Nat /\ Drawers \cap Vectors = {} /\ NoScope \notin Scopes
  /\ ScopesOf \in [Drawers -> SUBSET Scopes]
  /\ Embeds \subseteq Vectors \X Drawers
  /\ Requests \subseteq [scope : Scopes \cup {NoScope}, vector : BOOLEAN]
  /\ Cosine \in [Vectors -> Int] /\ Lexical \in [Drawers -> Int]
  /\ K \in Nat \ {0} /\ ScanLimit \in Nat /\ Numpy \in BOOLEAN
  /\ MaxWrites \in Nat /\ MaxStrays \in Nat

VARIABLES
  log,       \* the kernel's events
  lock,      \* {} or {<<step, drawer, scope>>}: what the lock holder still owes
  memo,      \* _CellRefCache._refs
  fold,      \* [Folds -> _SearchFold]; of its events only their number, len
  prior,     \* _prior_fold, {} or one
  pc, request, held, base, view,  \* per reader
  writes, strays, unbuilt,
  acked,     \* history: {<<drawer, scope>>} whose remember has returned
  need       \* history: drawers acked in the scope when the search began

readVars == <<pc, request, held, base, view, need>>
logVars  == <<log, lock, writes, strays, acked>>
foldVars == <<memo, fold, prior, unbuilt>>
vars     == <<logVars, foldVars, readVars>>

-----------------------------------------------------------------------------
(* The events                                                              *)

Event(kind, from, to) == [kind |-> kind, from |-> from, to |-> to]
Cell(r)    == Event("cell", r, r)
Edge(v, d) == Event("embedding_of", v, d)
Of(kind, es) == {i \in es : log[i].kind = kind}

RefOf(e) == IF e.kind = "cell" THEN {e.from} ELSE {}
CellRefs == [i \in DOMAIN log |-> RefOf(log[i])]
Payloads(refs, es) == UNION {refs[i] : i \in es}

BySubject(es) ==
  [r \in Refs |-> {i \in es : log[i].kind # "cell" /\ log[i].from = r}]
EmbeddingEdges(es) == Of("embedding_of", es)

\* What the temporal and scope lenses read.
Pending(es) ==
  {d \in Drawers : \E i \in es :
     /\ log[i] = Event("needs_embedding", d, d)
     /\ \A j \in es : j > i => log[j] # Event("invalidate", d, d)}
InScope(es, s) == {log[i].from : i \in {j \in Of("scoped_to", es) : s \in {NoScope, log[j].to}}}

\* Every edge of a list whose embedding cell is known, as a row.
Rows(edges, payloads) == {i \in edges : log[i].from \in payloads}
Mixed(rows) == \E i, j \in rows : Dim[log[i].from] # Dim[log[j].from]

-----------------------------------------------------------------------------
(* _SearchFold                                                             *)

NoFold == [len |-> 0, payloads |-> {}, bySubject |-> {}, edges |-> {},
           state |-> {}, computed |-> FALSE, matrix |-> {}]
EventsOf(f) == 1 .. f.len

IsPrefixOf(f) == f.len = 0 \/ f.len <= Len(log)

\* _CellRefCache.refs_for: the memo is extended, or, when it is ahead of
\* the events, dropped.
RefsFor ==
  LET known == IF Len(memo) > Len(log) THEN 0 ELSE Len(memo) IN
  [i \in DOMAIN log |-> IF i <= known THEN memo[i] ELSE RefOf(log[i])]

ForgetsTail(index, tail) == index   \* mutant: extending copies the prior's
ExtendSubjects(index, tail) ==
  {[r \in Refs |-> by[r] \cup BySubject(tail)[r]] : by \in index}
ExtendEdges(edges, tail) == {es \cup EmbeddingEdges(tail) : es \in edges}

\* __init__ up to the embedding edges: from the prior fold if there is one.
NewFold(from, refs) ==
  LET p == IF from # {} /\ \A f \in from : IsPrefixOf(fold[f])
           THEN fold[CHOOSE f \in from : TRUE] ELSE NoFold
      tail == p.len + 1 .. Len(log)
  IN [NoFold EXCEPT
        !.len = Len(log),
        !.payloads = p.payloads \cup Payloads(refs, tail),
        !.bySubject = ExtendSubjects(p.bySubject, tail),
        !.edges = ExtendEdges(p.edges, tail)]

\* vector_matrix: the rows of the prior's matrix, then those of the new edges.
WithMatrix(f) ==
  LET edges == CHOOSE es \in f.edges : TRUE
      old   == IF \E s \in f.state : s.counted \subseteq edges
               THEN CHOOSE s \in f.state : TRUE ELSE [rows |-> {}, counted |-> {}]
      rows  == old.rows \cup Rows(edges \ old.counted, f.payloads)
  IN IF Mixed(rows) THEN f
     ELSE [f EXCEPT !.matrix = {rows}, !.state = {[rows |-> rows, counted |-> edges]}]

\* vector_view, and the rows VectorLens projects from it.
VectorView(f) ==
  LET es == EventsOf(f)
      emb == {log[i].from : i \in EmbeddingEdges(es)}
  IN {i \in es : \/ log[i].kind = "cell" /\ log[i].from \in emb
                 \/ log[i].kind \in {"embedding_of", "scoped_to"}}
LensRows(es) == Rows(EmbeddingEdges(es), Payloads(CellRefs, es))

-----------------------------------------------------------------------------
(* Ranking                                                                 *)

\* A hit is <<drawer, score, row>>, where a lexical hit has row 0: by falling
\* score, then by ref; the sorts are stable.
Before(g, h) ==
  \/ g[2] > h[2]
  \/ g[2] = h[2] /\ (g[1] < h[1] \/ (g[1] = h[1] /\ g[3] < h[3]))
Top(hits, n) == {h \in hits : Cardinality({g \in hits : Before(g, h)}) < n}
RefsIn(hits) == {h[1] : h \in hits}

\* _fast_vector_query and VectorLens.query: scope first, then the best.
Scoped(rows, es, s) == {i \in rows : s = NoScope \/ log[i].to \in InScope(es, s)}
Mismatch(rows, es, s) == \E i \in Scoped(rows, es, s) : Dim[log[i].from] # QueryDim
RowHits(rows, es, s) ==
  {<<log[i].to, Cosine[log[i].from], i>> : i \in Scoped(rows, es, s)}
Candidates(rows, es, s) == Top(RowHits(rows, es, s), 3 * K)

\* list_drawers: the first members of the scope, in the order of their refs.
Listing(es, s) ==
  {d \in InScope(es, s) : Cardinality({e \in InScope(es, s) : e < d}) < ScanLimit}
Scored(ds) == {<<d, 100 * Lexical[d], 0>> : d \in ds}

NeverPending(es) == {}          \* mutant: no union for unembedded drawers
NeedsUnion(es) == Pending(es)
Relisted(ds, refs) == ds        \* mutant: the union repeats vector hits
Unseen(ds, refs) == ds \ refs

\* The hybrid rank, with the lexical union while anything is pending.
Rescored(cands) == {<<h[1], 85 * h[2] + 15 * Lexical[h[1]], h[3]>> : h \in cands}
Union(cands, es, s) ==
  IF NeedsUnion(es) = {} THEN {} ELSE Scored(Unseen(Listing(es, s), RefsIn(cands)))
Hybrid(cands, es, s) == Top(Rescored(cands) \cup Union(cands, es, s), K)

Answer(rows, es, q) ==
  IF q.vector THEN Hybrid(Candidates(rows, es, q.scope), es, q.scope)
  ELSE Top(Scored(Listing(es, q.scope)), K)

-----------------------------------------------------------------------------
NoRequest == [scope |-> NoScope, vector |-> FALSE]

Init ==
  /\ log = <<>> /\ lock = {} /\ memo = <<>>
  /\ fold = [f \in Folds |-> NoFold] /\ unbuilt = Folds /\ prior = {}
  /\ pc = [r \in Readers |-> "idle"]
  /\ request = [r \in Readers |-> NoRequest]
  /\ held = [r \in Readers |-> {}] /\ base = [r \in Readers |-> {}]
  /\ view = [r \in Readers |-> {}]
  /\ writes = 0 /\ strays = 0 /\ acked = {}
  /\ need = [r \in Readers |-> {}]

-----------------------------------------------------------------------------
(* Writers, one at a time under the write lock                             *)

Append_(es) == log' = log \o es
Writing ==
  /\ lock = {} /\ writes < MaxWrites
  /\ writes' = writes + 1
  /\ UNCHANGED <<foldVars, readVars>>

\* file with an embedding: one atomic batch.
FileVector(d, s, v) ==
  /\ Writing
  /\ Append_(<<Cell(d), Event("scoped_to", d, s), Cell(v), Edge(v, d)>>)
  /\ acked' = acked \cup {<<d, s>>}
  /\ UNCHANGED <<lock, strays>>

\* file without one, then the marker.
FilePending(d, s) ==
  /\ Writing
  /\ Append_(<<Cell(d), Event("scoped_to", d, s)>>)
  /\ lock' = {<<"mark", d, s>>}
  /\ UNCHANGED <<strays, acked>>

\* A sweep that read the marker earlier: add_embedding, then the invalidation.
Attach(d, v) ==
  /\ Writing
  /\ Event("needs_embedding", d, d) \in Range(log)
  /\ Append_(<<Cell(v), Edge(v, d)>>)
  /\ lock' = {<<"clear", d, NoScope>>}
  /\ UNCHANGED <<strays, acked>>

Owed(step, d, s) ==
  /\ lock = {<<step, d, s>>}
  /\ lock' = {}
  /\ UNCHANGED <<foldVars, readVars, writes, strays>>

Mark(d, s) ==
  /\ Owed("mark", d, s)
  /\ Append_(<<Event("needs_embedding", d, d)>>)
  /\ acked' = acked \cup {<<d, s>>}

Clear(d) ==
  /\ Owed("clear", d, NoScope)
  /\ Append_(<<Event("invalidate", d, d)>>)
  /\ UNCHANGED acked

\* A gateway client relates a vector whose cell is not written (yet).
Relate(v, d) ==
  /\ Writing
  /\ strays < MaxStrays /\ Cell(v) \notin Range(log)
  /\ Append_(<<Edge(v, d)>>)
  /\ strays' = strays + 1
  /\ UNCHANGED <<lock, acked>>

-----------------------------------------------------------------------------
(* Readers                                                                 *)

Goto(r, to) == pc' = [pc EXCEPT ![r] = to]
One(set) == CHOOSE x \in set : TRUE

\* The folds that something refers to; the others are garbage.
Alive == prior \cup UNION {held[r] \cup base[r] : r \in Readers}
Kept(folds) == [f \in Folds |-> IF f \in Alive' THEN folds[f] ELSE NoFold]

\* A search takes its fold as it begins: whatever is acked in between has
\* only more reason to be found.
Begin(r, q, f) ==
  /\ pc[r] = "idle"
  /\ request' = [request EXCEPT ![r] = q]
  /\ need' = [need EXCEPT ![r] =
       {a[1] : a \in {x \in acked : q.scope \in {NoScope, x[2]}}}]
  /\ held' = [held EXCEPT ![r] = {f}]
  /\ UNCHANGED <<logVars, prior, view>>

Reuse(r, q) ==
  /\ \E f \in prior : fold[f].len = Len(log) /\ Begin(r, q, f)
  /\ Goto(r, "matrix")
  /\ UNCHANGED <<memo, fold, unbuilt, base>>

Build(r, q, f) ==
  /\ f \in unbuilt
  /\ unbuilt' = unbuilt \ {f}
  /\ Begin(r, q, f)
  /\ base' = [base EXCEPT ![r] = prior]
  /\ memo' = RefsFor
  /\ fold' = [fold EXCEPT ![f] = NewFold(prior, memo')]
  /\ Goto(r, "build")

NextPrior(f) ==
  IF \A p \in prior : fold[f].len >= fold[p].len THEN {f} ELSE prior

\* The end of __init__ reads the prior's matrix, which its readers may have
\* built since; then _update_prior_fold.
Built(r) ==
  /\ pc[r] = "build"
  /\ base' = [base EXCEPT ![r] = {}]
  /\ held' = held
  /\ LET f == One(held[r]) IN
       /\ prior' = NextPrior(f)
       /\ fold' = Kept([fold EXCEPT ![f].state =
                          UNION {fold[p].state : p \in base[r]}])
  /\ Goto(r, "matrix")
  /\ UNCHANGED <<logVars, unbuilt, memo, request, view, need>>

\* Five idle seconds.
Expire ==
  /\ prior # {}
  /\ prior' = {}
  /\ UNCHANGED <<logVars, unbuilt, memo, readVars>>
  /\ fold' = Kept(fold)

NoRows(f) == {{}}               \* mutant: an unfinished matrix reads as empty
Published(f) == fold[f].matrix

WithEdges(f) ==
  IF f.edges # {} THEN f ELSE [f EXCEPT !.edges = {EmbeddingEdges(EventsOf(f))}]

\* vector_matrix: the first to ask has the edges listed, and then computes;
\* the others take what is there, which may be nothing yet.
Matrix(r) ==
  /\ pc[r] = "matrix"
  /\ LET f == One(held[r])
         mine == request[r].vector /\ ~fold[f].computed
     IN /\ fold' = IF ~mine THEN fold ELSE
             [fold EXCEPT ![f] = [(IF Numpy THEN WithEdges(@) ELSE @)
                                  EXCEPT !.computed = TRUE]]
        /\ view' = [view EXCEPT ![r] = IF request[r].vector /\ fold[f].computed
                                       THEN Published(f) ELSE {}]
        /\ Goto(r, IF mine /\ Numpy THEN "rows" ELSE "rank")
  /\ UNCHANGED <<logVars, unbuilt, memo, prior, request, held, base, need>>

MatrixRows(r) ==
  /\ pc[r] = "rows"
  /\ LET f == One(held[r]) IN
       /\ fold' = [fold EXCEPT ![f] = WithMatrix(fold[f])]
       /\ view' = [view EXCEPT ![r] = fold'[f].matrix]
  /\ Goto(r, "rank")
  /\ UNCHANGED <<logVars, unbuilt, memo, prior, request, held, base, need>>

\* The matrix the reader got, or else the lens over the vector view.
RowsUsed(r) ==
  IF view[r] # {} THEN One(view[r]) ELSE LensRows(VectorView(fold[One(held[r])]))

\* The query's length is not that of a stored vector: ValueError.
Raises(r) ==
  /\ request[r].vector
  /\ Mismatch(RowsUsed(r), EventsOf(fold[One(held[r])]), request[r].scope)

Found(r) ==
  IF Raises(r) THEN {} ELSE Answer(RowsUsed(r), EventsOf(fold[One(held[r])]), request[r])

\* search returns; the rows of an answer are resolved through for_subject.
Rank(r) ==
  /\ pc[r] = "rank"
  /\ Goto(r, "idle")
  /\ request' = [request EXCEPT ![r] = NoRequest]
  /\ held' = [held EXCEPT ![r] = {}]
  /\ view' = [view EXCEPT ![r] = {}]
  /\ need' = [need EXCEPT ![r] = {}]
  /\ UNCHANGED <<logVars, unbuilt, memo, prior, base>>
  /\ LET f == One(held[r]) IN
       fold' = Kept(IF Found(r) = {} \/ fold[f].bySubject # {} THEN fold
                    ELSE [fold EXCEPT ![f].bySubject = {BySubject(EventsOf(fold[f]))}])

-----------------------------------------------------------------------------
Write ==
  \/ \E d \in Drawers : \E s \in ScopesOf[d] :
       \/ FilePending(d, s) \/ Mark(d, s)
       \/ \E v \in Vectors : <<v, d>> \in Embeds /\ FileVector(d, s, v)
  \/ \E d \in Drawers : Clear(d)
  \/ \E e \in Embeds : Attach(e[2], e[1]) \/ Relate(e[1], e[2])

Read(r) ==
  \/ \E q \in Requests : Reuse(r, q) \/ \E f \in Folds : Build(r, q, f)
  \/ Built(r) \/ Matrix(r) \/ MatrixRows(r)
  \/ Rank(r)

Next == Write \/ Expire \/ \E r \in Readers : Read(r)

Spec == Init /\ [][Next]_vars

-----------------------------------------------------------------------------
(* Properties                                                              *)

Kinds == {"cell", "scoped_to", "embedding_of", "needs_embedding", "invalidate"}
Events ==
  {e \in [kind : Kinds, from : Refs, to : Refs \cup Scopes] :
     /\ e.kind \notin {"cell", "embedding_of"} => e.from \in Drawers
     /\ e.kind = "embedding_of" => e.from \in Vectors /\ e.to \in Drawers}
FoldType ==
  [len : Nat, payloads : SUBSET Refs, bySubject : SUBSET [Refs -> SUBSET Nat],
   edges : SUBSET SUBSET Nat, computed : BOOLEAN, matrix : SUBSET SUBSET Nat,
   state : SUBSET [rows : SUBSET Nat, counted : SUBSET Nat]]

\* The variables keep their types, and every fold alive is another object.
TypeOK ==
  /\ log \in Seq(Events) /\ memo \in Seq(SUBSET Refs)
  /\ fold \in [Folds -> FoldType] /\ unbuilt \subseteq Folds
  /\ prior \subseteq Folds \ unbuilt
  /\ pc \in [Readers -> {"idle", "build", "matrix", "rows", "rank"}]
  /\ held \in [Readers -> SUBSET Folds] /\ base \in [Readers -> SUBSET Folds]
  /\ request \in [Readers -> [scope : Scopes \cup {NoScope}, vector : BOOLEAN]]
  /\ view \in [Readers -> SUBSET SUBSET Nat] /\ need \in [Readers -> SUBSET Drawers]
  /\ \A r \in Readers :
       /\ held[r] # {} <=> pc[r] # "idle"
       /\ \A f, g \in held[r] : f = g
       /\ base[r] # {} => pc[r] = "build" /\ base[r] \cap held[r] = {}
       /\ (held[r] \cup base[r]) \cap unbuilt = {}
  /\ writes \in 0 .. MaxWrites /\ strays \in 0 .. MaxStrays
  /\ acked \subseteq Drawers \X Scopes

\* The embedding edges that come after their embedding cell, as they should.
Timely(es) ==
  {i \in EmbeddingEdges(es) : \E j \in es : j < i /\ log[j] = Cell(log[i].from)}

RightRows(rows, es) == Timely(es) \subseteq rows /\ rows \subseteq LensRows(es)

\* However a fold came by its indexes - built by one of several readers,
\* extended from a prior whose own were still being built - they are what a
\* full build over its events would give.  All that a matrix may miss is an edge
\* written ahead of its cell: once counted, it is never taken up again.
CachesAreRebuilt ==
  \A f \in Alive :
    LET es == EventsOf(fold[f]) IN
    /\ fold[f].payloads = Payloads(CellRefs, es)
    /\ fold[f].bySubject \subseteq {BySubject(es)}
    /\ fold[f].edges \subseteq {EmbeddingEdges(es)}
    /\ \A rows \in fold[f].matrix : RightRows(rows, es)

\* "the SAME results an equivalent from-scratch rebuild would" give: also for
\* a reader that finds the matrix half built and falls back to the lens.
AnswerIsFresh ==
  \A r \in Readers : pc[r] = "rank" /\ ~Raises(r) =>
    LET es == EventsOf(fold[One(held[r])]) IN
    EmbeddingEdges(es) = Timely(es) => Found(r) = Answer(LensRows(es), es, request[r])

\* A drawer whose remember returned before the search began is a hit, by its
\* vector or by the lexical union, unless the answer is full, or the scope has
\* more drawers than a listing scans.
FiledIsFound ==
  \A r \in Readers : pc[r] = "rank" /\ ~Raises(r) /\ Cardinality(Found(r)) < K =>
    \/ need[r] \subseteq RefsIn(Found(r))
    \/ Cardinality(InScope(DOMAIN log, request[r].scope)) > ScanLimit

\* A drawer takes up two rows only with two embedding edges (racing sweeps),
\* and every row is of the scope asked for.
RowsPerDrawer ==
  \A r \in Readers : pc[r] = "rank" => \A d \in RefsIn(Found(r)) :
    LET hits == {h \in Found(r) : h[1] = d}
        edges == {i \in EmbeddingEdges(DOMAIN log) : log[i].to = d}
    IN /\ Cardinality(hits) <= IF edges = {} THEN 1 ELSE Cardinality(edges)
       /\ request[r].scope # NoScope => d \in InScope(DOMAIN log, request[r].scope)

\* Why CachesAreRebuilt and AnswerIsFresh hold.  An index of a fold is what its
\* events give, or not there, and its matrix state has a row for every timely edge
\* that it has counted; the memo is right so far.
RightState(s, es) ==
  /\ s.counted \subseteq EmbeddingEdges(es) /\ s.rows \subseteq LensRows(es)
  /\ Timely(es) \cap s.counted \subseteq s.rows
RightFold(f) ==
  /\ f.len <= Len(log)
  /\ f.payloads = Payloads(CellRefs, EventsOf(f))
  /\ f.bySubject \subseteq {BySubject(EventsOf(f))}
  /\ f.edges \subseteq {EmbeddingEdges(EventsOf(f))}
  /\ \A s \in f.state : RightState(s, EventsOf(f))
  /\ \A rows \in f.matrix : RightRows(rows, EventsOf(f))
FoldInv ==
  /\ Len(memo) <= Len(log) /\ \A i \in DOMAIN memo : memo[i] = RefOf(log[i])
  /\ \A f \in Folds : RightFold(fold[f])

\* A fold is no shorter than the one it extends; a reader that lists rows has
\* the edges, and the rows it has got are those of the fold it holds.
RightReader(r) ==
  /\ \A f \in held[r], p \in base[r] : fold[p].len <= fold[f].len
  /\ pc[r] = "rows" => \A f \in held[r] : fold[f].edges # {}
  /\ view[r] # {} => pc[r] = "rank"
  /\ \A rows \in view[r], f \in held[r] : RightRows(rows, EventsOf(fold[f]))
ReadInv == \A r \in Readers : RightReader(r)

\* Why FiledIsFound holds.  A drawer that is acknowledged, or that a sweep has
\* given a vector, has a timely edge or a marker nobody has invalidated; what a
\* reader needs had them when its fold was made.
Reached(d, es) == d \in Pending(es) \cup {log[i].to : i \in Timely(es)}
AckInv ==
  /\ lock \subseteq {"mark", "clear"} \X Drawers \X (Scopes \cup {NoScope})
  /\ \A a \in acked : a[1] \in InScope(DOMAIN log, a[2]) /\ Reached(a[1], DOMAIN log)
  /\ \A l \in lock :
       IF l[1] = "mark" THEN l[2] \in InScope(DOMAIN log, l[3])
       ELSE l[2] \in {log[i].to : i \in Timely(DOMAIN log)}
NeedInv ==
  \A r \in Readers : \A f \in held[r], d \in need[r] :
    /\ d \in InScope(EventsOf(fold[f]), request[r].scope)
    /\ Reached(d, EventsOf(fold[f]))

\* The writers keep the promise that EmbedSweep keeps, of which this module has
\* the events only: what search is later held to find is what Filing calls
\* findable, a drawer with a timely edge or a marker.
Filed == InScope(DOMAIN log, NoScope)
Promise == INSTANCE Filing
           WITH stored <- Filed, acked <- {a[1] : a \in acked},
                findable <- {d \in Filed : Reached(d, DOMAIN log)}
ImplementsFiling == Promise!Spec

\* Why ImplementsFiling holds: only a drawer that was filed is ever marked.
MarkedAreFiled ==
  \A i \in DOMAIN log : log[i].kind = "needs_embedding" => log[i].from \in Filed
=============================================================================
