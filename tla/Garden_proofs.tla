---------------------------- MODULE Garden_proofs ----------------------------
(***************************************************************************)
(* The clusters of overlapping garden runs: what each finds is the         *)
(* components of what it saw, they agree from run to run, and they are     *)
(* whole in the graph.                                                     *)
(***************************************************************************)
EXTENDS Garden, FiniteSetTheorems, WellFoundedInduction, TLAPS

\* Sets of numbers have a least element.
LEMMA FirstOf ==
  ASSUME NEW nodes \in SUBSET Nat, nodes # {}
  PROVE  First(nodes) \in nodes /\ \A e \in nodes : First(nodes) <= e
<1>1. PICK d \in nodes : \A e \in nodes : <<e, d>> \notin OpToRel(<, Nat)
  BY WFMin, NatLessThanWellFounded, Zenon
<1>2. \A e \in nodes : ~(e < d)
  BY <1>1, Zenon DEF OpToRel
<1>3. \A e \in nodes : d <= e
  BY <1>2
<1>4. QED
  BY <1>3 DEF First

\* The cluster a run is at is one of those it has to do.
LEMMA CurrentOf ==
  ASSUME TypeOK, NEW r \in Runs, todo[r] # {}
  PROVE  Current(r) \in todo[r]
<1> DEFINE firsts == {First(c) : c \in todo[r]}
<1>0. todo[r] \subseteq (SUBSET Drawers) \ {{}}
  BY DEF TypeOK
<1>1. \A c \in todo[r] : c \in SUBSET Nat /\ c # {}
  BY <1>0, GardenAssumption
<1>2. \A c \in todo[r] : First(c) \in Nat
  BY <1>1, FirstOf
<1>3. firsts \in SUBSET Nat /\ firsts # {}
  BY <1>2
<1>4. PICK c \in todo[r] : First(c) = First(firsts)
  BY <1>3, FirstOf
<1>5. \A e \in todo[r] : First(c) <= First(e)
  BY <1>3, <1>4, FirstOf
<1>6. QED
  BY <1>5 DEF Current

-----------------------------------------------------------------------------
(* Components                                                              *)

\* A set that no link within k leaves holds all of k or nothing of it, if k is
\* of one piece.
LEMMA Undivided ==
  ASSUME NEW adjacency, NEW c, NEW k, Pieces(adjacency, k) = {},
         Closed({l \in adjacency : l[1] \in k /\ l[2] \in k}, c)
  PROVE  k \subseteq c \/ k \cap c = {}
<1>1. Closed({l \in adjacency : l[1] \in k /\ l[2] \in k}, c \cap k)
  BY DEF Closed
<1>2. c \cap k \in SUBSET k
  OBVIOUS
<1>3. c \cap k = {} \/ c \cap k = k
  BY <1>1, <1>2 DEF Pieces
<1>4. QED
  BY <1>3

\* What the search from d reaches is of one piece and holds d; and if links are
\* mutual and none leads back to what was visited before, then no link leaves it.
LEMMA ComponentOf ==
  ASSUME NEW adjacency \in SUBSET (Drawers \X Drawers), NEW unvisited, NEW d \in unvisited
  PROVE  LET c == Component(adjacency, unvisited, d) IN
         /\ d \in c /\ c \subseteq unvisited
         /\ Pieces(adjacency, c) = {}
         /\ Symmetric(adjacency) /\ Closed(adjacency, unvisited) => Closed(adjacency, c)
<1> DEFINE c == Component(adjacency, unvisited, d)
           inner == {l \in adjacency : l[1] \in c /\ l[2] \in c}
<1>1. d \in c /\ c \subseteq unvisited
  BY DEF Component
<1>2. Stays(adjacency, unvisited, c)
  BY DEF Component, Stays
<1>3. ASSUME NEW p \in SUBSET c, d \in p, \A l \in inner : l[1] \in p => l[2] \in p
      PROVE  p = c
  <2>1. Stays(adjacency, unvisited, p)
    BY <1>2, <1>3 DEF Stays
  <2>2. QED
    BY <1>1, <1>3, <2>1 DEF Component
<1>4. Pieces(adjacency, c) = {}
  <2> SUFFICES ASSUME NEW p \in Pieces(adjacency, c) PROVE FALSE
    OBVIOUS
  <2>1. p \in SUBSET c /\ p # {} /\ p # c /\ Closed(inner, p)
    BY DEF Pieces
  <2>2. \A l \in inner : l[1] \in p <=> l[2] \in p
    BY <2>1 DEF Closed
  <2> HIDE DEF c
  <2>3. CASE d \in p
    BY <1>3, <2>1, <2>2, <2>3
  <2>4. CASE d \notin p
    <3>1. \A l \in inner : l[1] \in c \ p => l[2] \in c \ p
      BY <2>2
    <3>2. c \ p = c
      BY <1>1, <1>3, <2>4, <3>1
    <3>3. QED
      BY <2>1, <3>2
  <2>5. QED
    BY <2>3, <2>4
<1>5. ASSUME Symmetric(adjacency), Closed(adjacency, unvisited) PROVE Closed(adjacency, c)
  <2>1. ASSUME NEW l \in adjacency PROVE l[1] \in c => l[2] \in c
    BY <1>1, <1>2, <1>5 DEF Closed, Stays
  <2>2. ASSUME NEW l \in adjacency PROVE l[2] \in c => l[1] \in c
    <3>1. <<l[2], l[1]>> \in adjacency
      BY <1>5 DEF Symmetric
    <3>2. QED
      BY <2>1, <3>1
  <2>3. QED
    BY <2>1, <2>2 DEF Closed
<1>6. QED
  BY <1>1, <1>4, <1>5

-----------------------------------------------------------------------------
(* Types                                                                   *)

LEMMA TypeInductive == TypeOK /\ [Next]_vars => TypeOK'
<1> SUFFICES ASSUME TypeOK, [Next]_vars PROVE TypeOK'
  OBVIOUS
<1> USE GardenAssumption
<1>1. CASE UNCHANGED vars
  BY <1>1 DEF TypeOK, vars, runVars, factVars
<1>2. ASSUME NEW d \in Drawers, File(d) PROVE TypeOK'
  BY <1>2 DEF TypeOK, File, runVars, factVars
<1>3. ASSUME NEW r \in Runs, NEW limit \in Limits, List(r, limit) PROVE TypeOK'
  BY <1>3 DEF TypeOK, List, Listed, Goto, Set, factVars, Steps
<1>4. ASSUME NEW r \in Runs, Search(r) \/ SearchFails(r) PROVE TypeOK'
  <2>1. First(left[r]) \in left[r] /\ left[r] \subseteq Drawers
    BY <1>4, FirstOf DEF TypeOK, Search, SearchFails
  <2>2. CASE Search(r)
    BY <2>1, <2>2 DEF TypeOK, Search, InScope, Set, factVars
  <2>3. CASE SearchFails(r)
    BY <2>1, <2>3 DEF TypeOK, SearchFails, Set, factVars
  <2>4. QED
    BY <1>4, <2>2, <2>3
<1>5. ASSUME NEW r \in Runs, Cluster(r) \/ Clustered(r) PROVE TypeOK'
  BY <1>5 DEF TypeOK, Cluster, Clustered, Goto, Set, factVars, Steps
<1>6. ASSUME NEW r \in Runs, Visit(r) PROVE TypeOK'
  <2> DEFINE c == Component(found[r], Unvisited(r), First(left[r]))
  <2>1. Unvisited(r) \subseteq Drawers /\ First(left[r]) \in Unvisited(r)
    BY <1>6, FirstOf DEF TypeOK, Visit, Unvisited
  <2>2. c \in (SUBSET Drawers) \ {{}}
    BY <2>1, ComponentOf DEF TypeOK
  <2> HIDE DEF c
  <2>3. /\ UNCHANGED <<filed, similar, pc, scope, found, described, member, fails, torn, narrow>>
        /\ todo' = [todo EXCEPT ![r] =
             todo[r] \cup IF Cardinality(c) >= MinSize THEN {c} ELSE {}]
        /\ left' = [left EXCEPT ![r] = left[r] \ c]
    BY <1>6 DEF Visit, Set, factVars, c
  <2>4. /\ todo' \in [Runs -> SUBSET ((SUBSET Drawers) \ {{}})]
        /\ \A s \in Runs : todo[s] \subseteq todo'[s]
    BY <2>2, <2>3 DEF TypeOK
  <2>5. left' \in [Runs -> SUBSET Drawers]
    BY <2>3 DEF TypeOK
  <2>6. QED
    BY <2>3, <2>4, <2>5 DEF TypeOK
<1>7. ASSUME NEW r \in Runs, Describe(r) \/ NextCluster(r) \/ End(r) PROVE TypeOK'
  <2>2. CASE Describe(r)
    <3>1. Current(r) \in todo[r]
      BY <2>2, CurrentOf DEF Describe
    <3>2. Current(r) \in SUBSET Drawers
      BY <3>1 DEF TypeOK
    <3>3. described' \subseteq SUBSET Drawers /\ left' \in [Runs -> SUBSET Drawers]
      BY <2>2, <3>2 DEF TypeOK, Describe, Set
    <3>4. pc' \in [Runs -> Steps] /\ \A s \in Runs : pc'[s] = "members" => todo'[s] # {}
      BY <2>2 DEF TypeOK, Describe, Goto, Steps
    <3>5. QED
      BY <2>2, <3>3, <3>4 DEF TypeOK, Describe
  <2>3. CASE NextCluster(r)
    BY <2>3 DEF TypeOK, NextCluster, Goto, Set, Steps, factVars
  <2>4. CASE End(r)
    BY <2>4 DEF TypeOK, End, Goto, Set, Steps, factVars
  <2>5. QED
    BY <1>7, <2>2, <2>3, <2>4
<1>8. ASSUME NEW r \in Runs, NEW d \in Drawers, AddMember(r, d) PROVE TypeOK'
  <2>1. Current(r) \in todo[r]
    BY <1>8, CurrentOf DEF TypeOK, AddMember
  <2>2. QED
    BY <1>8, <2>1 DEF TypeOK, AddMember, PartOf, Set
<1>9. ASSUME NEW r \in Runs, Fail(r) PROVE TypeOK'
  <2>1. pc[r] = "members" => Current(r) \in todo[r]
    BY CurrentOf DEF TypeOK
  <2>2. pc[r] = "members" => Current(r) \in SUBSET Drawers
    BY <2>1 DEF TypeOK
  <2>3. fails' \in 0 .. MaxFails
    BY <1>9 DEF TypeOK, Fail
  <2>4. torn' \subseteq SUBSET Drawers
    BY <1>9, <2>2 DEF TypeOK, Fail
  <2>5. QED
    BY <1>9, <2>3, <2>4 DEF TypeOK, Fail, Goto, Set, Steps, factVars
<1>10. QED
  BY <1>1, <1>2, <1>3, <1>4, <1>5, <1>6, <1>7, <1>8, <1>9 DEF Next, Run

\* The variables keep their types.
THEOREM TypeCorrect == Spec => []TypeOK
<1>1. Init => TypeOK
  <2> SUFFICES ASSUME Init PROVE TypeOK
    OBVIOUS
  <2>1. pc \in [Runs -> Steps] /\ \A r \in Runs : pc[r] # "members"
    BY DEF Init, Steps
  <2>2. /\ scope \in [Runs -> SUBSET Drawers] /\ left \in [Runs -> SUBSET Drawers]
        /\ found \in [Runs -> SUBSET (Drawers \X Drawers)]
        /\ todo \in [Runs -> SUBSET ((SUBSET Drawers) \ {{}})]
    BY DEF Init, Nothing
  <2>3. fails \in 0 .. MaxFails
    BY GardenAssumption DEF Init
  <2>4. /\ filed = {} /\ described = {} /\ member = {} /\ torn = {}
        /\ similar \in Likenesses /\ narrow = FALSE
    BY DEF Init
  <2>5. QED
    BY <2>1, <2>2, <2>3, <2>4 DEF TypeOK
<1>2. QED
  BY <1>1, TypeInductive, PTL DEF Spec

-----------------------------------------------------------------------------
(* Clusters are components                                                 *)

\* Who visits a drawer takes its component, which lies in what is left.
LEMMA VisitDoes ==
  ASSUME TypeOK, VisitInv, NEW r \in Runs, Visit(r)
  PROVE  \E d \in left[r], c \in SUBSET left[r] :
           /\ d \in c /\ Pieces(found[r], c) = {}
           /\ Symmetric(found[r]) => Closed(found[r], c)
           /\ UNCHANGED <<filed, similar, pc, scope, found, described, narrow>>
           /\ todo' = [todo EXCEPT ![r] =
                todo[r] \cup IF Cardinality(c) >= MinSize THEN {c} ELSE {}]
           /\ left' = [left EXCEPT ![r] = left[r] \ c]
<1> DEFINE d == First(left[r])
           c == Component(found[r], Unvisited(r), d)
<1>1. d \in left[r] /\ found[r] \in SUBSET (Drawers \X Drawers)
  BY FirstOf, GardenAssumption DEF TypeOK, Visit
<1>2. /\ left[r] \subseteq Unvisited(r) /\ Unvisited(r) \cap scope[r] \subseteq left[r]
      /\ left[r] \subseteq scope[r] /\ found[r] \subseteq scope[r] \X scope[r]
      /\ Symmetric(found[r]) => Closed(found[r], left[r])
  BY DEF TypeOK, VisitInv, Visit, Unvisited
<1>3. /\ d \in c /\ Pieces(found[r], c) = {}
      /\ Symmetric(found[r]) /\ Closed(found[r], Unvisited(r)) => Closed(found[r], c)
  BY <1>1, <1>2, ComponentOf
<1>4. c \subseteq left[r]
  <2>1. Stays(found[r], Unvisited(r), left[r])
    BY <1>2 DEF Stays
  <2>2. QED
    BY <1>1, <1>2, <2>1 DEF Component
<1>5. Closed(found[r], left[r]) => Closed(found[r], Unvisited(r))
  BY <1>2 DEF Closed
<1>6. /\ UNCHANGED <<filed, similar, pc, scope, found, described, narrow>>
      /\ todo' = [todo EXCEPT ![r] =
           todo[r] \cup IF Cardinality(c) >= MinSize THEN {c} ELSE {}]
      /\ left' = [left EXCEPT ![r] = left[r] \ c]
  BY DEF Visit, Set, factVars
<1> HIDE DEF c, d
<1>7. QED
  BY <1>1, <1>2, <1>3, <1>4, <1>5, <1>6

\* VisitInv of one run.
Visits(r) ==
  /\ pc[r] = "idle" => scope[r] = {}
  /\ found[r] \subseteq scope[r] \X scope[r]
  /\ pc[r] \in {"search", "cluster"} => left[r] \subseteq scope[r]
  /\ pc[r] = "cluster" =>
       /\ \A c \in todo[r] : c \subseteq scope[r] \ left[r] /\ Pieces(found[r], c) = {}
       /\ \A c, e \in todo[r] : c = e \/ c \cap e = {}
       /\ Symmetric(found[r]) =>
            /\ Closed(found[r], left[r]) /\ todo[r] \subseteq Components(r)
            /\ \A c \in Components(r) : c \in todo[r] \/ c \subseteq left[r]

\* A component that meets what no link leaves lies in it; so a visit finds, of the
\* components that are left, the one it meets, and leaves the others whole.
LEMMA VisitKeeps ==
  ASSUME TypeOK, VisitInv, NEW r \in Runs, Visit(r)
  PROVE  VisitInv'
<1>1. PICK d \in left[r], c \in SUBSET left[r] :
        /\ d \in c /\ Pieces(found[r], c) = {}
        /\ Symmetric(found[r]) => Closed(found[r], c)
        /\ UNCHANGED <<filed, similar, pc, scope, found, described, narrow>>
        /\ todo' = [todo EXCEPT ![r] =
             todo[r] \cup IF Cardinality(c) >= MinSize THEN {c} ELSE {}]
        /\ left' = [left EXCEPT ![r] = left[r] \ c]
  BY VisitDoes
<1>2. /\ todo'[r] = todo[r] \cup IF Cardinality(c) >= MinSize THEN {c} ELSE {}
      /\ left'[r] = left[r] \ c /\ pc[r] = "cluster"
      /\ \A s \in Runs \ {r} : todo'[s] = todo[s] /\ left'[s] = left[s]
  BY <1>1 DEF TypeOK, Visit
<1>3. Visits(r)
  BY DEF VisitInv, Visits
<1>4. \A s \in Runs : Components(s)' = Components(s)
  BY <1>1 DEF Components, Closed, Pieces
<1>5. /\ \A e \in todo'[r] : e \subseteq scope[r] \ left'[r] /\ Pieces(found[r], e) = {}
      /\ \A e, k \in todo'[r] : e = k \/ e \cap k = {}
  BY <1>1, <1>2, <1>3 DEF Visits
<1>6. ASSUME Symmetric(found[r])
      PROVE  /\ Closed(found[r], left'[r]) /\ todo'[r] \subseteq Components(r)
             /\ \A k \in Components(r) : k \in todo'[r] \/ k \subseteq left'[r]
  <2>1. /\ Closed(found[r], left[r]) /\ Closed(found[r], c)
        /\ todo[r] \subseteq Components(r) /\ c \subseteq scope[r]
    BY <1>1, <1>2, <1>3, <1>6 DEF Visits
  <2>2. Closed(found[r], left'[r])
    BY <1>2, <2>1 DEF Closed
  <2>3. todo'[r] \subseteq Components(r)
    BY <1>1, <1>2, <2>1 DEF Components
  <2>4. ASSUME NEW k \in Components(r), k \notin todo'[r] PROVE k \subseteq left'[r]
    <3>1. k \subseteq left[r] /\ Closed(found[r], k) /\ Pieces(found[r], k) = {}
      BY <1>2, <1>3, <1>6, <2>4 DEF Visits, Components
    <3>2. k \subseteq c \/ k \cap c = {}
      BY <2>1, <3>1, Undivided DEF Closed
    <3>3. c \subseteq k \/ c \cap k = {}
      BY <1>1, <3>1, Undivided DEF Closed
    <3>4. k # c
      BY <1>2, <2>4 DEF Components
    <3>5. k \cap c = {}
      BY <1>1, <3>2, <3>3, <3>4
    <3>6. QED
      BY <1>2, <3>1, <3>5
  <2>5. QED
    BY <2>2, <2>3, <2>4
<1>7. Visits(r)'
  BY <1>1, <1>2, <1>3, <1>4, <1>5, <1>6 DEF Visits, Symmetric
<1>8. \A s \in Runs \ {r} : Visits(s)'
  BY <1>1, <1>2, <1>4 DEF VisitInv, Visits
<1>9. QED
  BY <1>7, <1>8 DEF VisitInv, Visits

LEMMA VisitInductive == TypeOK /\ VisitInv /\ [Next]_vars => VisitInv'
<1> SUFFICES ASSUME TypeOK, VisitInv, [Next]_vars PROVE VisitInv'
  OBVIOUS
<1>0. \A r \in Runs : Visits(r)
  BY DEF VisitInv, Visits
<1>a. VisitInv' <=> \A r \in Runs : Visits(r)'
  BY DEF VisitInv, Visits
<1>b. ASSUME NEW s \in Runs, pc'[s] = pc[s], scope'[s] = scope[s], found'[s] = found[s],
             left'[s] = left[s], todo'[s] = todo[s]
      PROVE  Visits(s)'
  <2>1. Components(s)' = Components(s)
    BY <1>b DEF Components
  <2>2. QED
    BY <1>0, <1>b, <2>1 DEF Visits
<1>1. CASE UNCHANGED vars \/ \E d \in Drawers : File(d)
  BY <1>1, <1>a, <1>b DEF vars, runVars, File
<1>2. ASSUME NEW r \in Runs, NEW limit \in Limits, List(r, limit) PROVE VisitInv'
  <2>1. \A s \in Runs \ {r} : Visits(s)'
    BY <1>2, <1>b DEF TypeOK, List, Goto, Set
  <2>2. /\ pc'[r] \in {"search", "end"} /\ left'[r] = scope'[r] /\ found'[r] = {}
    BY <1>0, <1>2 DEF TypeOK, List, Goto, Set, Visits
  <2>3. QED
    BY <1>a, <2>1, <2>2 DEF Visits
<1>3. ASSUME NEW r \in Runs, Search(r) \/ SearchFails(r) PROVE VisitInv'
  <2>1. \A s \in Runs \ {r} : Visits(s)'
    BY <1>3, <1>b DEF TypeOK, Search, SearchFails, Set
  <2>2. First(left[r]) \in left[r] /\ left[r] \subseteq scope[r]
    <3>1. left[r] \in SUBSET Nat
      BY GardenAssumption DEF TypeOK
    <3>2. left[r] # {} /\ left[r] \subseteq scope[r]
      BY <1>0, <1>3 DEF Search, SearchFails, Visits
    <3>3. QED
      BY <3>1, <3>2, FirstOf
  <2>3. found'[r] \subseteq scope[r] \X scope[r]
    <3>1. \A hits : InScope(r, First(left[r]), hits) \subseteq scope[r]
      BY DEF InScope
    <3>2. \/ found'[r] = found[r]
          \/ \E hits : found'[r] = found[r] \cup
               ({First(left[r])} \X InScope(r, First(left[r]), hits))
      BY <1>3 DEF TypeOK, Search, SearchFails, Set
    <3>3. found[r] \subseteq scope[r] \X scope[r]
      BY <1>0 DEF Visits
    <3>4. QED
      BY <2>2, <3>1, <3>2, <3>3
  <2>4. pc'[r] = "search" /\ scope'[r] = scope[r] /\ left'[r] \subseteq left[r]
    BY <1>3 DEF TypeOK, Search, SearchFails, Set
  <2>5. QED
    BY <1>a, <2>1, <2>2, <2>3, <2>4 DEF Visits
<1>4. ASSUME NEW r \in Runs, Cluster(r) PROVE VisitInv'
  <2>1. \A s \in Runs \ {r} : Visits(s)'
    BY <1>4, <1>b DEF TypeOK, Cluster, Goto, Set
  <2>2. /\ pc'[r] = "cluster" /\ scope'[r] = scope[r] /\ found'[r] = found[r]
        /\ left'[r] = scope[r] /\ todo'[r] = {}
    BY <1>4 DEF TypeOK, Cluster, Goto, Set
  <2>3. Closed(found[r], scope[r])
    BY <1>0 DEF Closed, Visits
  <2>4. Components(r)' \subseteq SUBSET scope[r]
    BY <2>2 DEF Components
  <2>5. QED
    BY <1>0, <1>a, <2>1, <2>2, <2>3, <2>4 DEF Visits
<1>5. ASSUME NEW r \in Runs, Visit(r) PROVE VisitInv'
  BY <1>5, VisitKeeps
<1>6. ASSUME NEW r \in Runs,
             \/ Clustered(r) \/ Describe(r) \/ NextCluster(r) \/ End(r) \/ Fail(r)
             \/ \E d \in Drawers : AddMember(r, d)
      PROVE  VisitInv'
  <2>1. \A s \in Runs \ {r} : Visits(s)'
    BY <1>6, <1>b DEF TypeOK, Clustered, Describe, NextCluster, End, Fail, AddMember, Goto, Set
  <2>2. /\ pc'[r] \in {"describe", "members", "end"}
        /\ \/ scope'[r] = scope[r] /\ found'[r] = found[r]
           \/ scope'[r] = {} /\ found'[r] = {}
    BY <1>6 DEF TypeOK, Clustered, Describe, NextCluster, End, Fail, AddMember, Goto, Set
  <2>3. QED
    BY <1>0, <1>a, <2>1, <2>2 DEF Visits
<1>7. QED
  BY <1>1, <1>2, <1>3, <1>4, <1>5, <1>6 DEF Next, Run

LEMMA AlwaysVisits == Spec => [](TypeOK /\ VisitInv)
<1>1. Init => VisitInv
  BY DEF Init, VisitInv, Nothing
<1>2. QED
  BY <1>1, TypeCorrect, VisitInductive, PTL DEF Spec

\* Whatever the searches of a run found, its clusters are disjoint and of one
\* piece; if the likenesses found are mutual, they are the components that are big
\* enough, and all of them: for any listing and order of the drawers.
THEOREM ClustersAreRight == Spec => []ClustersAreComponents
<1>1. VisitInv => ClustersAreComponents
  <2> SUFFICES ASSUME VisitInv, NEW r \in Runs, pc[r] = "cluster", left[r] = {}
               PROVE  /\ \A c, e \in todo[r] : c = e \/ c \cap e = {}
                      /\ \A c \in todo[r] : c \subseteq scope[r] /\ Pieces(found[r], c) = {}
                      /\ Symmetric(found[r]) => todo[r] = Components(r)
    BY DEF ClustersAreComponents
  <2>1. Visits(r)
    BY DEF VisitInv, Visits
  <2>2. {} \notin Components(r)
    <3>1. ~(Cardinality({}) >= MinSize)
      BY FS_EmptySet, GardenAssumption
    <3>2. QED
      BY <3>1 DEF Components
  <2>3. QED
    BY <2>1, <2>2 DEF Visits
<1>2. QED
  BY <1>1, AlwaysVisits, PTL

-----------------------------------------------------------------------------
(* Clusters nest                                                           *)

\* A link of a drawer to itself divides nothing.
LEMMA AmongPieces ==
  ASSUME NEW nodes, NEW c \in SUBSET nodes
  PROVE  Pieces(Among(nodes), c) = Pieces(similar, c)
<1> DEFINE inner == {l \in similar : l[1] \in c /\ l[2] \in c}
           proper == {l \in Among(nodes) : l[1] \in c /\ l[2] \in c}
<1>1. \A p : Closed(proper, p) <=> Closed(inner, p)
  <2>1. proper = {l \in inner : l[1] # l[2]}
    BY DEF Among
  <2>2. QED
    BY <2>1 DEF Closed
<1>2. QED
  BY <1>1 DEF Pieces

\* A component of what a run has listed and a cluster that fits it nest.
LEMMA FitNests ==
  ASSUME NEW nodes, NEW c \in SUBSET nodes, NEW e,
         Pieces(similar, c) = {}, Closed(Among(nodes), c),
         Pieces(similar, e) = {}, Fits(e, nodes)
  PROVE  Nested(c, e)
<1>1. CASE e \subseteq nodes
  <2>1. Pieces(Among(nodes), e) = {}
    BY <1>1, AmongPieces
  <2>2. e \subseteq c \/ e \cap c = {}
    BY <2>1, Undivided DEF Closed
  <2>3. QED
    BY <2>2 DEF Nested
<1>2. CASE Closed(Among(nodes), e)
  <2>1. Pieces(Among(nodes), c) = {}
    BY AmongPieces
  <2>2. c \subseteq e \/ c \cap e = {}
    BY <1>2, <2>1, Undivided DEF Closed
  <2>3. QED
    BY <2>2 DEF Nested
<1>3. QED
  BY <1>1, <1>2 DEF Fits

\* NestInv, without its condition.
Saw(r) ==
  /\ scope[r] \subseteq filed
  /\ pc[r] \in {"search", "cluster"} => found[r] =
       {l \in Among(scope[r]) : pc[r] = "search" => l[1] \notin left[r]}
Chained == \A r, s \in Runs : scope[r] \subseteq scope[s] \/ scope[s] \subseteq scope[r]
Fitting(c) == /\ c \subseteq filed /\ Pieces(similar, c) = {}
              /\ \A r \in Runs : Fits(c, scope[r])
AllNested == \A c, e \in Clusters : Nested(c, e)
Nests == (\A r \in Runs : Saw(r)) /\ Chained /\ (\A c \in Clusters : Fitting(c)) /\ AllNested

\* A step that lists nothing and finds no cluster keeps it: a run may end.
SawOn(s) ==
  \/ pc'[s] = pc[s] /\ scope'[s] = scope[s] /\ found'[s] = found[s] /\ left'[s] = left[s]
  \/ scope'[s] \in {{}, scope[s]} /\ Saw(s)'
LEMMA NestKept ==
  ASSUME Nests, filed \subseteq filed', similar' = similar, Clusters' \subseteq Clusters,
         \A s \in Runs : SawOn(s)
  PROVE  Nests'
<1>1. \A s \in Runs : scope'[s] \in {{}, scope[s]}
  BY DEF SawOn
<1>2. \A s \in Runs : Saw(s)'
  BY DEF Nests, Saw, SawOn, Among
<1>3. Chained'
  BY <1>1 DEF Nests, Chained
<1>4. ASSUME NEW c \in Clusters' PROVE Fitting(c)'
  <2>1. Fitting(c)
    BY <1>4 DEF Nests
  <2>2. Fits(c, {})
    BY DEF Fits, Closed, Among
  <2>3. \A s \in Runs : Fits(c, scope'[s])
    BY <1>1, <2>1, <2>2 DEF Fitting
  <2>4. \A nodes : Fits(c, nodes) => Fits(c, nodes)'
    BY DEF Fits, Closed, Among
  <2>5. QED
    BY <2>1, <2>3, <2>4 DEF Fitting, Pieces, Fits, Closed, Among
<1>5. AllNested'
  BY DEF Nests, AllNested, Nested
<1>6. QED
  BY <1>2, <1>3, <1>4, <1>5 DEF Nests

\* A component of one run nests with all clusters, and is one that fits all runs.
LEMMA NestVisit ==
  ASSUME TypeOK, VisitInv, Nests, Symmetric(similar), NEW r \in Runs, Visit(r)
  PROVE  Nests'
<1>1. PICK d \in left[r], c \in SUBSET left[r] :
        /\ d \in c /\ Pieces(found[r], c) = {}
        /\ Symmetric(found[r]) => Closed(found[r], c)
        /\ UNCHANGED <<filed, similar, pc, scope, found, described, narrow>>
        /\ todo' = [todo EXCEPT ![r] =
             todo[r] \cup IF Cardinality(c) >= MinSize THEN {c} ELSE {}]
        /\ left' = [left EXCEPT ![r] = left[r] \ c]
  BY VisitDoes
<1>2. pc[r] = "cluster"
  BY DEF Visit
<1>3. /\ found[r] = Among(scope[r]) /\ scope[r] \subseteq filed
      /\ left[r] \subseteq scope[r]
      /\ Symmetric(found[r]) => Closed(found[r], left[r])
  <2>1. /\ scope[r] \subseteq filed
        /\ found[r] = {l \in Among(scope[r]) : pc[r] = "search" => l[1] \notin left[r]}
    BY <1>2 DEF Nests, Saw
  <2>2. found[r] = Among(scope[r])
    BY <1>2, <2>1
  <2>3. QED
    BY <1>2, <2>1, <2>2 DEF VisitInv
<1>4. Symmetric(Among(scope[r]))
  BY DEF Symmetric, Among
<1>5. /\ c \in SUBSET scope[r] /\ Closed(Among(scope[r]), c)
      /\ Pieces(similar, c) = {}
  <2>1. c \in SUBSET scope[r] /\ Pieces(Among(scope[r]), c) = {}
    BY <1>1, <1>3
  <2>2. QED
    BY <1>1, <1>3, <1>4, <2>1, AmongPieces
<1>6. ASSUME NEW s \in Runs PROVE Fits(c, scope[s])
  <2>1. CASE scope[r] \subseteq scope[s]
    BY <1>5, <2>1 DEF Fits
  <2>2. CASE scope[s] \subseteq scope[r]
    <3>1. Among(scope[s]) \subseteq Among(scope[r])
      BY <2>2 DEF Among
    <3>2. QED
      BY <1>5, <3>1 DEF Fits, Closed
  <2>3. QED
    BY <2>1, <2>2 DEF Nests, Chained
<1>7. Fitting(c)
  BY <1>3, <1>5, <1>6 DEF Fitting
<1>8. \A e \in Clusters : Nested(c, e) /\ Nested(e, c)
  <2>1. ASSUME NEW e \in Clusters PROVE Nested(c, e)
    <3>1. Pieces(similar, e) = {} /\ Fits(e, scope[r])
      BY DEF Nests, Fitting
    <3>2. QED
      BY <1>5, <3>1, FitNests
  <2>2. QED
    BY <2>1 DEF Nested
<1>9. Clusters' \subseteq Clusters \cup {c}
  <2>1. \A s \in Runs : todo'[s] \subseteq todo[s] \cup {c}
    BY <1>1 DEF TypeOK
  <2>2. QED
    BY <1>1, <2>1 DEF Clusters
<1>10. \A s \in Runs : Saw(s)'
  <2>1. \A s \in Runs : pc[s] = "search" => left'[s] = left[s]
    BY <1>1, <1>2 DEF TypeOK
  <2>2. QED
    BY <1>1, <2>1 DEF Nests, Saw, Among
<1>11. \A e \in Clusters' : Fitting(e)'
  <2>1. \A e \in Clusters' : Fitting(e)
    BY <1>7, <1>9 DEF Nests
  <2>2. \A e : Fitting(e)' <=> Fitting(e)
    BY <1>1 DEF Fitting, Fits, Pieces, Closed, Among
  <2>3. QED
    BY <2>1, <2>2
<1>12. AllNested' /\ Chained'
  <2>1. Nested(c, c)
    BY DEF Nested
  <2>2. QED
    BY <1>1, <1>8, <1>9, <2>1 DEF Nests, AllNested, Chained
<1>13. QED
  BY <1>10, <1>11, <1>12 DEF Nests

\* A new listing holds all clusters there are, and all other listings.
LEMMA NestList ==
  ASSUME TypeOK, VisitInv, Nests, NEW r \in Runs, NEW limit \in Limits, List(r, limit),
         ~narrow'
  PROVE  Nests'
<1>1. /\ scope' = [scope EXCEPT ![r] = filed] /\ left' = [left EXCEPT ![r] = filed]
      /\ UNCHANGED <<filed, similar, found, todo, described>>
      /\ pc' = [pc EXCEPT ![r] = IF filed = {} THEN "end" ELSE "search"]
      /\ pc[r] = "idle"
  BY DEF List, Set, Goto, factVars
<1>2. found[r] = {}
  BY <1>1 DEF VisitInv
<1>3. /\ scope'[r] = filed /\ left'[r] = filed /\ pc'[r] \in {"end", "search"}
      /\ \A s \in Runs \ {r} : /\ scope'[s] = scope[s] /\ left'[s] = left[s]
                               /\ pc'[s] = pc[s]
  BY <1>1 DEF TypeOK
<1>4. Saw(r)'
  <2>1. \A l \in Among(filed)' : l[1] \in filed
    BY <1>1 DEF Among
  <2>2. QED
    BY <1>1, <1>2, <1>3, <2>1 DEF Saw
<1>5. \A s \in Runs \ {r} : Saw(s)'
  BY <1>1, <1>3 DEF Nests, Saw, Among
<1>6. Chained'
  BY <1>3 DEF Nests, Saw, Chained
<1>7. Clusters' = Clusters
  BY <1>1 DEF Clusters
<1>8. ASSUME NEW c \in Clusters PROVE Fitting(c)'
  <2>1. Fitting(c)
    BY DEF Nests
  <2>2. \A s \in Runs : Fits(c, scope'[s])
    BY <1>3, <2>1 DEF Fitting, Fits
  <2>3. \A nodes : Fits(c, nodes) => Fits(c, nodes)'
    BY <1>1 DEF Fits, Closed, Among
  <2>4. QED
    BY <1>1, <2>1, <2>2, <2>3 DEF Fitting, Pieces, Fits, Closed, Among
<1>9. QED
  BY <1>4, <1>5, <1>6, <1>7, <1>8 DEF Nests, AllNested

\* A search that is not cut short finds the likenesses of its drawer.
LEMMA NestSearch ==
  ASSUME TypeOK, VisitInv, Nests, NEW r \in Runs, Search(r), ~narrow'
  PROVE  Nests'
<1> DEFINE d == First(left[r])
<1>1. PICK hits \in Results(d) :
        /\ found' = [found EXCEPT ![r] = found[r] \cup ({d} \X InScope(r, d, hits))]
        /\ narrow' = (narrow \/ ~(Likes(d) \cap scope[r] \subseteq hits))
        /\ left' = [left EXCEPT ![r] = left[r] \ {d}]
  BY DEF Search, Set
<1>2. /\ UNCHANGED <<filed, similar, pc, scope, todo, described>>
      /\ pc[r] = "search" /\ left[r] # {}
  BY DEF Search, factVars
<1>3. d \in left[r] /\ left[r] \subseteq scope[r] /\ scope[r] \subseteq filed
  <2>1. d \in left[r]
    BY <1>2, FirstOf, GardenAssumption DEF TypeOK
  <2>2. QED
    BY <1>2, <2>1 DEF VisitInv, Nests, Saw
<1>4. InScope(r, d, hits) = {e \in scope[r] : <<d, e>> \in similar /\ e # d}
  <2>1. hits \subseteq Likes(d) \cup {d} /\ Likes(d) \cap scope[r] \subseteq hits
    BY <1>1 DEF Results
  <2>2. QED
    BY <1>3, <2>1 DEF InScope, Likes
<1>5. found[r] = {l \in Among(scope[r]) : l[1] \notin left[r]}
  BY <1>2 DEF Nests, Saw
<1>6. /\ found'[r] = found[r] \cup ({d} \X InScope(r, d, hits))
      /\ left'[r] = left[r] \ {d}
      /\ \A s \in Runs \ {r} : found'[s] = found[s] /\ left'[s] = left[s]
  BY <1>1 DEF TypeOK
<1>7. \A l \in similar : l = <<l[1], l[2]>>
  BY GardenAssumption DEF TypeOK
<1> HIDE DEF d
<1>8. found'[r] = {l \in Among(scope[r]) : l[1] \notin left'[r]}
  <2>1. ASSUME NEW l \in found'[r] PROVE l \in Among(scope[r]) /\ l[1] \notin left'[r]
    BY <1>3, <1>4, <1>5, <1>6 DEF Among
  <2>2. ASSUME NEW l \in Among(scope[r]), l[1] \notin left'[r] PROVE l \in found'[r]
    <3>1. CASE l[1] = d
      <4>1. l[2] \in InScope(r, d, hits)
        BY <1>4, <1>7, <2>2, <3>1 DEF Among
      <4>2. QED
        BY <1>6, <1>7, <2>2, <3>1, <4>1 DEF Among
    <3>2. CASE l[1] # d
      BY <1>5, <1>6, <2>2, <3>2
    <3>3. QED
      BY <3>1, <3>2
  <2>3. QED
    BY <2>1, <2>2
<1>9. Saw(r)'
  BY <1>2, <1>3, <1>8 DEF Saw, Among
<1>10. Clusters' = Clusters
  BY <1>2 DEF Clusters
<1>11. \A s \in Runs : SawOn(s)
  BY <1>2, <1>6, <1>9 DEF SawOn
<1>12. QED
  BY <1>2, <1>10, <1>11, NestKept

LEMMA NestInductive == TypeOK /\ VisitInv /\ NestInv /\ [Next]_vars => NestInv'
<1> SUFFICES ASSUME TypeOK, VisitInv, NestInv, [Next]_vars, ~narrow', Symmetric(similar)'
             PROVE  Nests'
  BY DEF NestInv, Nests, Saw, Chained, Fitting, AllNested
<1>1. UNCHANGED similar /\ ~narrow
  BY DEF Next, Run, vars, runVars, factVars, File, List, Search, SearchFails, Cluster, Visit,
     Clustered, Describe, AddMember, NextCluster, End, Fail, TypeOK
<1>2. Nests /\ Symmetric(similar)
  BY <1>1 DEF NestInv, Nests, Saw, Chained, Fitting, AllNested, Symmetric
<1>3. CASE UNCHANGED vars \/ \E d \in Drawers : File(d)
  <2>1. filed \subseteq filed' /\ UNCHANGED <<pc, scope, found, left, todo, described>>
    BY <1>3 DEF vars, runVars, factVars, File
  <2>2. QED
    BY <1>1, <1>2, <2>1, NestKept DEF Clusters, SawOn
<1>4. ASSUME NEW r \in Runs, NEW limit \in Limits, List(r, limit) PROVE Nests'
  BY <1>2, <1>4, NestList
<1>5. ASSUME NEW r \in Runs, Search(r) PROVE Nests'
  BY <1>2, <1>5, NestSearch
<1>6. ASSUME NEW r \in Runs, Visit(r) PROVE Nests'
  BY <1>2, <1>6, NestVisit
<1>7. ASSUME NEW r \in Runs,
             \/ Cluster(r) \/ Clustered(r) \/ Describe(r) \/ NextCluster(r) \/ End(r)
             \/ Fail(r) \/ \E d \in Drawers : AddMember(r, d)
      PROVE  Nests'
  <2>1. Describe(r) => Current(r) \in todo[r]
    BY CurrentOf DEF Describe
  <2>2. Clusters' \subseteq Clusters
    <3>1. \A s \in Runs : todo'[s] \subseteq todo[s]
      BY <1>7 DEF TypeOK, Cluster, Clustered, Describe, NextCluster, End, Fail, AddMember, Set
    <3>2. described' \subseteq Clusters
      BY <1>7, <2>1 DEF Clusters, Cluster, Clustered, Describe, NextCluster, End, Fail,
         AddMember, factVars
    <3>3. QED
      BY <3>1, <3>2 DEF Clusters
  <2>3. /\ filed' = filed
        /\ \A s \in Runs \ {r} : /\ pc'[s] = pc[s] /\ scope'[s] = scope[s]
                                 /\ found'[s] = found[s] /\ left'[s] = left[s]
    BY <1>7 DEF TypeOK, Cluster, Clustered, Describe, NextCluster, End, Fail, AddMember,
       Goto, Set
  <2>4. scope'[r] \in {{}, scope[r]} /\ Saw(r)'
    <3>1. CASE Cluster(r)
      <4>1. /\ pc[r] = "search" /\ left[r] = {} /\ pc'[r] = "cluster"
            /\ scope'[r] = scope[r] /\ found'[r] = found[r]
        BY <3>1 DEF TypeOK, Cluster, Goto, Set
      <4>2. QED
        BY <1>1, <1>2, <2>3, <4>1 DEF Nests, Saw, Among
    <3>2. CASE ~Cluster(r)
      <4>1. /\ pc'[r] \in {"describe", "members", "end"}
            /\ scope'[r] \in {{}, scope[r]}
        BY <1>7, <3>2 DEF TypeOK, Clustered, Describe, NextCluster, End, Fail, AddMember,
           Goto, Set
      <4>2. QED
        BY <1>2, <2>3, <4>1 DEF Nests, Saw
    <3>3. QED
      BY <3>1, <3>2
  <2>5. \A s \in Runs : SawOn(s)
    BY <2>3, <2>4 DEF SawOn
  <2>6. QED
    BY <1>1, <1>2, <2>2, <2>3, <2>5, NestKept
<1>8. ~(\E r \in Runs : SearchFails(r))
  BY DEF SearchFails
<1>9. QED
  BY <1>3, <1>4, <1>5, <1>6, <1>7, <1>8 DEF Next, Run

\* The clusters that were described, by older and newer runs, overlap only when one
\* has grown into the other, if no run was cut short and likeness is mutual: for
\* any drawers filed meanwhile, any overlap of the runs and any likeness.
THEOREM ClustersAgree == Spec => []ClustersNest
<1>1. Init => NestInv
  BY DEF Init, NestInv, Nothing, Clusters, Among
<1>2. NestInv => ClustersNest
  BY DEF NestInv, ClustersNest, Clusters
<1>3. QED
  BY <1>1, <1>2, AlwaysVisits, NestInductive, PTL DEF Spec

-----------------------------------------------------------------------------
(* Clusters are whole                                                      *)

\* The cluster a run is at changes only with its clusters to do.
LEMMA CurrentStays ==
  ASSUME NEW r, todo'[r] = todo[r]
  PROVE  Current(r)' = Current(r)
BY DEF Current, First

\* The runs other than r rest.
Resting(r) ==
  \A s \in Runs \ {r} :
    pc'[s] = pc[s] /\ left'[s] = left[s] /\ todo'[s] = todo[s]
Domains ==
  DOMAIN pc = Runs /\ DOMAIN left = Runs /\ DOMAIN todo = Runs

\* A pc of run r that describes nothing, and after which r is not at a
\* cluster, keeps the invariant if the cluster that r was at counts as torn.
LEMMA WholeAside ==
  ASSUME WholeInv, NEW r, Domains', Resting(r),
         UNCHANGED <<described, member>>, torn \subseteq torn',
         r \in Runs => pc'[r] # "members",
         r \in Runs /\ pc[r] = "members" => Current(r) \in torn'
  PROVE  WholeInv'
<1>1. \A s \in Runs \ {r} : Current(s)' = Current(s)
  BY CurrentStays DEF Resting
<1>2. \A c \in described' \ torn' :
         (\A s \in Runs : pc'[s] = "members" => Current(s)' # c)
            => c \X {c} \subseteq member'
  BY <1>1 DEF WholeInv, Resting
<1>3. \A s \in Runs : pc'[s] = "members" =>
         /\ left'[s] \subseteq Current(s)'
         /\ (Current(s)' \ left'[s]) \X {Current(s)'} \subseteq member'
  BY <1>1 DEF WholeInv, Resting
<1>4. QED
  BY <1>2, <1>3 DEF WholeInv, Domains

LEMMA WholeInductive ==
  WholeInv /\ [Next]_vars => WholeInv'
<1> SUFFICES ASSUME WholeInv, [Next]_vars
             PROVE  WholeInv'
  OBVIOUS
<1> DEFINE Now(r) == Current(r)
<1>0. Domains
  BY DEF Domains, WholeInv
<1>1. CASE UNCHANGED vars \/ \E d \in Drawers : File(d)
  <2>1. UNCHANGED <<pc, left, todo, described, member, torn>>
    BY <1>1 DEF vars, runVars, factVars, File
  <2>2. \A s : Current(s)' = Current(s)
    BY <2>1, CurrentStays
  <2>3. QED
    BY <2>1, <2>2 DEF WholeInv
<1>2. ASSUME NEW r \in Runs,
             \/ \E limit \in Limits : List(r, limit)
             \/ Search(r) \/ SearchFails(r)
             \/ Cluster(r) \/ Visit(r) \/ Clustered(r) \/ End(r)
      PROVE  WholeInv'
  <2>1. /\ Domains' /\ Resting(r) /\ UNCHANGED <<described, member, torn>>
        /\ pc[r] # "members" /\ pc'[r] # "members"
    BY <1>0, <1>2 DEF Domains, Resting, List, Search, SearchFails,
       Cluster, Visit, Clustered, End, Goto, Set, factVars
  <2>2. QED
    BY <2>1, WholeAside
<1>3. ASSUME NEW r \in Runs, Fail(r) PROVE WholeInv'
  <2>1. /\ Domains' /\ Resting(r) /\ UNCHANGED <<described, member>>
        /\ torn \subseteq torn' /\ pc'[r] # "members"
        /\ pc[r] = "members" => Current(r) \in torn'
    BY <1>0, <1>3
       DEF Domains, Resting, Fail, Goto, Set, factVars
  <2>2. QED
    BY <2>1, WholeAside
<1>4. ASSUME NEW r \in Runs, Describe(r) PROVE WholeInv'
  <2>1. /\ Domains' /\ UNCHANGED <<todo, member, torn>>
        /\ described' = described \cup {Now(r)}
        /\ pc[r] # "members" /\ pc' = [pc EXCEPT ![r] = "members"]
        /\ left' = [left EXCEPT ![r] = Now(r)]
    BY <1>0, <1>4 DEF Domains, Describe, Goto, Set
  <2>2. \A s : Current(s)' = Now(s)
    BY <2>1, CurrentStays
  <2> HIDE DEF Now
  <2>3. \A s \in Runs : pc'[s] = "members" =>
           left'[s] \subseteq Now(s) /\ (Now(s) \ left'[s]) \X {Now(s)} \subseteq member'
    BY <1>0, <2>1 DEF Domains, WholeInv, Now
  <2>4. ASSUME NEW c \in described' \ torn',
               \A s \in Runs : pc'[s] = "members" => Now(s) # c
        PROVE  c \X {c} \subseteq member'
    <3>1. c # Now(r)
      BY <1>0, <2>1, <2>4 DEF Domains
    <3>2. \A s \in Runs : pc[s] = "members" => Now(s) # c
      BY <1>0, <2>1, <2>4 DEF Domains
    <3>3. QED
      BY <2>1, <3>1, <3>2 DEF WholeInv, Now
  <2>5. QED
    BY <2>1, <2>2, <2>3, <2>4 DEF Domains, WholeInv
<1>5. ASSUME NEW r \in Runs, NEW d \in Drawers, AddMember(r, d)
      PROVE  WholeInv'
  <2>1. /\ Domains' /\ UNCHANGED <<pc, todo, described, torn>>
        /\ pc[r] = "members" /\ d \in left[r]
        /\ left' = [left EXCEPT ![r] = left[r] \ {d}]
        /\ member' = member \cup {<<d, Now(r)>>}
    BY <1>0, <1>5 DEF Domains, AddMember, PartOf, Set
  <2>2. \A s : Current(s)' = Now(s)
    BY <2>1, CurrentStays
  <2> HIDE DEF Now
  <2>3. left[r] \subseteq Now(r) /\ (Now(r) \ left[r]) \X {Now(r)} \subseteq member
    BY <2>1 DEF WholeInv, Now
  <2>4. \A m \in member' : m = <<m[1], m[2]>> /\ m[1] \in m[2]
    BY <2>1, <2>3 DEF WholeInv
  <2>5. \A s \in Runs : pc'[s] = "members" =>
           left'[s] \subseteq Now(s) /\ (Now(s) \ left'[s]) \X {Now(s)} \subseteq member'
    BY <1>0, <2>1, <2>3 DEF Domains, WholeInv, Now
  <2>6. \A c \in described' \ torn' :
           (\A s \in Runs : pc'[s] = "members" => Now(s) # c)
              => c \X {c} \subseteq member'
    BY <2>1 DEF WholeInv, Now
  <2>7. QED
    BY <2>1, <2>2, <2>4, <2>5, <2>6 DEF Domains, WholeInv
<1>6. ASSUME NEW r \in Runs, NextCluster(r) PROVE WholeInv'
  <2>1. /\ Domains' /\ UNCHANGED <<left, described, member>>
        /\ pc[r] = "members" /\ left[r] = {}
        /\ pc' = [pc EXCEPT ![r] = "describe"]
        /\ torn' = torn \ {Now(r)} /\ Resting(r)
    BY <1>0, <1>6 DEF Domains, Resting, NextCluster, Goto, Set,
       factVars
  <2>2. \A s \in Runs \ {r} : Current(s)' = Now(s)
    BY <2>1, CurrentStays DEF Resting
  <2> HIDE DEF Now
  <2>3. Now(r) \X {Now(r)} \subseteq member
    BY <2>1 DEF WholeInv, Now
  <2>4. \A s \in Runs : pc'[s] = "members" =>
           /\ left'[s] \subseteq Current(s)'
           /\ (Current(s)' \ left'[s]) \X {Current(s)'} \subseteq member'
    BY <1>0, <2>1, <2>2 DEF Domains, WholeInv, Now
  <2>5. ASSUME NEW c \in described' \ torn',
               \A s \in Runs : pc'[s] = "members" => Current(s)' # c
        PROVE  c \X {c} \subseteq member'
    <3>1. CASE c = Now(r)
      BY <2>1, <2>3, <3>1
    <3>2. CASE c # Now(r)
      <4>1. \A s \in Runs : pc[s] = "members" => Now(s) # c
        BY <1>0, <2>1, <2>2, <2>5, <3>2 DEF Domains
      <4>2. QED
        BY <2>1, <3>2, <4>1 DEF WholeInv, Now
    <3>3. QED
      BY <3>1, <3>2
  <2>6. QED
    BY <2>1, <2>4, <2>5 DEF Domains, WholeInv
<1>7. QED
  BY <1>1, <1>2, <1>3, <1>4, <1>5, <1>6 DEF Next, Run

\* A described cluster is in the graph with all its members, and no others,
\* unless a run is at it or was cut off in it: for any number of garden runs
\* that overlap, whatever the searches found and whichever calls failed.
THEOREM ClustersAreWhole == Spec => []WholeClusters
<1>1. Init => WholeInv
  BY DEF Init, WholeInv, Nothing
<1>2. WholeInv => WholeClusters
  BY DEF WholeInv, WholeClusters
<1>3. QED
  BY <1>1, <1>2, WholeInductive, PTL DEF Spec
==============================================================================
