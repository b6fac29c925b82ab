------------------------------- MODULE Garden -------------------------------
(***************************************************************************)
(* execute_garden: list the drawers of a wing, search for the likes of     *)
(* each of them, take the connected components of what was found as        *)
(* clusters, and describe these in the knowledge graph, one kg_add at a    *)
(* time.  Nothing is locked or transactional: drawers are filed meanwhile, *)
(* searches and kg_adds fail, and a garden call that timed out has left    *)
(* its thread running when the next one starts.                            *)
(*                                                                         *)
(* A cluster is its set of members, of which its id is the hash.  The      *)
(* importance backfill that follows the clusters is part of Curation.      *)
(***************************************************************************)
EXTENDS Naturals, FiniteSets

CONSTANTS
  Drawers,     \* a set of numbers: list_drawers lists in the order of refs
  Runs,        \* executions of execute_garden
  Limits,      \* values of max_drawers
  MinSize,     \* of a cluster
  SearchK,     \* hits per search
  Likenesses,  \* which drawers are similar to which, as sets of pairs
  MaxFails     \* bound: searches and kg_adds that fail

ASSUME GardenAssumption ==
  /\ Drawers \subseteq Nat /\ IsFiniteSet(Drawers) /\ Limits \subseteq Nat
  /\ MinSize \in Nat \ {0} /\ SearchK \in Nat /\ MaxFails \in Nat
  /\ \A likeness \in Likenesses : likeness \subseteq Drawers \X Drawers

VARIABLES
  filed,      \* drawers in the wing
  similar,    \* whose search scores which others above the threshold
  pc,         \* [Runs -> step]
  scope,      \* [Runs -> drawers listed]
  found,      \* [Runs -> adjacency, as a set of pairs]
  left,       \* [Runs -> drawers still to search, to visit, or to add]
  todo,       \* [Runs -> clusters found and not described yet]
  described,  \* clusters with is_a, has_label and has_size facts
  member,     \* part_of_cluster facts: pairs of a drawer and a cluster
  fails,
  torn,       \* history: clusters whose description was cut off
  narrow      \* history: some run did not see all drawers or all likenesses

runVars == <<pc, scope, found, left, todo>>
factVars == <<described, member>>
vars == <<filed, similar, runVars, factVars, fails, torn, narrow>>

Steps == {"idle", "search", "cluster", "describe", "members", "end"}
Nothing == [r \in Runs |-> {}]

Init ==
  /\ filed = {} /\ similar \in Likenesses
  /\ pc = [r \in Runs |-> "idle"]
  /\ scope = Nothing /\ found = Nothing /\ left = Nothing /\ todo = Nothing
  /\ described = {} /\ member = {}
  /\ fails = 0 /\ torn = {} /\ narrow = FALSE

Goto(r, to) == pc' = [pc EXCEPT ![r] = to]
Set(f, r, v) == [f EXCEPT ![r] = v]

File(d) ==
  /\ d \notin filed
  /\ filed' = filed \cup {d}
  /\ UNCHANGED <<similar, runVars, factVars, fails, torn, narrow>>

-----------------------------------------------------------------------------
(* execute_garden                                                          *)

First(nodes) == CHOOSE d \in nodes : \A e \in nodes : d <= e
Listed(limit) == {d \in filed : Cardinality({e \in filed : e < d}) < limit}

\* _get_drawers_in_scope
List(r, limit) ==
  /\ pc[r] = "idle"
  /\ scope' = Set(scope, r, Listed(limit))
  /\ left' = Set(left, r, Listed(limit))
  /\ narrow' = (narrow \/ Listed(limit) # filed)
  /\ Goto(r, IF filed = {} THEN "end" ELSE "search")
  /\ UNCHANGED <<filed, similar, found, todo, factVars, fails, torn>>

\* The results of a search: the best hits, of which d itself may be one.
Likes(d) == {e \in filed : e # d /\ <<d, e>> \in similar}
Results(d) ==
  LET all == Likes(d) \cup {d} IN
  {hits \in SUBSET all : Cardinality(hits) =
     IF Cardinality(all) < SearchK THEN Cardinality(all) ELSE SearchK}

AnyHit(r, d, hits) == hits \ {d}     \* mutant: newer drawers are let in
InScope(r, d, hits) == (hits \cap scope[r]) \ {d}

\* _build_adjacency, one search
Search(r) ==
  /\ pc[r] = "search" /\ left[r] # {}
  /\ LET d == First(left[r]) IN
     \E hits \in Results(d) :
       /\ found' = Set(found, r, found[r] \cup ({d} \X InScope(r, d, hits)))
       /\ narrow' = (narrow \/ ~(Likes(d) \cap scope[r] \subseteq hits))
       /\ left' = Set(left, r, left[r] \ {d})
  /\ UNCHANGED <<filed, similar, pc, scope, todo, factVars, fails, torn>>

SearchFails(r) ==
  /\ pc[r] = "search" /\ left[r] # {} /\ fails < MaxFails
  /\ fails' = fails + 1
  /\ left' = Set(left, r, left[r] \ {First(left[r])})
  /\ narrow' = TRUE
  /\ UNCHANGED <<filed, similar, pc, scope, found, todo, factVars, torn>>

-----------------------------------------------------------------------------
(* find_clusters                                                           *)

Cluster(r) ==
  /\ pc[r] = "search" /\ left[r] = {}
  /\ left' = Set(left, r, scope[r])
  /\ todo' = Set(todo, r, {})
  /\ Goto(r, "cluster")
  /\ UNCHANGED <<filed, similar, scope, found, factVars, fails, torn, narrow>>

\* What a breadth-first search from d reaches among the drawers not visited:
\* the least set that holds d and that no link to one of them leaves.
Closest(adjacency, unvisited, d) ==     \* mutant: the search goes one step only
  {d} \cup {e \in unvisited : <<d, e>> \in adjacency}
Stays(adjacency, unvisited, p) ==
  \A link \in adjacency : link[1] \in p /\ link[2] \in unvisited => link[2] \in p
Component(adjacency, unvisited, d) ==
  {e \in unvisited : \A p \in SUBSET unvisited :
     d \in p /\ Stays(adjacency, unvisited, p) => e \in p}

\* The next start node: a drawer that was visited is skipped.
Unvisited(r) == Drawers \ (scope[r] \ left[r])
Visit(r) ==
  /\ pc[r] = "cluster" /\ left[r] # {}
  /\ LET component == Component(found[r], Unvisited(r), First(left[r])) IN
       /\ todo' = Set(todo, r, todo[r] \cup
                      IF Cardinality(component) >= MinSize THEN {component} ELSE {})
       /\ left' = Set(left, r, left[r] \ component)
  /\ UNCHANGED <<filed, similar, pc, scope, found, factVars, fails, torn, narrow>>

Clustered(r) ==
  /\ pc[r] = "cluster" /\ left[r] = {}
  /\ Goto(r, "describe")
  /\ UNCHANGED <<filed, similar, scope, found, left, todo, factVars, fails, torn, narrow>>

-----------------------------------------------------------------------------
(* The facts about the clusters                                            *)

\* The clusters in the order of their start nodes.
Current(r) == CHOOSE c \in todo[r] : \A e \in todo[r] : First(c) <= First(e)

\* is_a, has_label, has_size
Describe(r) ==
  /\ pc[r] = "describe" /\ todo[r] # {}
  /\ described' = described \cup {Current(r)}
  /\ left' = Set(left, r, Current(r))
  /\ Goto(r, "members")
  /\ UNCHANGED <<filed, similar, scope, found, todo, member, fails, torn, narrow>>

OnePerDrawer(d, c) ==      \* mutant: a drawer's first cluster is its only one
  IF \E m \in member : m[1] = d THEN {} ELSE {<<d, c>>}
PartOf(d, c) == {<<d, c>>}

AddMember(r, d) ==
  /\ pc[r] = "members" /\ d \in left[r]
  /\ member' = member \cup PartOf(d, Current(r))
  /\ left' = Set(left, r, left[r] \ {d})
  /\ UNCHANGED <<filed, similar, pc, scope, found, todo, described, fails, torn, narrow>>

NextCluster(r) ==
  /\ pc[r] = "members" /\ left[r] = {}
  /\ todo' = Set(todo, r, todo[r] \ {Current(r)})
  /\ torn' = torn \ {Current(r)}
  /\ Goto(r, "describe")
  /\ UNCHANGED <<filed, similar, scope, found, left, factVars, fails, narrow>>

\* The backfill, the diary entry and the return.
End(r) ==
  /\ pc[r] = "describe" /\ todo[r] = {}
  /\ Goto(r, "end")
  /\ found' = Set(found, r, {}) /\ scope' = Set(scope, r, {})
  /\ UNCHANGED <<filed, similar, left, todo, factVars, fails, torn, narrow>>

\* A kg_add raises, which nothing in execute_garden catches, or the process
\* of the session ends.
Fail(r) ==
  /\ pc[r] \in Steps \ {"idle", "end"} /\ fails < MaxFails
  /\ fails' = fails + 1
  /\ torn' = torn \cup IF pc[r] = "members" THEN {Current(r)} ELSE {}
  /\ found' = Set(found, r, {}) /\ scope' = Set(scope, r, {})
  /\ left' = Set(left, r, {}) /\ todo' = Set(todo, r, {})
  /\ Goto(r, "end")
  /\ UNCHANGED <<filed, similar, factVars, narrow>>

Run(r) ==
  \/ \E limit \in Limits : List(r, limit)
  \/ Search(r) \/ SearchFails(r) \/ Cluster(r) \/ Visit(r) \/ Clustered(r) \/ Describe(r)
  \/ \E d \in Drawers : AddMember(r, d)
  \/ NextCluster(r) \/ End(r) \/ Fail(r)

Next == (\E d \in Drawers : File(d)) \/ \E r \in Runs : Run(r)

Spec == Init /\ [][Next]_vars

-----------------------------------------------------------------------------
(* Properties                                                              *)

\* The variables keep their types; no cluster is empty, and who adds members has one.
TypeOK ==
  /\ filed \subseteq Drawers /\ similar \in Likenesses
  /\ pc \in [Runs -> Steps]
  /\ scope \in [Runs -> SUBSET Drawers] /\ left \in [Runs -> SUBSET Drawers]
  /\ found \in [Runs -> SUBSET (Drawers \X Drawers)]
  /\ todo \in [Runs -> SUBSET ((SUBSET Drawers) \ {{}})]
  /\ \A r \in Runs : pc[r] = "members" => todo[r] # {}
  /\ described \subseteq SUBSET Drawers
  /\ member \subseteq Drawers \X SUBSET Drawers
  /\ fails \in 0 .. MaxFails /\ torn \subseteq SUBSET Drawers /\ narrow \in BOOLEAN

\* A set of drawers that no link crosses.
Closed(adjacency, c) ==
  \A link \in adjacency : link[1] \in c <=> link[2] \in c
Symmetric(relation) == \A link \in relation : <<link[2], link[1]>> \in relation

\* "each a connected component": the clusters of a run are disjoint and of one
\* piece, whatever the searches found; if they found every likeness from both
\* sides, the clusters are the components of their drawers that are big enough.
Pieces(adjacency, c) ==
  {p \in (SUBSET c) \ {{}, c} : Closed({l \in adjacency : l[1] \in c /\ l[2] \in c}, p)}
Components(r) ==
  {c \in SUBSET scope[r] : /\ Cardinality(c) >= MinSize
                           /\ Closed(found[r], c) /\ Pieces(found[r], c) = {}}
ClustersAreComponents ==
  \A r \in Runs : pc[r] = "cluster" /\ left[r] = {} =>
    /\ \A c, e \in todo[r] : c = e \/ c \cap e = {}
    /\ \A c \in todo[r] : c \subseteq scope[r] /\ Pieces(found[r], c) = {}
    /\ Symmetric(found[r]) => todo[r] = Components(r)

\* "Same member set -> same ID": clusters of different runs, older and newer,
\* overlap only when one has grown into the other, as long as every run saw
\* all drawers and their likenesses, and these are mutual.
Nested(c, e) == c \cap e = {} \/ c \subseteq e \/ e \subseteq c
ClustersNest ==
  ~narrow /\ Symmetric(similar) =>
    \A c, e \in described : Nested(c, e)

\* A cluster that was described, and that no run is at, has exactly its members
\* in the graph, unless a run was cut off in it and none has completed it since.
WholeClusters ==
  \A c \in described \ torn :
    (\A r \in Runs : pc[r] = "members" => Current(r) # c) =>
      {m \in member : m[2] = c} = c \X {c}

\* Why: a fact names a member of its cluster; what a run has left of its current
\* cluster is all that may be missing; and what no run is at misses nothing.
WholeInv ==
  /\ DOMAIN pc = Runs /\ DOMAIN left = Runs /\ DOMAIN todo = Runs
  /\ \A m \in member : m = <<m[1], m[2]>> /\ m[1] \in m[2]
  /\ \A r \in Runs : pc[r] = "members" =>
       /\ left[r] \subseteq Current(r)
       /\ (Current(r) \ left[r]) \X {Current(r)} \subseteq member
  /\ \A c \in described \ torn :
       (\A r \in Runs : pc[r] = "members" => Current(r) # c) => c \X {c} \subseteq member

\* Why ClustersAreComponents holds: it holds of what was visited so far, which no
\* link leaves if they are mutual, so that what is left holds the other components.
VisitInv ==
  \A r \in Runs :
    /\ pc[r] = "idle" => scope[r] = {}
    /\ found[r] \subseteq scope[r] \X scope[r]
    /\ pc[r] \in {"search", "cluster"} => left[r] \subseteq scope[r]
    /\ pc[r] = "cluster" =>
         /\ \A c \in todo[r] : c \subseteq scope[r] \ left[r] /\ Pieces(found[r], c) = {}
         /\ \A c, e \in todo[r] : c = e \/ c \cap e = {}
         /\ Symmetric(found[r]) =>
              /\ Closed(found[r], left[r]) /\ todo[r] \subseteq Components(r)
              /\ \A c \in Components(r) : c \in todo[r] \/ c \subseteq left[r]

\* Why ClustersNest holds: runs list more and more drawers, and find all the likenesses
\* among them; so a cluster either lies in what a run has listed, or is not linked to
\* the rest of it; and a cluster that does lie there, in one piece, is not cut by
\* the components that the run finds.
Among(nodes) == {l \in similar : l[1] \in nodes /\ l[2] \in nodes /\ l[1] # l[2]}
Clusters == described \cup UNION {todo[r] : r \in Runs}
Fits(c, nodes) == c \subseteq nodes \/ Closed(Among(nodes), c)
NestInv ==
  ~narrow /\ Symmetric(similar) =>
    /\ \A r \in Runs :
         /\ scope[r] \subseteq filed
         /\ pc[r] \in {"search", "cluster"} => found[r] =
              {l \in Among(scope[r]) : pc[r] = "search" => l[1] \notin left[r]}
    /\ \A r, s \in Runs : scope[r] \subseteq scope[s] \/ scope[s] \subseteq scope[r]
    /\ \A c \in Clusters : /\ c \subseteq filed /\ Pieces(similar, c) = {}
                           /\ \A r \in Runs : Fits(c, scope[r])
    /\ \A c, e \in Clusters : Nested(c, e)
=============================================================================
