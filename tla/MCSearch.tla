------------------------------ MODULE MCSearch ------------------------------
(* A drawer in each of two wings; vector 13 is of another model.           *)
EXTENDS Search, TLC

Wings  == [d \in Drawers |-> IF d = 1 THEN {21} ELSE {22}]
Asked  == {[scope |-> s, vector |-> TRUE] : s \in {21, NoScope}}
Embedded == {<<11, 1>>, <<12, 2>>, <<13, 2>>}
OneDim == [v \in Vectors |-> IF v = 13 THEN 2 ELSE 1]
Good   == [v \in Vectors |-> IF v = 11 THEN 1 ELSE 0]
Words  == [d \in Drawers |-> IF d = 2 THEN 1 ELSE 0]
Symmetry == Permutations(Readers) \cup Permutations(Folds)
=============================================================================
