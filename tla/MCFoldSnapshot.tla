--------------------------- MODULE MCFoldSnapshot ---------------------------
(* TLC instances of FoldSnapshot. *)
EXTENDS FoldSnapshot, TLC

Symmetry == Permutations(Readers) \cup Permutations(Appenders)
=============================================================================
