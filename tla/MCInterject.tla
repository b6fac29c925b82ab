---------------------------- MODULE MCInterject ----------------------------
(* TLC instances of Interject. *)
EXTENDS Interject, TLC

Symmetry == Permutations(Tools)
=============================================================================
