--------------------------- MODULE MCContextSleep ---------------------------
(* TLC instances of ContextSleep. *)
EXTENDS ContextSleep, TLC

Symmetry == Permutations(Messages) \cup Permutations(Callers)
=============================================================================
