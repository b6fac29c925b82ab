---------------------------- MODULE MCEmbedSweep ----------------------------
(* TLC instances of EmbedSweep. *)
EXTENDS EmbedSweep, TLC

Symmetry == Permutations(Drawers) \cup Permutations(Requests)
=============================================================================
