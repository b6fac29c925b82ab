----------------------------- MODULE MCCuration -----------------------------
EXTENDS Curation, TLC

Symmetry == Permutations(Drawers) \cup Permutations(Passes) \cup Permutations(Gardens)
=============================================================================
