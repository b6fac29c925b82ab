------------------------- MODULE MCDaemonLifecycle -------------------------
(* TLC instances of DaemonLifecycle. *)
EXTENDS DaemonLifecycle, TLC

Symmetry == Permutations(Daemons)
=============================================================================
