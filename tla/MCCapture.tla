----------------------------- MODULE MCCapture -----------------------------
(* TLC instances of Capture. *)
EXTENDS Capture, TLC

Symmetry == Permutations(Captures)
=============================================================================
