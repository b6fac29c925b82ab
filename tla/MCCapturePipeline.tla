-------------------------- MODULE MCCapturePipeline --------------------------
(* TLC instances of CapturePipeline. *)
EXTENDS CapturePipeline, TLC

CONSTANTS c1, c2, d1

TheContent == (c1 :> d1 @@ c2 :> d1)     \* equal outputs: one drawer
=============================================================================
