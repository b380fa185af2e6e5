-------------------------- MODULE MCCheckPipeline --------------------------
(* CheckPipeline on small instances; invocations are interchangeable.       *)
EXTENDS CheckPipeline, TLC

CONSTANTS c1, c2

CallSymmetry == Permutations(Calls)
=============================================================================
