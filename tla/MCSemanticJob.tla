---------------------------- MODULE MCSemanticJob ----------------------------
(* Instances of SemanticJob for TLC.                                        *)
EXTENDS SemanticJob, TLC

CONSTANTS c1, c2

CallSymmetry == Permutations(Calls)
=============================================================================
