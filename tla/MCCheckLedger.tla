---------------------------- MODULE MCCheckLedger ----------------------------
(* Instances of CheckLedger for TLC.                                        *)
EXTENDS CheckLedger, TLC

CONSTANTS k1, k2, c1, c2, w1, i1, o1, f1, r1, s1

\* Everything belongs to one session, where every barrier and lease collides.
OneSession == [x \in Keys \cup Appends |-> s1]

CallSymmetry == Permutations(Calls)
=============================================================================
