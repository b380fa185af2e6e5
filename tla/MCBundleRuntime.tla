-------------------------- MODULE MCBundleRuntime --------------------------
(***************************************************************************)
(* Small instances of BundleRuntime: the calls, what they are and the      *)
(* session each is for.                                                    *)
(***************************************************************************)
EXTENDS BundleRuntime

\* a write and a read of session s1, and a start that attaches s2
MixedKind == [w |-> "write", r |-> "read", s |-> "start"]
MixedSession == [w |-> "s1", r |-> "s1", s |-> "s2"]
=============================================================================
