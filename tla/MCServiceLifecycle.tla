------------------------ MODULE MCServiceLifecycle ------------------------
(***************************************************************************)
(* Small instances of ServiceLifecycle: the constants are in the cfgs.     *)
(***************************************************************************)
EXTENDS ServiceLifecycle
=============================================================================
