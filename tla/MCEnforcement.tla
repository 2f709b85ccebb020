---------------------------- MODULE MCEnforcement ----------------------------
(***************************************************************************)
(* Small instances of Enforcement for TLC: one address of each family, one *)
(* handler thread beside the periodic one.                                 *)
(***************************************************************************)
EXTENDS Enforcement
=============================================================================
