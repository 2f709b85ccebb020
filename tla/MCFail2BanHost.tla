--------------------------- MODULE MCFail2BanHost ---------------------------
(***************************************************************************)
(* One host with a few addresses.  Ban ids, addresses and jails are        *)
(* interchangeable: every property checked with this module is symmetric   *)
(* in each of them.                                                        *)
(***************************************************************************)
EXTENDS Fail2BanHost, TLC

MCSymmetry == Permutations(BanId) \cup Permutations(IP) \cup Permutations(Jail)
=============================================================================
