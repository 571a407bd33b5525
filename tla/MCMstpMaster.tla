---------------------------- MODULE MCMstpMaster ----------------------------
(***************************************************************************)
(* Instances of MstpMaster for TLC: the constants are given in the         *)
(* configuration.                                                          *)
(***************************************************************************)
EXTENDS MstpMaster
=============================================================================
