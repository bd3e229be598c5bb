---------------------------- MODULE MCPairSnapshots ----------------------------
(* The credentials of one user for TLC: the bounds are given by the         *)
(* configuration.                                                           *)
EXTENDS PairSnapshots
=============================================================================
