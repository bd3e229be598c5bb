---------------------------- MODULE MCPairCommands ----------------------------
(* The commands of one user for TLC: the bounds are given by the            *)
(* configuration.                                                           *)
EXTENDS PairCommands
=============================================================================
