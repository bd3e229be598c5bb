---------------------------- MODULE MCPairMachine ----------------------------
(* The pair machine for TLC: its constants are given by the configuration.  *)
(* Socket ids are interchangeable, but liveness is checked in the same run, *)
(* so they are not declared symmetric.                                      *)
EXTENDS PairMachine
=============================================================================
