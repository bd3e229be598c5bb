------------------------------ MODULE MCPairPage ------------------------------
(* The pairing page of one user for TLC: the bound is given by the          *)
(* configuration.                                                           *)
EXTENDS PairPage
=============================================================================
