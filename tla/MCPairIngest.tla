---------------------------- MODULE MCPairIngest ----------------------------
(* The pair machine with its ingest wiring on a small instance for TLC.     *)
EXTENDS PairIngest, TLC

\* Socket ids are interchangeable.
SocketSymmetry == Permutations(Sockets)
=============================================================================
